---------------------------- MODULE SessionLists ----------------------------
(***************************************************************************)
(* The list helpers the engine is built from.  A session keeps what it     *)
(* remembers in short lists of strings: BoundedAppend is the scorer's      *)
(* _bounded_append, the one operation that grows most of them, and Dedupe  *)
(* is the keep-first deduplication of reason codes.  Values are opaque:    *)
(* the cut of a value at 200 characters is left out.                       *)
(***************************************************************************)
EXTENDS Integers, Sequences, SequencesExt

(* values[-n:], the last n members of a list (all of it when shorter).     *)
LastN(values, n) ==
  SubSeq(values, IF Len(values) > n THEN Len(values) - n + 1 ELSE 1, Len(values))

(* [v for v in values if v != value] on a list without repetitions, which  *)
(* every list built by BoundedAppend is (theorem BoundedAppendDistinct).   *)
Without(values, value) ==
  IF \E i \in 1..Len(values) : values[i] = value
    THEN RemoveAt(values, CHOOSE i \in 1..Len(values) : values[i] = value)
    ELSE values

(* The value moves to the end; the oldest goes when the list is full.      *)
BoundedAppend(values, value, limit) ==
  LastN(Append(Without(values, value), value), limit)

(* Keep the first occurrence of every member.                              *)
Dedupe(values) ==
  FoldLeft(LAMBDA out, v : IF Contains(out, v) THEN out ELSE Append(out, v),
           << >>, values)

(* [v for v in values if v in kept]; SelectSeq, with the test as a set.    *)
Those(values, kept) ==
  FoldLeft(LAMBDA out, v : IF v \in kept THEN Append(out, v) ELSE out, << >>, values)

Distinct(values) ==
  \A i, j \in 1..Len(values) : values[i] = values[j] => i = j
=============================================================================
