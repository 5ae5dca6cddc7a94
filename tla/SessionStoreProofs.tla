------------------------- MODULE SessionStoreProofs --------------------------
(***************************************************************************)
(* What the session's lists keep, for lists of any length and every limit: *)
(* what BoundedAppend does to a list, what a fold over the values of one   *)
(* call goes through, and what a bounded list still knows of all the       *)
(* values it was given: those it holds were given, in the order they were  *)
(* given last, and a value is dropped only after SESSION_LIST_LIMIT others.*)
(***************************************************************************)
EXTENDS SessionStore, SequenceTheorems, FiniteSetTheorems, WellFoundedInduction, TLAPS

(* Removal closes the gap.                                                 *)
LEMMA RemoveAtProperties ==
  ASSUME NEW S, NEW values \in Seq(S), NEW i \in 1..Len(values)
  PROVE  /\ RemoveAt(values, i) \in Seq(S)
         /\ Len(RemoveAt(values, i)) = Len(values) - 1
         /\ \A j \in 1..(Len(values) - 1) :
              RemoveAt(values, i)[j] = IF j < i THEN values[j] ELSE values[j + 1]
<1>. DEFINE front == SubSeq(values, 1, i - 1)
            back  == SubSeq(values, i + 1, Len(values))
<1>1. Len(values) \in Nat /\ i \in Nat
  BY LenProperties
<1>2. /\ front \in Seq(S) /\ Len(front) = i - 1
      /\ \A j \in 1..(i - 1) : front[j] = values[j]
  BY <1>1, SubSeqProperties
<1>3. /\ back \in Seq(S) /\ Len(back) = Len(values) - i
      /\ \A j \in 1..(Len(values) - i) : back[j] = values[i + j]
  BY <1>1, SubSeqProperties
<1>4. RemoveAt(values, i) = front \o back
  BY DEF RemoveAt
<1>. HIDE DEF front, back
<1>5. /\ front \o back \in Seq(S)
      /\ Len(front \o back) = Len(values) - 1
      /\ \A j \in 1..(Len(values) - 1) :
           (front \o back)[j] = IF j <= i - 1 THEN front[j] ELSE back[j - (i - 1)]
  <2>1. Len(front) + Len(back) = Len(values) - 1
    BY <1>1, <1>2, <1>3
  <2>2. /\ front \o back \in Seq(S)
        /\ Len(front \o back) = Len(front) + Len(back)
        /\ \A j \in 1..Len(front) + Len(back) :
             (front \o back)[j] = IF j <= Len(front) THEN front[j] ELSE back[j - Len(front)]
    BY <1>2, <1>3, ConcatProperties, Zenon
  <2>. QED  BY <1>2, <2>1, <2>2
<1>6. ASSUME NEW j \in 1..(Len(values) - 1)
      PROVE  RemoveAt(values, i)[j] = IF j < i THEN values[j] ELSE values[j + 1]
  <2>1. CASE j < i
    <3>1. j \in 1..(i - 1) /\ j <= i - 1
      BY <1>1, <2>1
    <3>. QED  BY <1>2, <1>4, <1>5, <2>1, <3>1
  <2>2. CASE ~(j < i)
    <3>1. j - (i - 1) \in 1..(Len(values) - i) /\ ~(j <= i - 1) /\ i + (j - (i - 1)) = j + 1
      BY <1>1, <2>2
    <3>. QED  BY <1>3, <1>4, <1>5, <2>2, <3>1
  <2>. QED  BY <2>1, <2>2
<1>. QED  BY <1>4, <1>5, <1>6

(* A list without repetitions loses the one occurrence of the value.       *)
LEMMA WithoutProperties ==
  ASSUME NEW S, NEW values \in Seq(S), Distinct(values), NEW value \in S
  PROVE  /\ Without(values, value) \in Seq(S)
         /\ Distinct(Without(values, value))
         /\ \A j \in 1..Len(Without(values, value)) : Without(values, value)[j] # value
<1>1. Len(values) \in Nat
  BY LenProperties
<1>2. CASE \E i \in 1..Len(values) : values[i] = value
  <2>. DEFINE i == CHOOSE k \in 1..Len(values) : values[k] = value
              rest == RemoveAt(values, i)
  <2>1. i \in 1..Len(values) /\ values[i] = value
    BY <1>2
  <2>2. Without(values, value) = rest
    BY <1>2 DEF Without
  <2>. HIDE DEF i
  <2>3. /\ rest \in Seq(S)
        /\ Len(rest) = Len(values) - 1
        /\ \A j \in 1..(Len(values) - 1) :
             rest[j] = IF j < i THEN values[j] ELSE values[j + 1]
    BY <2>1, RemoveAtProperties
  <2>. HIDE DEF rest
  <2>4. ASSUME NEW j \in 1..Len(rest) PROVE rest[j] # value
    BY <1>1, <2>1, <2>3 DEF Distinct
  <2>5. ASSUME NEW j \in 1..Len(rest), NEW k \in 1..Len(rest), rest[j] = rest[k]
        PROVE  j = k
    BY <1>1, <2>1, <2>3, <2>5 DEF Distinct
  <2>. QED  BY <2>2, <2>3, <2>4, <2>5 DEF Distinct
<1>3. CASE ~\E i \in 1..Len(values) : values[i] = value
  BY <1>3 DEF Without
<1>. QED  BY <1>2, <1>3

(* scorer._bounded_append: whatever the session's list holds, the value    *)
(* just seen comes last and once, nothing is listed twice, and the list    *)
(* never outgrows its limit.                                               *)
THEOREM BoundedAppendDistinct ==
  ASSUME NEW S, NEW values \in Seq(S), Distinct(values), NEW value \in S,
         NEW limit \in Nat \ {0}
  PROVE  LET kept == BoundedAppend(values, value, limit)
         IN  /\ kept \in Seq(S)
             /\ Distinct(kept)
             /\ Len(kept) \in 1..limit
             /\ kept[Len(kept)] = value
<1>. DEFINE rest == Without(values, value)
            whole == Append(rest, value)
            first == IF Len(whole) > limit THEN Len(whole) - limit + 1 ELSE 1
            kept == SubSeq(whole, first, Len(whole))
<1>1. /\ rest \in Seq(S) /\ Distinct(rest)
      /\ \A j \in 1..Len(rest) : rest[j] # value
  BY WithoutProperties
<1>2. BoundedAppend(values, value, limit) = kept
  BY DEF BoundedAppend, LastN
<1>. HIDE DEF rest
<1>3. /\ whole \in Seq(S) /\ Len(whole) = Len(rest) + 1 /\ Len(rest) \in Nat
      /\ whole[Len(whole)] = value
      /\ \A j \in 1..Len(rest) : whole[j] = rest[j]
  BY <1>1, AppendProperties, LenProperties
<1>. HIDE DEF whole
<1>4. Distinct(whole)
  <2>. SUFFICES ASSUME NEW j \in 1..Len(whole), NEW k \in 1..Len(whole), whole[j] = whole[k]
                PROVE  j = k
    BY DEF Distinct
  <2>. QED  BY <1>1, <1>3 DEF Distinct
<1>5. first \in 1..Len(whole) /\ Len(whole) - first + 1 \in 1..limit
  BY <1>3
<1>. HIDE DEF first
<1>6. /\ kept \in Seq(S) /\ Len(kept) = Len(whole) - first + 1
      /\ \A j \in 1..(Len(whole) - first + 1) : kept[j] = whole[first + j - 1]
  BY <1>3, <1>5, SubSeqProperties
<1>. HIDE DEF kept
<1>7. Distinct(kept)
  <2>. SUFFICES ASSUME NEW j \in 1..Len(kept), NEW k \in 1..Len(kept), kept[j] = kept[k]
                PROVE  j = k
    BY DEF Distinct
  <2>1. /\ j \in 1..(Len(whole) - first + 1) /\ k \in 1..(Len(whole) - first + 1)
        /\ first + j - 1 \in 1..Len(whole) /\ first + k - 1 \in 1..Len(whole)
    BY <1>3, <1>5, <1>6
  <2>2. whole[first + j - 1] = whole[first + k - 1]
    BY <1>6, <2>1
  <2>3. first + j - 1 = first + k - 1
    BY <1>4, <2>1, <2>2 DEF Distinct
  <2>. QED  BY <1>3, <1>5, <2>1, <2>3
<1>8. kept[Len(kept)] = value
  BY <1>3, <1>5, <1>6
<1>. QED  BY <1>2, <1>5, <1>6, <1>7, <1>8
-----------------------------------------------------------------------------
LEMMA Least ==
  ASSUME NEW T \in SUBSET Nat, T # {}
  PROVE  \E x \in T : \A y \in T : x <= y
<1>. DEFINE R == OpToRel(<, Nat)
<1>1. \A x, y \in Nat : y < x => << y, x >> \in R
  BY DEF OpToRel
<1>2. IsWellFoundedOn(R, Nat)
  BY NatLessThanWellFounded
<1>. HIDE DEF R
<1>3. PICK x \in T : \A y \in T : << y, x >> \notin R
  BY <1>2, WFMin
<1>4. \A y \in T : ~(y < x)
  BY <1>1, <1>3
<1>. QED  BY <1>4

(* What holds of 0 and of the next number holds of all up to n.            *)
LEMMA UpTo ==
  ASSUME NEW n \in Nat, NEW T, 0 \in T,
         \A k \in 1..n : k - 1 \in T => k \in T
  PROVE  \A k \in 0..n : k \in T
<1>. SUFFICES ASSUME { k \in 0..n : k \notin T } # {} PROVE FALSE
  OBVIOUS
<1>. DEFINE U == { k \in 0..n : k \notin T }
<1>1. PICK x \in U : \A y \in U : x <= y
  <2>1. U \in SUBSET Nat
    OBVIOUS
  <2>. HIDE DEF U
  <2>. QED  BY <2>1, Least DEF U
<1>2. x \in 1..n /\ x - 1 \in 0..n
  BY <1>1
<1>3. x - 1 \in T
  BY <1>1, <1>2
<1>. QED  BY <1>1, <1>2, <1>3

LEMMA Largest ==
  ASSUME NEW n \in Nat, NEW T \in SUBSET (1..n), T # {}
  PROVE  Max(T) \in T /\ \A y \in T : Max(T) >= y
<1>. DEFINE U == { n - y : y \in T }
<1>1. PICK x \in U : \A y \in U : x <= y
  <2>1. U \in SUBSET Nat /\ U # {}
    OBVIOUS
  <2>. HIDE DEF U
  <2>. QED  BY <2>1, Least
<1>2. PICK m \in T : x = n - m
  BY <1>1
<1>3. \A y \in T : m >= y
  <2>1. \A y \in T : n - m <= n - y
    BY <1>1, <1>2
  <2>. QED  BY <2>1
<1>. QED  BY <1>3 DEF Max

(* A fold as the values it goes through, for any function that makes the   *)
(* k-th of them from the one before.                                       *)
Iterates(iter, base, n, step) ==
  iter = [s \in SUBSET (1..n) |->
            IF s = {} THEN base ELSE step[Max(s)][iter[s \ {Max(s)}]]]

LEMMA FoldDefined ==
  ASSUME NEW D, NEW base \in D, NEW n \in Nat, NEW step \in [1..n -> [D -> D]]
  PROVE  \E iter \in [SUBSET (1..n) -> D] : Iterates(iter, base, n, step)
<1>. DEFINE Solves(it, k) == it = [s \in SUBSET (1..k) |->
                     IF s = {} THEN base ELSE step[Max(s)][it[s \ {Max(s)}]]]
            T == { k \in 0..n : \E it \in [SUBSET (1..k) -> D] : Solves(it, k) }
<1>1. 0 \in T
  <2>. DEFINE it == [s \in SUBSET (1..0) |-> base]
  <2>1. SUBSET (1..0) = {{}}
    OBVIOUS
  <2>2. it \in [SUBSET (1..0) -> D] /\ Solves(it, 0)
    BY <2>1
  <2>. QED  BY <2>2
<1>2. ASSUME NEW k \in 1..n, k - 1 \in T PROVE k \in T
  <2>1. PICK it \in [SUBSET (1..(k - 1)) -> D] : Solves(it, k - 1)
    BY <1>2
  <2>. DEFINE new == [s \in SUBSET (1..k) |->
                        IF k \in s THEN step[k][it[s \ {k}]] ELSE it[s]]
  <2>2. ASSUME NEW s \in SUBSET (1..k)
        PROVE  /\ k \in s => s \ {k} \in SUBSET (1..(k - 1))
               /\ k \notin s => s \in SUBSET (1..(k - 1))
    BY <1>2
  <2>3. new \in [SUBSET (1..k) -> D]
    <3>. SUFFICES ASSUME NEW s \in SUBSET (1..k)
                  PROVE  (IF k \in s THEN step[k][it[s \ {k}]] ELSE it[s]) \in D
      OBVIOUS
    <3>1. CASE k \in s
      <4>1. it[s \ {k}] \in D
        BY <2>1, <2>2, <3>1
      <4>2. step[k] \in [D -> D]
        OBVIOUS
      <4>. QED  BY <3>1, <4>1, <4>2
    <3>2. CASE k \notin s
      BY <2>1, <2>2, <3>2
    <3>. QED  BY <3>1, <3>2
  <2>4. ASSUME NEW s \in SUBSET (1..k)
        PROVE  new[s] = IF s = {} THEN base ELSE step[Max(s)][new[s \ {Max(s)}]]
    <3>1. CASE k \in s
      <4>1. Max(s) = k
        <5>1. Max(s) \in s /\ Max(s) >= k
          <6>1. k \in Nat /\ s # {}
            BY <3>1
          <6>. QED  BY <3>1, <6>1, Largest
        <5>2. Max(s) \in 1..k
          BY <5>1
        <5>. QED  BY <5>1, <5>2
      <4>2. new[s \ {k}] = it[s \ {k}]
        BY <2>2, <3>1
      <4>. QED  BY <3>1, <4>1, <4>2
    <3>2. CASE k \notin s
      <4>1. s \in SUBSET (1..(k - 1))
        BY <2>2, <3>2
      <4>2. new[s] = it[s]
        BY <3>2
      <4>3. it[s] = IF s = {} THEN base ELSE step[Max(s)][it[s \ {Max(s)}]]
        BY <2>1, <4>1
      <4>4. s # {} => /\ s \ {Max(s)} \in SUBSET (1..k)
                      /\ k \notin s \ {Max(s)}
                      /\ new[s \ {Max(s)}] = it[s \ {Max(s)}]
        BY <3>2
      <4>. QED  BY <4>2, <4>3, <4>4
    <3>. QED  BY <3>1, <3>2
  <2>5. Solves(new, k)
    BY <2>4
  <2>. HIDE DEF new, Solves
  <2>6. k \in 0..n
    OBVIOUS
  <2>. QED  BY <2>3, <2>5, <2>6
<1>. HIDE DEF Solves
<1>3. n \in T
  <2>. HIDE DEF T
  <2>1. \A k \in 1..n : k - 1 \in T => k \in T
    BY <1>2
  <2>2. \A k \in 0..n : k \in T
    BY <1>1, <2>1, UpTo
  <2>. QED  BY <2>2
<1>. QED  BY <1>3 DEF Solves, Iterates

(* The values a list goes through when some are remembered in turn.        *)
LEMMA RememberAllSteps ==
  ASSUME NEW S, NEW list \in Seq(S), Distinct(list), NEW values \in Seq(S)
  PROVE  \E g :
           /\ g[0] = list
           /\ \A k \in 1..Len(values) : g[k] = Remember(g[k - 1], values[k])
           /\ RememberAll(list, values) = g[Len(values)]
<1>. DEFINE n == Len(values)
            D == { l \in Seq(S) : Distinct(l) }
            step == [k \in 1..n |-> [l \in D |-> Remember(l, values[k])]]
            Solves(it) == it = [s \in SUBSET (DOMAIN values) |->
                                  IF s = {} THEN list
                                  ELSE Remember(it[s \ {Max(s)}], values[Max(s)])]
<1>1. n \in Nat /\ DOMAIN values = 1..n /\ \A k \in 1..n : values[k] \in S
  BY LenProperties, ElementOfSeq
<1>2. \A l \in D, v \in S : Remember(l, v) \in D
  <2>. TAKE l \in D, v \in S
  <2>1. BoundedAppend(l, v, SESSION_LIST_LIMIT) \in Seq(S)
        /\ Distinct(BoundedAppend(l, v, SESSION_LIST_LIMIT))
    BY BoundedAppendDistinct, ListLimitAssumption
  <2>. QED  BY <2>1 DEF Remember
<1>. HIDE DEF D, n
<1>3. step \in [1..n -> [D -> D]] /\ list \in D
  <2>1. \A k \in 1..n : [l \in D |-> Remember(l, values[k])] \in [D -> D]
    BY <1>1, <1>2
  <2>2. list \in D
    BY DEF D
  <2>. QED  BY <2>1, <2>2
<1>4. PICK iter \in [SUBSET (1..n) -> D] : Iterates(iter, list, n, step)
  <2>. HIDE DEF step
  <2>. QED  BY <1>1, <1>3, FoldDefined
<1>5. ASSUME NEW s \in SUBSET (1..n), s # {}
      PROVE  step[Max(s)][iter[s \ {Max(s)}]] = Remember(iter[s \ {Max(s)}], values[Max(s)])
  <2>1. Max(s) \in 1..n
    BY <1>1, <1>5, Largest
  <2>2. iter[s \ {Max(s)}] \in D
    OBVIOUS
  <2>. QED  BY <2>1, <2>2
<1>6. Solves(iter)
  BY <1>1, <1>4, <1>5 DEF Iterates
<1>. DEFINE it == CHOOSE t : Solves(t)
            g == [k \in 0..n |-> it[1..k]]
<1>7. Solves(it)
  <2>. HIDE DEF Solves
  <2>. QED  BY <1>6
<1>8. RememberAll(list, values) = it[DOMAIN values]
  BY DEF RememberAll, FoldLeft, MapThenFoldSet
<1>. HIDE DEF it
<1>9. g[0] = list
  BY <1>1, <1>7
<1>10. ASSUME NEW k \in 1..n PROVE g[k] = Remember(g[k - 1], values[k])
  <2>1. (1..k) \in SUBSET (1..n) /\ k \in 1..k
    BY <1>1
  <2>2. Max(1..k) = k
    <3>1. Max(1..k) \in 1..k /\ Max(1..k) >= k
      <4>1. k \in Nat
        BY <1>1
      <4>2. (1..k) \in SUBSET (1..k) /\ (1..k) # {}
        BY <2>1
      <4>. QED  BY <2>1, <4>1, <4>2, Largest
    <3>. QED  BY <3>1
  <2>3. (1..k) \ {k} = 1..(k - 1) /\ k \in 0..n /\ k - 1 \in 0..n
    BY <1>1
  <2>4. (1..k) \in SUBSET (DOMAIN values) /\ 1..k # {}
    BY <1>1, <2>1
  <2>. QED  BY <1>7, <2>2, <2>3, <2>4
<1>11. RememberAll(list, values) = g[n]
  BY <1>1, <1>8
<1>. QED  BY <1>9, <1>10, <1>11 DEF n

(* The values a selection goes through.                                    *)
LEMMA ThoseSteps ==
  ASSUME NEW S, NEW values \in Seq(S), NEW kept
  PROVE  \E g :
           /\ g[0] = << >>
           /\ \A k \in 1..Len(values) :
                g[k] = IF values[k] \in kept THEN Append(g[k - 1], values[k]) ELSE g[k - 1]
           /\ Those(values, kept) = g[Len(values)]
<1>. DEFINE n == Len(values)
            D == Seq(S)
            Next_(l, v) == IF v \in kept THEN Append(l, v) ELSE l
            step == [k \in 1..n |-> [l \in D |-> Next_(l, values[k])]]
            Solves(it) == it = [s \in SUBSET (DOMAIN values) |->
                                  IF s = {} THEN << >>
                                  ELSE Next_(it[s \ {Max(s)}], values[Max(s)])]
<1>1. n \in Nat /\ DOMAIN values = 1..n /\ \A k \in 1..n : values[k] \in S
  BY LenProperties, ElementOfSeq
<1>2. \A l \in D, v \in S : Next_(l, v) \in D
  BY AppendProperties
<1>0. Those(values, kept) = (CHOOSE t : Solves(t))[DOMAIN values]
  BY DEF Those, FoldLeft, MapThenFoldSet
<1>. HIDE DEF D, n, Next_
<1>3. step \in [1..n -> [D -> D]] /\ << >> \in D
  <2>1. \A k \in 1..n : [l \in D |-> Next_(l, values[k])] \in [D -> D]
    BY <1>1, <1>2
  <2>2. << >> \in D
    BY DEF D
  <2>. QED  BY <2>1, <2>2
<1>4. PICK iter \in [SUBSET (1..n) -> D] : Iterates(iter, << >>, n, step)
  <2>. HIDE DEF step
  <2>. QED  BY <1>1, <1>3, FoldDefined
<1>5. ASSUME NEW s \in SUBSET (1..n), s # {}
      PROVE  step[Max(s)][iter[s \ {Max(s)}]] = Next_(iter[s \ {Max(s)}], values[Max(s)])
  <2>1. Max(s) \in 1..n
    BY <1>1, <1>5, Largest
  <2>2. iter[s \ {Max(s)}] \in D
    OBVIOUS
  <2>. QED  BY <2>1, <2>2
<1>6. Solves(iter)
  BY <1>1, <1>4, <1>5 DEF Iterates
<1>. DEFINE it == CHOOSE t : Solves(t)
            g == [k \in 0..n |-> it[1..k]]
<1>7. Solves(it)
  <2>. HIDE DEF Solves
  <2>. QED  BY <1>6
<1>8. Those(values, kept) = it[DOMAIN values]
  BY <1>0
<1>. HIDE DEF it
<1>9. g[0] = << >>
  BY <1>1, <1>7
<1>10. ASSUME NEW k \in 1..n PROVE g[k] = Next_(g[k - 1], values[k])
  <2>1. (1..k) \in SUBSET (1..n) /\ k \in 1..k
    BY <1>1
  <2>2. Max(1..k) = k
    <3>1. Max(1..k) \in 1..k /\ Max(1..k) >= k
      <4>1. k \in Nat
        BY <1>1
      <4>2. (1..k) \in SUBSET (1..k) /\ (1..k) # {}
        BY <2>1
      <4>. QED  BY <2>1, <4>1, <4>2, Largest
    <3>. QED  BY <3>1
  <2>3. (1..k) \ {k} = 1..(k - 1) /\ k \in 0..n /\ k - 1 \in 0..n
    BY <1>1
  <2>4. (1..k) \in SUBSET (DOMAIN values) /\ 1..k # {}
    BY <1>1, <2>1
  <2>. QED  BY <1>7, <2>2, <2>3, <2>4
<1>11. Those(values, kept) = g[n]
  BY <1>1, <1>8
<1>. QED  BY <1>9, <1>10, <1>11 DEF n, Next_
-----------------------------------------------------------------------------
Among(value, list) == \E i \in 1..Len(list) : list[i] = value

Before(x, y, list) == \E p, q \in 1..Len(list) : p < q /\ list[p] = x /\ list[q] = y

(* Removal drops one value and keeps the order of the others.              *)
LEMMA WithoutKeeps ==
  ASSUME NEW S, NEW list \in Seq(S), Distinct(list), NEW value \in S
  PROVE  /\ \A x : x # value => (Among(x, Without(list, value)) <=> Among(x, list))
         /\ \A x, y : Before(x, y, Without(list, value)) => Before(x, y, list)
         /\ Len(Without(list, value)) = IF Among(value, list) THEN Len(list) - 1 ELSE Len(list)
         /\ ~Among(value, list) => Without(list, value) = list
<1>1. Len(list) \in Nat
  BY LenProperties
<1>2. CASE ~Among(value, list)
  BY <1>2 DEF Without, Among
<1>3. CASE Among(value, list)
  <2>. DEFINE i == CHOOSE k \in 1..Len(list) : list[k] = value
              rest == RemoveAt(list, i)
              old(j) == IF j < i THEN j ELSE j + 1
  <2>1. i \in 1..Len(list) /\ list[i] = value
    BY <1>3 DEF Among
  <2>2. Without(list, value) = rest
    BY <1>3 DEF Without, Among
  <2>. HIDE DEF i
  <2>3. /\ Len(rest) = Len(list) - 1
        /\ \A j \in 1..(Len(list) - 1) :
             rest[j] = IF j < i THEN list[j] ELSE list[j + 1]
    BY <2>1, RemoveAtProperties
  <2>. HIDE DEF rest
  <2>4. \A j \in 1..Len(rest) : old(j) \in 1..Len(list) /\ rest[j] = list[old(j)]
    BY <1>1, <2>1, <2>3
  <2>5. ASSUME NEW x, x # value, Among(x, list) PROVE Among(x, rest)
    <3>1. PICK j \in 1..Len(list) : list[j] = x
      BY <2>5 DEF Among
    <3>2. j # i
      BY <2>1, <2>5, <3>1
    <3>3. CASE j < i
      <4>1. j \in 1..Len(rest) /\ rest[j] = x
        BY <1>1, <2>1, <2>3, <3>1, <3>3
      <4>. QED  BY <4>1 DEF Among
    <3>4. CASE j > i
      <4>1. /\ j - 1 \in 1..(Len(list) - 1) /\ ~(j - 1 < i) /\ (j - 1) + 1 = j
        BY <1>1, <2>1, <3>4
      <4>2. rest[j - 1] = x
        BY <2>3, <3>1, <4>1
      <4>. QED  BY <2>3, <4>1, <4>2 DEF Among
    <3>. QED  BY <1>1, <2>1, <3>2, <3>3, <3>4
  <2>6. ASSUME NEW x, Among(x, rest) PROVE Among(x, list)
    BY <2>4, <2>6 DEF Among
  <2>7. ASSUME NEW x, NEW y, Before(x, y, rest) PROVE Before(x, y, list)
    <3>1. PICK p \in 1..Len(rest), q \in 1..Len(rest) : p < q /\ rest[p] = x /\ rest[q] = y
      BY <2>7 DEF Before
    <3>2. old(p) < old(q)
      BY <1>1, <2>1, <2>3, <3>1
    <3>. QED  BY <2>4, <3>1, <3>2 DEF Before
  <2>. QED  BY <1>3, <2>2, <2>3, <2>5, <2>6, <2>7
<1>. QED  BY <1>2, <1>3

(* The value moves to the end; what is dropped for it was the first of a   *)
(* full list that did not hold the value.                                  *)
LEMMA RememberKeeps ==
  ASSUME NEW S, NEW list \in Seq(S), Distinct(list), NEW value \in S,
         Len(list) <= SESSION_LIST_LIMIT
  PROVE  LET kept == Remember(list, value)
         IN  /\ kept \in Seq(S) /\ Distinct(kept)
             /\ kept # << >> /\ Len(kept) <= SESSION_LIST_LIMIT
             /\ Len(list) = SESSION_LIST_LIMIT => Len(kept) = SESSION_LIST_LIMIT
             /\ Among(value, kept)
             /\ \A x : Among(x, kept) => x = value \/ Among(x, list)
             /\ \A x, y : Before(x, y, kept) => y = value \/ (x # value /\ Before(x, y, list))
             /\ \A x : Among(x, list) /\ ~Among(x, kept) =>
                  /\ Len(list) = SESSION_LIST_LIMIT /\ ~Among(value, list)
                  /\ x = list[1]
<1>. DEFINE n == SESSION_LIST_LIMIT
            rest == Without(list, value)
            whole == Append(rest, value)
            first == IF Len(whole) > n THEN Len(whole) - n + 1 ELSE 1
            kept == SubSeq(whole, first, Len(whole))
<1>1. Remember(list, value) = kept
  BY DEF Remember, BoundedAppend, LastN
<1>2. /\ rest \in Seq(S) /\ Len(list) \in Nat
      /\ \A x : x # value => (Among(x, rest) <=> Among(x, list))
      /\ \A x, y : Before(x, y, rest) => Before(x, y, list)
      /\ Len(rest) = IF Among(value, list) THEN Len(list) - 1 ELSE Len(list)
      /\ ~Among(value, list) => rest = list
      /\ \A j \in 1..Len(rest) : rest[j] # value
  BY WithoutProperties, WithoutKeeps, LenProperties
<1>3. n \in Nat \ {0} /\ Len(list) <= n
  BY ListLimitAssumption
<1>4. /\ kept \in Seq(S) /\ Distinct(kept) /\ Len(kept) \in 1..n /\ kept[Len(kept)] = value
  <2>1. /\ BoundedAppend(list, value, n) \in Seq(S)
        /\ Distinct(BoundedAppend(list, value, n))
        /\ Len(BoundedAppend(list, value, n)) \in 1..n
        /\ BoundedAppend(list, value, n)[Len(BoundedAppend(list, value, n))] = value
    BY <1>3, BoundedAppendDistinct
  <2>. QED  BY <1>1, <2>1 DEF Remember
<1>. HIDE DEF rest
<1>. HIDE DEF n
<1>5. /\ whole \in Seq(S) /\ Len(whole) = Len(rest) + 1 /\ Len(rest) \in Nat
      /\ whole[Len(rest) + 1] = value
      /\ \A j \in 1..Len(rest) : whole[j] = rest[j]
  BY <1>2, AppendProperties, LenProperties
<1>. HIDE DEF whole
<1>6. /\ first \in 1..Len(whole)
      /\ first = 1 \/ (first = 2 /\ Len(list) = n /\ ~Among(value, list))
  BY <1>2, <1>3, <1>5
<1>7. Len(list) = n => Len(whole) - first + 1 = n
  BY <1>2, <1>3, <1>5
<1>. HIDE DEF first
<1>8. /\ Len(kept) = Len(whole) - first + 1
      /\ \A j \in 1..(Len(whole) - first + 1) : kept[j] = whole[first + j - 1]
  BY <1>5, <1>6, SubSeqProperties
<1>. HIDE DEF kept
<1>9. Among(value, kept) /\ kept # << >>
  BY <1>3, <1>4, EmptySeq DEF Among
<1>10. ASSUME NEW x, Among(x, kept) PROVE x = value \/ Among(x, list)
  <2>1. PICK j \in 1..(Len(whole) - first + 1) : kept[j] = x
    BY <1>8, <1>10 DEF Among
  <2>2. first + j - 1 \in 1..Len(rest) \/ first + j - 1 = Len(rest) + 1
    BY <1>5, <1>6
  <2>3. x = value \/ Among(x, rest)
    BY <1>5, <1>8, <2>1, <2>2 DEF Among
  <2>. QED  BY <1>2, <2>3
<1>11. ASSUME NEW x, NEW y, Before(x, y, kept)
       PROVE  y = value \/ (x # value /\ Before(x, y, list))
  <2>1. PICK p \in 1..(Len(whole) - first + 1), q \in 1..(Len(whole) - first + 1) :
          p < q /\ kept[p] = x /\ kept[q] = y
    BY <1>8, <1>11 DEF Before
  <2>2. CASE q = Len(whole) - first + 1
    BY <1>4, <1>8, <2>1, <2>2
  <2>3. CASE q < Len(whole) - first + 1
    <3>1. /\ first + p - 1 \in 1..Len(rest) /\ first + q - 1 \in 1..Len(rest)
          /\ first + p - 1 < first + q - 1
      BY <1>5, <1>6, <2>1, <2>3
    <3>2. rest[first + p - 1] = x /\ rest[first + q - 1] = y
      BY <1>5, <1>8, <2>1, <3>1
    <3>3. Before(x, y, rest) /\ x # value
      BY <1>2, <3>1, <3>2 DEF Before
    <3>. QED  BY <1>2, <3>3
  <2>. QED  BY <1>5, <1>6, <2>1, <2>2, <2>3
<1>12. ASSUME NEW x, Among(x, list), ~Among(x, kept)
       PROVE  Len(list) = n /\ ~Among(value, list) /\ x = list[1]
  <2>1. x # value
    BY <1>9, <1>12
  <2>2. PICK j \in 1..Len(rest) : rest[j] = x
    BY <1>2, <1>12, <2>1 DEF Among
  <2>3. ASSUME j >= first PROVE FALSE
    <3>1. /\ j - first + 1 \in 1..(Len(whole) - first + 1)
          /\ first + (j - first + 1) - 1 = j
      BY <1>5, <1>6, <2>3
    <3>2. kept[j - first + 1] = x
      BY <1>5, <1>8, <2>2, <3>1
    <3>. QED  BY <1>8, <1>12, <3>1, <3>2 DEF Among
  <2>4. first = 2 /\ j = 1
    BY <1>5, <1>6, <2>3
  <2>. QED  BY <1>2, <1>6, <2>2, <2>4
<1>13. Len(list) = n => Len(kept) = n
  BY <1>7, <1>8
<1>. QED  BY <1>1, <1>3, <1>4, <1>9, <1>10, <1>11, <1>12, <1>13 DEF n
-----------------------------------------------------------------------------
(* A list of a session: no value twice, and never more than the limit.     *)
Listed(list, S) ==
  list \in Seq(S) /\ Distinct(list) /\ Len(list) <= SESSION_LIST_LIMIT

(* A list knows a set of the values it was given, all those given from some*)
(* moment on: they stand last, and all are there unless they are more than *)
(* the list can hold.                                                      *)
Knows(list, D) ==
  /\ IsFiniteSet(D)
  /\ \A x, y : Before(x, y, list) /\ x \in D => y \in D
  /\ \/ \A x \in D : Among(x, list)
     \/ Len(list) = SESSION_LIST_LIMIT /\ Cardinality(D) > SESSION_LIST_LIMIT

(* The values of gifts, one set for each of n calls, from the i-th on.     *)
GivenSince(gifts, n, i) == UNION { gifts[k] : k \in i..n }

(* A list tells what it was given: nothing else is on it, a value stands   *)
(* before those given after it, and all values given from a call on are    *)
(* still there unless they are more than the list can hold.                *)
Tells(list, S, gifts, n) ==
  /\ Listed(list, S)
  /\ \A x : Among(x, list) => x \in GivenSince(gifts, n, 1)
  /\ \A i \in 1..n : Knows(list, GivenSince(gifts, n, i))

(* A value is remembered: what was known is known with it.                 *)
LEMMA KnowsMore ==
  ASSUME NEW S, NEW list, Listed(list, S), NEW value \in S, NEW D, Knows(list, D)
  PROVE  LET kept == Remember(list, value)
         IN  /\ Listed(kept, S)
             /\ Knows(kept, D \cup {value})
             /\ \A x : Among(x, kept) => x = value \/ Among(x, list)
<1>. DEFINE kept == Remember(list, value)
            limit == SESSION_LIST_LIMIT
            E == D \cup {value}
<1>1. /\ kept \in Seq(S) /\ Distinct(kept) /\ Len(kept) <= limit
      /\ Len(list) = limit => Len(kept) = limit
      /\ Among(value, kept)
      /\ \A x : Among(x, kept) => x = value \/ Among(x, list)
      /\ \A x, y : Before(x, y, kept) => y = value \/ (x # value /\ Before(x, y, list))
      /\ \A x : Among(x, list) /\ ~Among(x, kept) =>
           Len(list) = limit /\ ~Among(value, list) /\ x = list[1]
  BY RememberKeeps DEF Listed
<1>2. /\ IsFiniteSet(D)
      /\ \A x, y : Before(x, y, list) /\ x \in D => y \in D
      /\ \/ \A x \in D : Among(x, list)
         \/ Len(list) = limit /\ Cardinality(D) > limit
  BY DEF Knows
<1>3. limit \in Nat \ {0}
  BY ListLimitAssumption
<1>. HIDE DEF kept
<1>4. /\ IsFiniteSet(E) /\ Cardinality(E) \in Nat /\ Cardinality(D) \in Nat
      /\ Cardinality(E) >= Cardinality(D)
  BY <1>2, FS_AddElement, FS_CardinalityType, FS_Subset
<1>5. \A x, y : Before(x, y, kept) /\ x \in E => y \in E
  BY <1>1, <1>2
<1>6. ASSUME Len(list) = limit, Cardinality(D) > limit
      PROVE  Len(kept) = limit /\ Cardinality(E) > limit
  BY <1>1, <1>3, <1>4, <1>6
<1>7. ASSUME \A x \in D : Among(x, list)
      PROVE  (\A x \in E : Among(x, kept)) \/ (Len(kept) = limit /\ Cardinality(E) > limit)
  <2>1. CASE \A x \in D : Among(x, kept)
    BY <1>1, <2>1
  <2>2. CASE \E x \in D : ~Among(x, kept)
    <3>1. list[1] \in D /\ Len(list) = limit /\ ~Among(value, list)
      BY <1>1, <1>7, <2>2
    <3>2. \A j \in 1..limit : list[j] \in D
      <4>1. ASSUME NEW j \in 1..limit, j # 1 PROVE list[j] \in D
        <5>1. 1 \in 1..Len(list) /\ j \in 1..Len(list) /\ 1 < j
          BY <1>3, <3>1, <4>1
        <5>2. Before(list[1], list[j], list)
          BY <5>1 DEF Before
        <5>. QED  BY <1>2, <3>1, <5>2
      <4>. QED  BY <3>1, <4>1
    <3>3. Cardinality(D) = limit
      <4>. DEFINE f == [j \in 1..limit |-> list[j]]
      <4>1. f \in Bijection(1..limit, D)
        <5>1. \A a, b \in 1..limit : list[a] = list[b] => a = b
          BY <3>1 DEF Listed, Distinct
        <5>2. \A x \in D : \E j \in 1..limit : list[j] = x
          BY <1>7, <3>1 DEF Among
        <5>. QED  BY <3>2, <5>1, <5>2 DEF Bijection, Injection, Surjection, IsInjective
      <4>2. ExistsBijection(1..limit, D)
        BY <4>1 DEF ExistsBijection
      <4>3. IsFiniteSet(1..limit) /\ Cardinality(1..limit) = limit
        BY <1>3, FS_Interval
      <4>. QED  BY <4>2, <4>3, FS_Bijection
    <3>4. value \notin D
      BY <1>7, <3>1
    <3>5. Cardinality(E) = limit + 1
      BY <1>2, <3>3, <3>4, FS_AddElement
    <3>. QED  BY <1>1, <1>3, <3>1, <3>5
  <2>. QED  BY <2>1, <2>2
<1>. HIDE DEF E
<1>8. Listed(kept, S)
  BY <1>1 DEF Listed
<1>9. Knows(kept, E)
  BY <1>2, <1>4, <1>5, <1>6, <1>7 DEF Knows
<1>. QED  BY <1>1, <1>8, <1>9 DEF kept, E

(* The same for the values of one call, remembered one after another.      *)
LEMMA KnowsAll ==
  ASSUME NEW S, NEW list, Listed(list, S), NEW values \in Seq(S), NEW D, Knows(list, D)
  PROVE  LET kept == RememberAll(list, values)
         IN  /\ Listed(kept, S)
             /\ Knows(kept, D \cup ToSet(values))
             /\ \A x : Among(x, kept) => x \in ToSet(values) \/ Among(x, list)
<1>. DEFINE part(k) == { values[j] : j \in 1..k }
            Good(l, k) == /\ Listed(l, S)
                          /\ Knows(l, D \cup part(k))
                          /\ \A x : Among(x, l) => x \in part(k) \/ Among(x, list)
<1>1. PICK g : /\ g[0] = list
               /\ \A k \in 1..Len(values) : g[k] = Remember(g[k - 1], values[k])
               /\ RememberAll(list, values) = g[Len(values)]
  BY RememberAllSteps DEF Listed
<1>2. Len(values) \in Nat /\ \A k \in 1..Len(values) : values[k] \in S
  BY LenProperties, ElementOfSeq
<1>. DEFINE T == { k \in 0..Len(values) : Good(g[k], k) }
<1>3. 0 \in T
  <2>1. part(0) = {} /\ D \cup part(0) = D
    OBVIOUS
  <2>2. Good(list, 0)
    <3>. HIDE DEF part
    <3>. QED  BY <2>1
  <2>. HIDE DEF Good
  <2>. QED  BY <1>1, <1>2, <2>2
<1>4. ASSUME NEW k \in 1..Len(values), k - 1 \in T PROVE k \in T
  <2>. DEFINE old == g[k - 1]
              known == D \cup part(k - 1)
  <2>1. Good(old, k - 1) /\ values[k] \in S /\ g[k] = Remember(old, values[k])
    <3>. HIDE DEF Good
    <3>. QED  BY <1>1, <1>2, <1>4
  <2>2. part(k) = part(k - 1) \cup {values[k]}
    <3>1. 1..k = 1..(k - 1) \cup {k}
      BY <1>2
    <3>. QED  BY <3>1
  <2>. HIDE DEF part, old
  <2>3. /\ Listed(g[k], S) /\ Knows(g[k], known \cup {values[k]})
        /\ \A x : Among(x, g[k]) => x = values[k] \/ Among(x, old)
    <3>1. Listed(old, S) /\ Knows(old, known)
      BY <2>1
    <3>. HIDE DEF known
    <3>2. LET new == Remember(old, values[k])
          IN  /\ Listed(new, S) /\ Knows(new, known \cup {values[k]})
              /\ \A x : Among(x, new) => x = values[k] \/ Among(x, old)
      BY <2>1, <3>1, KnowsMore
    <3>. QED  BY <2>1, <3>2
  <2>4. known \cup {values[k]} = D \cup part(k)
    BY <2>2
  <2>5. Knows(g[k], D \cup part(k))
    BY <2>3, <2>4
  <2>6. \A x : Among(x, g[k]) => x \in part(k) \/ Among(x, list)
    BY <2>1, <2>2, <2>3
  <2>7. Good(g[k], k)
    BY <2>3, <2>5, <2>6
  <2>. HIDE DEF Good
  <2>. QED  BY <1>2, <2>7
<1>. HIDE DEF Good
<1>5. Good(g[Len(values)], Len(values))
  <2>1. \A k \in 1..Len(values) : k - 1 \in T => k \in T
    BY <1>4
  <2>. HIDE DEF T
  <2>2. \A k \in 0..Len(values) : k \in T
    BY <1>2, <1>3, <2>1, UpTo
  <2>. QED  BY <1>2, <2>2 DEF T
<1>6. part(Len(values)) = ToSet(values)
  BY LenProperties DEF ToSet
<1>. HIDE DEF part
<1>7. /\ Listed(g[Len(values)], S)
      /\ Knows(g[Len(values)], D \cup part(Len(values)))
      /\ \A x : Among(x, g[Len(values)]) => x \in part(Len(values)) \/ Among(x, list)
  BY <1>5 DEF Good
<1>. QED  BY <1>1, <1>6, <1>7

(* What a further call adds.                                               *)
LEMMA GivenMore ==
  ASSUME NEW n \in Nat, NEW gifts, NEW more, \A k \in 1..n : more[k] = gifts[k]
  PROVE  /\ \A i \in 1..n :
              GivenSince(more, n + 1, i) = GivenSince(gifts, n, i) \cup more[n + 1]
         /\ GivenSince(more, n + 1, n + 1) = more[n + 1]
         /\ GivenSince(more, n + 1, 1) = GivenSince(gifts, n, 1) \cup more[n + 1]
<1>1. ASSUME NEW i \in 1..(n + 1)
      PROVE  GivenSince(more, n + 1, i) = GivenSince(gifts, n, i) \cup more[n + 1]
  <2>1. i..(n + 1) = i..n \cup {n + 1} /\ \A k \in i..n : k \in 1..n
    OBVIOUS
  <2>. QED  BY <2>1 DEF GivenSince
<1>2. GivenSince(gifts, n, n + 1) = {}
  BY DEF GivenSince
<1>3. n + 1 \in 1..(n + 1) /\ 1 \in 1..(n + 1) /\ \A i \in 1..n : i \in 1..(n + 1)
  OBVIOUS
<1>. QED  BY <1>1, <1>2, <1>3

(* A session starts with nothing given and nothing listed.                 *)
LEMMA NothingGiven ==
  ASSUME NEW S, NEW gifts
  PROVE  Tells(<< >>, S, gifts, 0)
BY EmptySeq, ListLimitAssumption DEF Tells, Listed, Distinct, Among

(* A call that gives nothing leaves the list as it is.                     *)
LEMMA GivenNone ==
  ASSUME NEW S, NEW n \in Nat, NEW gifts, NEW list, Tells(list, S, gifts, n),
         NEW more, \A k \in 1..n : more[k] = gifts[k], more[n + 1] = {}
  PROVE  Tells(list, S, more, n + 1)
<1>1. /\ \A i \in 1..n : GivenSince(more, n + 1, i) = GivenSince(gifts, n, i)
      /\ GivenSince(more, n + 1, n + 1) = {}
      /\ GivenSince(more, n + 1, 1) = GivenSince(gifts, n, 1)
  <2>1. /\ \A i \in 1..n :
             GivenSince(more, n + 1, i) = GivenSince(gifts, n, i) \cup more[n + 1]
        /\ GivenSince(more, n + 1, n + 1) = more[n + 1]
        /\ GivenSince(more, n + 1, 1) = GivenSince(gifts, n, 1) \cup more[n + 1]
    BY GivenMore
  <2>2. \A T : T \cup more[n + 1] = T
    OBVIOUS
  <2>. QED  BY <2>1, <2>2
<1>2. 1..(n + 1) = 1..n \cup {n + 1}
  OBVIOUS
<1>3. Knows(list, {})
  BY FS_EmptySet DEF Knows
<1>. QED  BY <1>1, <1>2, <1>3 DEF Tells

(* A call that gives values has them remembered (CERBERScorer.score, by    *)
(* _bounded_append of each in turn), and the list still tells what it was  *)
(* given.                                                                  *)
THEOREM GivenAll ==
  ASSUME NEW S, NEW n \in Nat, NEW gifts, NEW list, Tells(list, S, gifts, n),
         NEW values \in Seq(S),
         NEW more, \A k \in 1..n : more[k] = gifts[k], more[n + 1] = ToSet(values)
  PROVE  Tells(RememberAll(list, values), S, more, n + 1)
<1>. DEFINE kept == RememberAll(list, values)
            new == ToSet(values)
<1>1. /\ \A i \in 1..n : GivenSince(more, n + 1, i) = GivenSince(gifts, n, i) \cup new
      /\ GivenSince(more, n + 1, n + 1) = {} \cup new
      /\ GivenSince(more, n + 1, 1) = GivenSince(gifts, n, 1) \cup new
  <2>1. /\ \A i \in 1..n :
             GivenSince(more, n + 1, i) = GivenSince(gifts, n, i) \cup more[n + 1]
        /\ GivenSince(more, n + 1, n + 1) = more[n + 1]
        /\ GivenSince(more, n + 1, 1) = GivenSince(gifts, n, 1) \cup more[n + 1]
    BY GivenMore
  <2>. QED  BY <2>1
<1>2. Listed(list, S) /\ Knows(list, {}) /\ \A i \in 1..n : Knows(list, GivenSince(gifts, n, i))
  <2>1. Knows(list, {})
    BY FS_EmptySet DEF Knows
  <2>. QED  BY <2>1 DEF Tells
<1>3. /\ Listed(kept, S)
      /\ \A x : Among(x, kept) => x \in new \/ Among(x, list)
      /\ Knows(kept, {} \cup new)
  BY <1>2, KnowsAll
<1>4. ASSUME NEW i \in 1..n PROVE Knows(kept, GivenSince(gifts, n, i) \cup new)
  BY <1>2, KnowsAll
<1>. HIDE DEF kept, new
<1>5. 1..(n + 1) = 1..n \cup {n + 1}
  OBVIOUS
<1>6. \A x : Among(x, kept) => x \in GivenSince(more, n + 1, 1)
  BY <1>1, <1>3 DEF Tells
<1>7. ASSUME NEW i \in 1..(n + 1) PROVE Knows(kept, GivenSince(more, n + 1, i))
  <2>1. CASE i \in 1..n
    BY <1>1, <1>4, <2>1
  <2>2. CASE i = n + 1
    BY <1>1, <1>3, <2>2
  <2>. QED  BY <1>5, <2>1, <2>2
<1>. QED  BY <1>3, <1>6, <1>7 DEF Tells, kept

(* The same for one value.                                                 *)
LEMMA GivenOne ==
  ASSUME NEW S, NEW n \in Nat, NEW gifts, NEW list, Tells(list, S, gifts, n),
         NEW value \in S,
         NEW more, \A k \in 1..n : more[k] = gifts[k], more[n + 1] = {value}
  PROVE  Tells(Remember(list, value), S, more, n + 1)
<1>. DEFINE kept == Remember(list, value)
<1>1. /\ \A i \in 1..n : GivenSince(more, n + 1, i) = GivenSince(gifts, n, i) \cup {value}
      /\ GivenSince(more, n + 1, n + 1) = {} \cup {value}
      /\ GivenSince(more, n + 1, 1) = GivenSince(gifts, n, 1) \cup {value}
  <2>1. /\ \A i \in 1..n :
             GivenSince(more, n + 1, i) = GivenSince(gifts, n, i) \cup more[n + 1]
        /\ GivenSince(more, n + 1, n + 1) = more[n + 1]
        /\ GivenSince(more, n + 1, 1) = GivenSince(gifts, n, 1) \cup more[n + 1]
    BY GivenMore
  <2>. QED  BY <2>1
<1>2. Listed(list, S) /\ Knows(list, {}) /\ \A i \in 1..n : Knows(list, GivenSince(gifts, n, i))
  <2>1. Knows(list, {})
    BY FS_EmptySet DEF Knows
  <2>. QED  BY <2>1 DEF Tells
<1>3. /\ Listed(kept, S)
      /\ \A x : Among(x, kept) => x = value \/ Among(x, list)
      /\ Knows(kept, {} \cup {value})
  BY <1>2, KnowsMore
<1>4. ASSUME NEW i \in 1..n PROVE Knows(kept, GivenSince(gifts, n, i) \cup {value})
  BY <1>2, KnowsMore
<1>. HIDE DEF kept
<1>5. 1..(n + 1) = 1..n \cup {n + 1}
  OBVIOUS
<1>6. \A x : Among(x, kept) => x \in GivenSince(more, n + 1, 1)
  BY <1>1, <1>3 DEF Tells
<1>7. ASSUME NEW i \in 1..(n + 1) PROVE Knows(kept, GivenSince(more, n + 1, i))
  <2>1. CASE i \in 1..n
    BY <1>1, <1>4, <2>1
  <2>2. CASE i = n + 1
    BY <1>1, <1>3, <2>2
  <2>. QED  BY <1>5, <2>1, <2>2
<1>. QED  BY <1>3, <1>6, <1>7 DEF Tells, kept

(* What a list tells when a value is looked for on it.                     *)
LEMMA Found ==
  ASSUME NEW S, NEW n \in Nat \ {0}, NEW gifts, NEW list, Tells(list, S, gifts, n), NEW value
  PROVE  /\ Among(value, list) => value \in GivenSince(gifts, n, 1)
         /\ \A i \in 1..n :
              /\ value \in gifts[i]
              /\ Cardinality(GivenSince(gifts, n, i)) <= SESSION_LIST_LIMIT
              => Among(value, list)
<1>1. Among(value, list) => value \in GivenSince(gifts, n, 1)
  BY DEF Tells
<1>2. ASSUME NEW i \in 1..n, value \in gifts[i],
             Cardinality(GivenSince(gifts, n, i)) <= SESSION_LIST_LIMIT
      PROVE  Among(value, list)
  <2>. DEFINE D == GivenSince(gifts, n, i)
  <2>1. i \in i..n
    OBVIOUS
  <2>2. value \in D
    BY <1>2, <2>1 DEF GivenSince
  <2>3. /\ IsFiniteSet(D)
        /\ (\A x \in D : Among(x, list)) \/ Cardinality(D) > SESSION_LIST_LIMIT
    BY DEF Tells, Knows
  <2>4. Cardinality(D) \in Nat /\ SESSION_LIST_LIMIT \in Nat
    BY <2>3, FS_CardinalityType, ListLimitAssumption
  <2>. HIDE DEF D
  <2>5. ~(Cardinality(D) > SESSION_LIST_LIMIT)
    BY <1>2, <2>4 DEF D
  <2>. QED  BY <2>2, <2>3, <2>5
<1>. QED  BY <1>1, <1>2
-----------------------------------------------------------------------------
(* The lists as sets.                                                      *)
LEMMA AmongToSet ==
  ASSUME NEW S, NEW list \in Seq(S)
  PROVE  /\ \A x : Among(x, list) <=> x \in ToSet(list)
         /\ ToSet(list) \subseteq S
         /\ IsFiniteSet(ToSet(list)) /\ Cardinality(ToSet(list)) <= Len(list)
<1>1. DOMAIN list = 1..Len(list) /\ Len(list) \in Nat
  BY LenProperties
<1>2. \A i \in 1..Len(list) : list[i] \in S
  BY ElementOfSeq
<1>3. \A x : Among(x, list) <=> x \in ToSet(list)
  BY <1>1 DEF Among, ToSet
<1>4. IsFiniteSet(ToSet(list)) /\ Cardinality(ToSet(list)) <= Len(list)
  <2>1. IsFiniteSet(1..Len(list)) /\ Cardinality(1..Len(list)) = Len(list)
    BY <1>1, FS_Interval
  <2>. DEFINE f == [i \in 1..Len(list) |-> list[i]]
  <2>2. f \in Surjection(1..Len(list), ToSet(list))
    <3>1. \A i \in 1..Len(list) : list[i] \in ToSet(list)
      BY <1>1 DEF ToSet
    <3>2. \A x \in ToSet(list) : \E i \in 1..Len(list) : list[i] = x
      BY <1>3 DEF Among
    <3>. HIDE DEF ToSet
    <3>. QED  BY <3>1, <3>2 DEF Surjection
  <2>. QED  BY <2>1, <2>2, FS_Surjection
<1>. QED  BY <1>1, <1>2, <1>3, <1>4 DEF ToSet

(* A selection keeps what is selected and nothing else.                    *)
LEMMA ThoseKept ==
  ASSUME NEW S, NEW values \in Seq(S), NEW kept
  PROVE  /\ Those(values, kept) \in Seq(S)
         /\ Len(Those(values, kept)) <= Len(values)
         /\ Distinct(values) => Distinct(Those(values, kept))
         /\ ToSet(Those(values, kept)) = ToSet(values) \cap kept
<1>. DEFINE n == Len(values)
<1>0. values \in Seq(S) /\ n \in Nat /\ \A k \in 1..n : values[k] \in S
  BY LenProperties, ElementOfSeq
<1>1. PICK g : /\ g[0] = << >>
               /\ \A k \in 1..n :
                    g[k] = IF values[k] \in kept THEN Append(g[k - 1], values[k]) ELSE g[k - 1]
               /\ Those(values, kept) = g[n]
  BY <1>0, ThoseSteps
<1>. DEFINE Good(k) == /\ g[k] \in Seq(S) /\ Len(g[k]) <= k
                       /\ Distinct(values) => Distinct(g[k])
                       /\ \A x : Among(x, g[k]) <=> x \in kept /\ \E i \in 1..k : values[i] = x
            T == { k \in 0..n : Good(k) }
<1>2. 0 \in T
  <2>1. g[0] \in Seq(S) /\ Len(g[0]) = 0
    BY <1>1, EmptySeq
  <2>. QED  BY <1>0, <2>1 DEF Among, Distinct
<1>3. ASSUME NEW k \in 1..n, Good(k - 1) PROVE Good(k)
  <2>. DEFINE l == g[k - 1]
              v == values[k]
  <2>1. /\ l \in Seq(S) /\ Len(l) <= k - 1 /\ Len(l) \in Nat
        /\ Distinct(values) => Distinct(l)
        /\ \A x : Among(x, l) <=> x \in kept /\ \E i \in 1..(k - 1) : values[i] = x
        /\ v \in S
    BY <1>0, <1>3, LenProperties
  <2>2. 1..k = 1..(k - 1) \cup {k}
    OBVIOUS
  <2>3. Distinct(values) => \A i \in 1..(k - 1) : values[i] # v
    BY <1>0, <2>2 DEF Distinct
  <2>4. CASE v \notin kept
    <3>1. g[k] = l
      BY <1>1, <2>4
    <3>. HIDE DEF l
    <3>. QED  BY <2>1, <2>2, <2>4, <3>1
  <2>5. CASE v \in kept
    <3>1. g[k] = Append(l, v)
      BY <1>1, <2>5
    <3>. HIDE DEF l
    <3>2. /\ g[k] \in Seq(S) /\ Len(g[k]) = Len(l) + 1
          /\ \A i \in 1..Len(l) : g[k][i] = l[i]
          /\ g[k][Len(l) + 1] = v
      BY <2>1, <3>1
    <3>. HIDE DEF v
    <3>3. \A x : Among(x, g[k]) <=> Among(x, l) \/ x = v
      <4>1. 1..Len(g[k]) = 1..Len(l) \cup {Len(l) + 1}
        BY <2>1, <3>2
      <4>. QED  BY <3>2, <4>1 DEF Among
    <3>4. Distinct(values) => ~Among(v, l)
      BY <2>1, <2>3
    <3>5. Distinct(values) => Distinct(g[k])
      BY <2>1, <3>2, <3>4 DEF Distinct, Among
    <3>6. \A x : (\E i \in 1..k : values[i] = x) <=> (\E i \in 1..(k - 1) : values[i] = x) \/ v = x
      BY <2>2 DEF v
    <3>7. \A x : Among(x, g[k]) <=> x \in kept /\ \E i \in 1..k : values[i] = x
      BY <2>1, <2>5, <3>3, <3>6
    <3>8. Len(g[k]) <= k
      BY <2>1, <3>2
    <3>. QED  BY <3>2, <3>5, <3>7, <3>8
  <2>. QED  BY <2>4, <2>5
<1>4. \A k \in 1..n : k - 1 \in T => k \in T
  <2>. HIDE DEF Good
  <2>. QED  BY <1>0, <1>3
<1>5. \A k \in 0..n : k \in T
  <2>. HIDE DEF T, n
  <2>. QED  BY <1>0, <1>2, <1>4, UpTo
<1>6. Good(n)
  <2>1. n \in T
    <3>. HIDE DEF T, n
    <3>. QED  BY <1>0, <1>5
  <2>. HIDE DEF Good
  <2>. QED  BY <2>1
<1>7. \A x : Among(x, Those(values, kept)) <=> x \in kept /\ Among(x, values)
  BY <1>1, <1>6 DEF Among
<1>8. /\ Those(values, kept) \in Seq(S) /\ Len(Those(values, kept)) <= Len(values)
      /\ Distinct(values) => Distinct(Those(values, kept))
  BY <1>1, <1>6
<1>9. \A x : x \in ToSet(Those(values, kept)) <=> x \in kept /\ x \in ToSet(values)
  <2>1. \A x : Among(x, values) <=> x \in ToSet(values)
    BY <1>0, AmongToSet
  <2>2. \A x : Among(x, Those(values, kept)) <=> x \in ToSet(Those(values, kept))
    BY <1>8, AmongToSet
  <2>. QED  BY <1>7, <2>1, <2>2
<1>. QED  BY <1>8, <1>9

LEMMA ThoseProperties ==
  ASSUME NEW S, NEW values, Listed(values, S), NEW kept
  PROVE  Listed(Those(values, kept), S) /\ ToSet(Those(values, kept)) = ToSet(values) \cap kept
<1>1. /\ Those(values, kept) \in Seq(S) /\ Len(Those(values, kept)) <= Len(values)
      /\ Distinct(Those(values, kept))
      /\ ToSet(Those(values, kept)) = ToSet(values) \cap kept
  BY ThoseKept DEF Listed
<1>2. /\ SESSION_LIST_LIMIT \in Nat /\ Len(values) <= SESSION_LIST_LIMIT
      /\ Len(values) \in Nat /\ Len(Those(values, kept)) \in Nat
  BY <1>1, ListLimitAssumption, LenProperties DEF Listed
<1>. QED  BY <1>1, <1>2 DEF Listed

(* Remembering values adds them and nothing else, and drops nothing while  *)
(* the list can hold them all; values that come from a list of the session *)
(* are always there.                                                       *)
LEMMA RememberedAll ==
  ASSUME NEW S, NEW list, Listed(list, S), NEW values \in Seq(S)
  PROVE  LET kept == RememberAll(list, values)
             all  == ToSet(list) \cup ToSet(values)
         IN  /\ Listed(kept, S) /\ ToSet(kept) \subseteq all
             /\ Cardinality(all) <= SESSION_LIST_LIMIT => ToSet(kept) = all
             /\ Listed(values, S) => ToSet(values) \subseteq ToSet(kept)
<1>. DEFINE kept == RememberAll(list, values)
            all  == ToSet(list) \cup ToSet(values)
<1>1. /\ \A x : Among(x, list) <=> x \in ToSet(list)
      /\ IsFiniteSet(ToSet(list)) /\ IsFiniteSet(ToSet(values))
  BY AmongToSet DEF Listed
<1>2. Knows(list, ToSet(list))
  <2>1. \A x, y : Before(x, y, list) => Among(y, list)
    BY DEF Before, Among
  <2>. QED  BY <1>1, <2>1 DEF Knows
<1>3. /\ Listed(kept, S)
      /\ \A x : Among(x, kept) => x \in ToSet(values) \/ Among(x, list)
      /\ Knows(kept, all)
  BY <1>2, KnowsAll
<1>. HIDE DEF kept
<1>4. \A x : Among(x, kept) <=> x \in ToSet(kept)
  BY <1>3, AmongToSet DEF Listed
<1>5. IsFiniteSet(all) /\ Cardinality(all) \in Nat /\ SESSION_LIST_LIMIT \in Nat
  BY <1>1, FS_Union, FS_CardinalityType, ListLimitAssumption
<1>6. (\A x \in all : Among(x, kept)) \/ Cardinality(all) > SESSION_LIST_LIMIT
  BY <1>3 DEF Knows
<1>7. ToSet(kept) \subseteq all
  BY <1>1, <1>3, <1>4
<1>8. Cardinality(all) <= SESSION_LIST_LIMIT => ToSet(kept) = all
  <2>. SUFFICES ASSUME Cardinality(all) <= SESSION_LIST_LIMIT PROVE ToSet(kept) = all
    OBVIOUS
  <2>1. ~(Cardinality(all) > SESSION_LIST_LIMIT)
    BY <1>5
  <2>. HIDE DEF all
  <2>. QED  BY <1>4, <1>6, <1>7, <2>1
<1>9. ASSUME Listed(values, S) PROVE ToSet(values) \subseteq ToSet(kept)
  <2>1. Knows(list, {})
    BY FS_EmptySet DEF Knows
  <2>2. Knows(kept, {} \cup ToSet(values))
    BY <2>1, KnowsAll DEF kept
  <2>3. {} \cup ToSet(values) = ToSet(values)
    OBVIOUS
  <2>4. /\ Cardinality(ToSet(values)) <= Len(values) /\ IsFiniteSet(ToSet(values))
        /\ Len(values) <= SESSION_LIST_LIMIT /\ Len(values) \in Nat
    BY <1>9, AmongToSet, LenProperties DEF Listed
  <2>5. Cardinality(ToSet(values)) \in Nat
    BY <2>4, FS_CardinalityType
  <2>6. ~(Cardinality(ToSet(values)) > SESSION_LIST_LIMIT)
    BY <1>5, <2>4, <2>5
  <2>7. \A x \in ToSet(values) : Among(x, kept)
    BY <2>2, <2>3, <2>6 DEF Knows
  <2>. QED  BY <1>4, <2>7
<1>. QED  BY <1>3, <1>7, <1>8, <1>9 DEF kept

LEMMA RememberedOne ==
  ASSUME NEW S, NEW list, Listed(list, S), NEW value \in S
  PROVE  LET kept == Remember(list, value)
             all  == ToSet(list) \cup {value}
         IN  /\ Listed(kept, S) /\ value \in ToSet(kept) /\ ToSet(kept) \subseteq all
             /\ Cardinality(all) <= SESSION_LIST_LIMIT => ToSet(kept) = all
<1>. DEFINE kept == Remember(list, value)
            all  == ToSet(list) \cup {value}
<1>1. /\ \A x : Among(x, list) <=> x \in ToSet(list)
      /\ IsFiniteSet(ToSet(list))
  BY AmongToSet DEF Listed
<1>2. Knows(list, ToSet(list))
  <2>1. \A x, y : Before(x, y, list) => Among(y, list)
    BY DEF Before, Among
  <2>. QED  BY <1>1, <2>1 DEF Knows
<1>3. /\ Listed(kept, S)
      /\ \A x : Among(x, kept) => x = value \/ Among(x, list)
      /\ Knows(kept, all)
  BY <1>2, KnowsMore
<1>4. Among(value, kept)
  BY RememberKeeps DEF Listed
<1>. HIDE DEF kept
<1>5. \A x : Among(x, kept) <=> x \in ToSet(kept)
  BY <1>3, AmongToSet DEF Listed
<1>6. IsFiniteSet(all) /\ Cardinality(all) \in Nat /\ SESSION_LIST_LIMIT \in Nat
  BY <1>1, FS_AddElement, FS_CardinalityType, ListLimitAssumption
<1>7. (\A x \in all : Among(x, kept)) \/ Cardinality(all) > SESSION_LIST_LIMIT
  BY <1>3 DEF Knows
<1>8. ToSet(kept) \subseteq all
  BY <1>1, <1>3, <1>5
<1>9. Cardinality(all) <= SESSION_LIST_LIMIT => ToSet(kept) = all
  <2>. HIDE DEF all
  <2>. QED  BY <1>5, <1>6, <1>7, <1>8
<1>. QED  BY <1>3, <1>4, <1>5, <1>8, <1>9 DEF kept

(* What is taken off a list is gone from it, and only that.                *)
LEMMA WithoutToSet ==
  ASSUME NEW S, NEW list, Listed(list, S), NEW value \in S
  PROVE  Listed(Without(list, value), S) /\ ToSet(Without(list, value)) = ToSet(list) \ {value}
<1>. DEFINE rest == Without(list, value)
<1>1. rest \in Seq(S) /\ Distinct(rest) /\ ~Among(value, rest)
  BY WithoutProperties DEF Listed, Among
<1>2. /\ \A x : x # value => (Among(x, rest) <=> Among(x, list))
      /\ Len(rest) = IF Among(value, list) THEN Len(list) - 1 ELSE Len(list)
  BY WithoutKeeps DEF Listed
<1>3. Len(list) \in Nat /\ Len(list) <= SESSION_LIST_LIMIT /\ SESSION_LIST_LIMIT \in Nat
  BY LenProperties, ListLimitAssumption DEF Listed
<1>. HIDE DEF rest
<1>4. Listed(rest, S)
  BY <1>1, <1>2, <1>3 DEF Listed
<1>5. /\ \A x : Among(x, rest) <=> x \in ToSet(rest)
      /\ \A x : Among(x, list) <=> x \in ToSet(list)
  BY <1>1, AmongToSet DEF Listed
<1>. QED  BY <1>1, <1>2, <1>4, <1>5 DEF rest

LEMMA EmptyToSet ==
  ASSUME NEW S, NEW list, Listed(list, S)
  PROVE  /\ list = << >> <=> ToSet(list) = {}
         /\ list # << >> => Last(list) \in ToSet(list)
<1>1. list \in Seq(S) /\ Len(list) \in Nat /\ DOMAIN list = 1..Len(list)
  BY LenProperties DEF Listed
<1>2. ASSUME list # << >> PROVE Last(list) \in ToSet(list)
  <2>1. Len(list) # 0
    BY <1>1, <1>2, EmptySeq
  <2>2. Len(list) \in DOMAIN list
    BY <1>1, <2>1
  <2>. QED  BY <2>2 DEF Last, ToSet
<1>3. ToSet(<< >>) = {}
  BY DEF ToSet
<1>. QED  BY <1>2, <1>3

(* A selection keeps the order.                                            *)
LEMMA ThoseInOrder ==
  ASSUME NEW S, NEW values \in Seq(S), NEW kept
  PROVE  \A x, y : Before(x, y, Those(values, kept)) => Before(x, y, values)
<1>. DEFINE n == Len(values)
<1>0. n \in Nat /\ \A k \in 1..n : values[k] \in S
  BY LenProperties, ElementOfSeq
<1>1. PICK g : /\ g[0] = << >>
               /\ \A k \in 1..n :
                    g[k] = IF values[k] \in kept THEN Append(g[k - 1], values[k]) ELSE g[k - 1]
               /\ Those(values, kept) = g[n]
  BY <1>0, ThoseSteps
<1>. DEFINE Good(k) == /\ g[k] \in Seq(S)
                       /\ \A x : Among(x, g[k]) => \E p \in 1..k : values[p] = x
                       /\ \A x, y : Before(x, y, g[k]) =>
                            \E p, q \in 1..k : p < q /\ values[p] = x /\ values[q] = y
            T == { k \in 0..n : Good(k) }
<1>2. 0 \in T
  <2>1. g[0] \in Seq(S) /\ Len(g[0]) = 0
    BY <1>1, EmptySeq
  <2>. QED  BY <1>0, <2>1 DEF Among, Before
<1>3. ASSUME NEW k \in 1..n, Good(k - 1) PROVE Good(k)
  <2>. DEFINE l == g[k - 1]
              v == values[k]
  <2>1. /\ l \in Seq(S) /\ Len(l) \in Nat /\ v \in S
        /\ \A x : Among(x, l) => \E p \in 1..(k - 1) : values[p] = x
        /\ \A x, y : Before(x, y, l) =>
             \E p, q \in 1..(k - 1) : p < q /\ values[p] = x /\ values[q] = y
    BY <1>0, <1>3, LenProperties
  <2>2. 1..k = 1..(k - 1) \cup {k} /\ \A p \in 1..(k - 1) : p < k
    OBVIOUS
  <2>3. CASE v \notin kept
    <3>1. g[k] = l
      BY <1>1, <2>3
    <3>. HIDE DEF l
    <3>. QED  BY <2>1, <2>2, <3>1
  <2>4. CASE v \in kept
    <3>1. g[k] = Append(l, v)
      BY <1>1, <2>4
    <3>. HIDE DEF l
    <3>2. /\ g[k] \in Seq(S) /\ Len(g[k]) = Len(l) + 1
          /\ \A i \in 1..Len(l) : g[k][i] = l[i]
          /\ g[k][Len(l) + 1] = v
      BY <2>1, <3>1
    <3>3. 1..Len(g[k]) = 1..Len(l) \cup {Len(l) + 1}
      BY <2>1, <3>2
    <3>4. ASSUME NEW x, Among(x, g[k]) PROVE x = v \/ Among(x, l)
      BY <3>2, <3>3, <3>4 DEF Among
    <3>5. ASSUME NEW x, NEW y, Before(x, y, g[k])
          PROVE  Before(x, y, l) \/ (Among(x, l) /\ y = v)
      <4>1. PICK p, q \in 1..Len(g[k]) : p < q /\ g[k][p] = x /\ g[k][q] = y
        BY <3>5 DEF Before
      <4>2. p \in 1..Len(l)
        BY <2>1, <3>2, <4>1
      <4>3. CASE q = Len(l) + 1
        BY <3>2, <4>1, <4>2, <4>3 DEF Among
      <4>4. CASE q \in 1..Len(l)
        BY <3>2, <4>1, <4>2, <4>4 DEF Before
      <4>. QED  BY <3>3, <4>3, <4>4
    <3>6. \A x : Among(x, g[k]) => \E p \in 1..k : values[p] = x
      BY <2>1, <2>2, <3>4
    <3>7. ASSUME NEW x, NEW y, Before(x, y, g[k])
          PROVE  \E p, q \in 1..k : p < q /\ values[p] = x /\ values[q] = y
      <4>1. CASE Before(x, y, l)
        BY <2>1, <2>2, <4>1
      <4>2. CASE Among(x, l) /\ y = v
        BY <2>1, <2>2, <4>2
      <4>. QED  BY <3>5, <3>7, <4>1, <4>2
    <3>. QED  BY <3>2, <3>6, <3>7
  <2>. QED  BY <2>3, <2>4
<1>4. \A k \in 1..n : k - 1 \in T => k \in T
  <2>. HIDE DEF Good
  <2>. QED  BY <1>0, <1>3
<1>5. \A k \in 0..n : k \in T
  <2>. HIDE DEF T, n
  <2>. QED  BY <1>0, <1>2, <1>4, UpTo
<1>6. Good(n)
  <2>1. n \in T
    <3>. HIDE DEF T, n
    <3>. QED  BY <1>0, <1>5
  <2>. HIDE DEF Good
  <2>. QED  BY <2>1
<1>7. ASSUME NEW x, NEW y, Before(x, y, g[n]) PROVE Before(x, y, values)
  <2>1. \E p, q \in 1..n : p < q /\ values[p] = x /\ values[q] = y
    BY <1>6, <1>7
  <2>. QED  BY <2>1 DEF Before
<1>. QED  BY <1>1, <1>7
-----------------------------------------------------------------------------
(* What a list still tells of one value since it was given: D are the      *)
(* values given since, on a list that others may be taken off.             *)
Stays(list, x, D) ==
  /\ IsFiniteSet(D) /\ x \in D
  /\ \A y : Before(x, y, list) => y \in D
  /\ Among(x, list) \/ Cardinality(D) > SESSION_LIST_LIMIT

LEMMA StaysSince ==
  ASSUME NEW S, NEW list, Listed(list, S), NEW x \in S
  PROVE  Stays(Remember(list, x), x, {x})
<1>1. /\ Among(x, Remember(list, x))
      /\ \A y : Before(x, y, Remember(list, x)) => y = x
  BY RememberKeeps DEF Listed
<1>. QED  BY <1>1, FS_Singleton DEF Stays

(* A value is pushed out only by as many others as the list holds.         *)
LEMMA StaysBefore ==
  ASSUME NEW S, NEW list, Listed(list, S), NEW value \in S, NEW x, NEW D, Stays(list, x, D)
  PROVE  Stays(Remember(list, value), x, D \cup {value})
<1>. DEFINE kept == Remember(list, value)
            limit == SESSION_LIST_LIMIT
            E == D \cup {value}
<1>1. /\ \A z, y : Before(z, y, kept) => y = value \/ (z # value /\ Before(z, y, list))
      /\ \A z : Among(z, list) /\ ~Among(z, kept) =>
           Len(list) = limit /\ ~Among(value, list) /\ z = list[1]
  BY RememberKeeps DEF Listed
<1>2. /\ IsFiniteSet(D) /\ x \in D
      /\ \A y : Before(x, y, list) => y \in D
      /\ Among(x, list) \/ Cardinality(D) > limit
  BY DEF Stays
<1>3. limit \in Nat \ {0}
  BY ListLimitAssumption
<1>. HIDE DEF kept
<1>4. /\ IsFiniteSet(E) /\ Cardinality(E) \in Nat /\ Cardinality(D) \in Nat
      /\ Cardinality(E) >= Cardinality(D)
  BY <1>2, FS_AddElement, FS_CardinalityType, FS_Subset
<1>5. ASSUME Among(x, list), ~Among(x, kept) PROVE Cardinality(E) > limit
  <2>1. Len(list) = limit /\ ~Among(value, list) /\ x = list[1]
    BY <1>1, <1>5
  <2>. DEFINE L == ToSet(list)
  <2>2. /\ \A z : Among(z, list) <=> z \in L
        /\ IsFiniteSet(L)
    BY AmongToSet DEF Listed
  <2>3. ASSUME NEW z \in L PROVE z \in D
    <3>1. PICK j \in 1..limit : list[j] = z
      BY <2>1, <2>2, <2>3 DEF Among
    <3>2. CASE j = 1
      BY <1>2, <2>1, <3>1, <3>2
    <3>3. CASE j # 1
      <4>1. 1 \in 1..Len(list) /\ j \in 1..Len(list) /\ 1 < j
        BY <1>3, <2>1, <3>1, <3>3
      <4>2. Before(x, z, list)
        BY <2>1, <3>1, <4>1 DEF Before
      <4>. QED  BY <1>2, <4>2
    <3>. QED  BY <3>2, <3>3
  <2>4. Cardinality(L) = limit
    <3>. DEFINE f == [j \in 1..limit |-> list[j]]
    <3>1. f \in Bijection(1..limit, L)
      <4>1. \A a, b \in 1..limit : list[a] = list[b] => a = b
        BY <2>1 DEF Listed, Distinct
      <4>2. \A z \in L : \E j \in 1..limit : list[j] = z
        BY <2>1, <2>2 DEF Among
      <4>3. \A j \in 1..limit : list[j] \in L
        BY <2>1, <2>2 DEF Among
      <4>. QED  BY <4>1, <4>2, <4>3 DEF Bijection, Injection, Surjection, IsInjective
    <3>2. ExistsBijection(1..limit, L)
      BY <3>1 DEF ExistsBijection
    <3>3. IsFiniteSet(1..limit) /\ Cardinality(1..limit) = limit
      BY <1>3, FS_Interval
    <3>. QED  BY <3>2, <3>3, FS_Bijection
  <2>5. value \notin L
    BY <2>1, <2>2
  <2>. HIDE DEF L
  <2>6. Cardinality(L \cup {value}) = limit + 1
    BY <2>2, <2>4, <2>5, FS_AddElement
  <2>7. L \cup {value} \subseteq E
    BY <2>3
  <2>. HIDE DEF E
  <2>8. Cardinality(L \cup {value}) <= Cardinality(E)
    BY <1>4, <2>7, FS_Subset
  <2>. QED  BY <1>3, <1>4, <2>6, <2>8
<1>6. Among(x, kept) \/ Cardinality(E) > limit
  BY <1>2, <1>3, <1>4, <1>5
<1>7. x \in E /\ \A y : Before(x, y, kept) => y \in E
  BY <1>1, <1>2
<1>. QED  BY <1>4, <1>6, <1>7 DEF Stays, kept
=============================================================================
