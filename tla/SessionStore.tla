---------------------------- MODULE SessionStore ----------------------------
(***************************************************************************)
(* How the detectors of CERBERScorer.score use the session's lists: what a *)
(* list remembers is the last SESSION_LIST_LIMIT different values it was   *)
(* given.  Names, urls and signatures are opaque; None is the empty string.*)
(***************************************************************************)
EXTENDS SessionLists

CONSTANTS None, SESSION_LIST_LIMIT

ASSUME ListLimitAssumption == SESSION_LIST_LIMIT \in Nat \ {0}

RememberFirst(list, value) ==   \* mutant: what is full takes nothing more
  IF Len(list) >= SESSION_LIST_LIMIT THEN list ELSE Append(Without(list, value), value)

Remember(list, value) == BoundedAppend(list, value, SESSION_LIST_LIMIT)

(* A list with its values remembered one after another.                    *)
RememberAll(list, values) == FoldLeft(Remember, list, values)

(* A list that takes the value only when the call is of a kind.            *)
RememberIf(test, list, value) == IF test THEN Remember(list, value) ELSE list

When(test, flag) == IF test THEN {flag} ELSE {}
=============================================================================
