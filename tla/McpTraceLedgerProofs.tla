------------------------ MODULE McpTraceLedgerProofs ------------------------
(***************************************************************************)
(* The binding of results (CERBERScorer.score, scorer.py:563-627) against  *)
(* the ledger, for any ids, sources, tools and traces and any limit: what  *)
(* the bounded lists hold is in the ledger, and the other way round until  *)
(* one of them has dropped something.                                      *)
(***************************************************************************)
EXTENDS McpTraceLedger, SessionStoreProofs

Keyed(sigs, t) == { sig \in sigs : HasKey(sig, t) }

Filing(t) == { sig \in {Expected(t)} : IsPendingTrace(t) }

Canceling(t, sigs) == { sig \in Keyed(sigs, t) : t.request_state = "canceled" }

(* The pending requests a result is looked for on.                         *)
PendingIn(t, before) == PendingAfterCancel(t, before, PendingOnceFiled(t, before))

LEMMA TraceParts ==
  ASSUME NEW t \in Traces
  PROVE  Expected(t) \in Signatures /\ Observed(t) \in Signatures
BY DEF Traces, Signatures, Expected, Observed

LEMMA WithKeyToSet ==
  ASSUME NEW list, Listed(list, Signatures), NEW t
  PROVE  /\ Listed(WithKey(list, t), Signatures)
         /\ ToSet(WithKey(list, t)) = Keyed(ToSet(list), t)
         /\ WithKey(list, t) = << >> <=> Keyed(ToSet(list), t) = {}
         /\ WithKey(list, t) # << >> => Last(WithKey(list, t)) \in Keyed(ToSet(list), t)
<1>. DEFINE those == Those(list, { sig \in ToSet(list) : HasKey(sig, t) })
<1>1. /\ Listed(those, Signatures)
      /\ ToSet(those) = ToSet(list) \cap { sig \in ToSet(list) : HasKey(sig, t) }
  BY ThoseProperties
<1>2. those = WithKey(list, t)
  BY DEF WithKey
<1>3. ToSet(those) = Keyed(ToSet(list), t)
  BY <1>1 DEF Keyed
<1>. HIDE DEF those
<1>4. /\ those = << >> <=> ToSet(those) = {}
      /\ those # << >> => Last(those) \in ToSet(those)
  BY <1>1, EmptyToSet
<1>. QED  BY <1>1, <1>2, <1>3, <1>4

(* Filing and canceling, as sets.                                          *)
LEMMA LookedUp ==
  ASSUME NEW t \in Traces, NEW before, Listed(before, Signatures)
  PROVE  LET pending == PendingIn(t, before)
             all     == ToSet(before) \cup Filing(t)
         IN  /\ Listed(pending, Signatures)
             /\ ToSet(pending) \subseteq all
             /\ \/ ToSet(pending) = all \ Canceling(t, all)
                \/ ~(Cardinality(all) <= SESSION_LIST_LIMIT)
                \/ t.request_state = "canceled" /\ IsPendingTrace(t)
             /\ ~IsPendingTrace(t) => ToSet(pending) = ToSet(before) \ Canceling(t, ToSet(before))
<1>. DEFINE filed   == PendingOnceFiled(t, before)
            pending == PendingIn(t, before)
            all     == ToSet(before) \cup Filing(t)
            unkeyed == { sig \in ToSet(filed) : ~HasKey(sig, t) }
<1>1. /\ Listed(filed, Signatures) /\ ToSet(filed) \subseteq all
      /\ Cardinality(all) <= SESSION_LIST_LIMIT => ToSet(filed) = all
      /\ ~IsPendingTrace(t) => filed = before
  <2>1. CASE IsPendingTrace(t)
    <3>1. filed = Remember(before, Expected(t)) /\ Filing(t) = {Expected(t)}
      BY <2>1 DEF PendingOnceFiled, RememberIf, Filing
    <3>2. /\ Listed(Remember(before, Expected(t)), Signatures)
          /\ ToSet(Remember(before, Expected(t))) \subseteq ToSet(before) \cup {Expected(t)}
          /\ Cardinality(ToSet(before) \cup {Expected(t)}) <= SESSION_LIST_LIMIT
               => ToSet(Remember(before, Expected(t))) = ToSet(before) \cup {Expected(t)}
      BY TraceParts, RememberedOne
    <3>. QED  BY <2>1, <3>1, <3>2
  <2>2. CASE ~IsPendingTrace(t)
    <3>1. filed = before /\ Filing(t) = {}
      BY <2>2 DEF PendingOnceFiled, RememberIf, Filing
    <3>. QED  BY <3>1
  <2>. QED  BY <2>1, <2>2
<1>2. pending = IF Cancels(t, before) THEN Those(filed, unkeyed) ELSE filed
  BY DEF PendingIn, PendingAfterCancel
<1>. HIDE DEF filed, pending
<1>3. Listed(Those(filed, unkeyed), Signatures) /\ ToSet(Those(filed, unkeyed)) = ToSet(filed) \cap unkeyed
  <2>. HIDE DEF unkeyed
  <2>. QED  BY <1>1, ThoseProperties
<1>4. Listed(pending, Signatures) /\ ToSet(pending) \subseteq ToSet(filed)
  BY <1>1, <1>2, <1>3
<1>5. Cancels(t, before) <=> Canceling(t, ToSet(before)) # {}
  <2>1. WithKey(before, t) = << >> <=> Keyed(ToSet(before), t) = {}
    BY WithKeyToSet
  <2>. QED  BY <2>1 DEF Cancels, Canceling
<1>6. ASSUME ~(t.request_state = "canceled" /\ IsPendingTrace(t))
      PROVE  ToSet(pending) = ToSet(filed) \ Canceling(t, ToSet(filed))
  <2>1. CASE Cancels(t, before)
    <3>1. t.request_state = "canceled" /\ filed = before
      BY <1>1, <1>6, <2>1 DEF Cancels
    <3>. QED  BY <1>2, <1>3, <2>1, <3>1 DEF Canceling, Keyed
  <2>2. CASE ~Cancels(t, before)
    <3>1. Canceling(t, ToSet(filed)) = {}
      <4>1. CASE t.request_state = "canceled"
        BY <1>1, <1>5, <1>6, <2>2, <4>1
      <4>2. CASE t.request_state # "canceled"
        BY <4>2 DEF Canceling
      <4>. QED  BY <4>1, <4>2
    <3>. QED  BY <1>2, <2>2, <3>1
  <2>. QED  BY <2>1, <2>2
<1>7. ToSet(pending) \subseteq all
  BY <1>1, <1>4
<1>8. ~IsPendingTrace(t) => ToSet(pending) = ToSet(before) \ Canceling(t, ToSet(before))
  BY <1>1, <1>6
<1>9. \/ ToSet(pending) = all \ Canceling(t, all)
      \/ ~(Cardinality(all) <= SESSION_LIST_LIMIT)
      \/ t.request_state = "canceled" /\ IsPendingTrace(t)
  <2>. HIDE DEF all
  <2>. QED  BY <1>1, <1>6
<1>. QED  BY <1>4, <1>7, <1>8, <1>9 DEF pending

LEMMA CompletedKept ==
  ASSUME NEW t \in Traces, NEW before, Listed(before, Signatures),
         NEW completed, Listed(completed, Signatures)
  PROVE  LET kept == CompletedOnceFiled(t, before, completed)
             anew == IsPendingTrace(t) /\ ~\E sig \in ToSet(before) : HasId(sig, t)
         IN  /\ Listed(kept, Signatures)
             /\ ToSet(kept) = { sig \in ToSet(completed) : ~(anew /\ HasId(sig, t)) }
<1>. DEFINE kept  == CompletedOnceFiled(t, before, completed)
            anew  == IsPendingTrace(t) /\ ~\E sig \in ToSet(before) : HasId(sig, t)
            other == { sig \in ToSet(completed) : ~HasId(sig, t) }
<1>1. kept = IF anew THEN Those(completed, other) ELSE completed
  BY DEF CompletedOnceFiled
<1>. HIDE DEF kept, anew
<1>2. /\ Listed(Those(completed, other), Signatures)
      /\ ToSet(Those(completed, other)) = ToSet(completed) \cap other
  <2>. HIDE DEF other
  <2>. QED  BY ThoseProperties
<1>3. CASE anew
  BY <1>1, <1>2, <1>3 DEF kept, anew
<1>4. CASE ~anew
  BY <1>1, <1>4 DEF kept, anew
<1>. QED  BY <1>3, <1>4

LEMMA CanceledKept ==
  ASSUME NEW t \in Traces, NEW before, Listed(before, Signatures),
         NEW canceled_, Listed(canceled_, Signatures)
  PROVE  LET kept == CanceledAfter(t, before, canceled_)
             all  == ToSet(canceled_) \cup Canceling(t, ToSet(before))
         IN  /\ Listed(kept, Signatures) /\ ToSet(kept) \subseteq all
             /\ \/ ToSet(kept) = all
                \/ Cancels(t, before) /\ ~(Cardinality(all) <= SESSION_LIST_LIMIT)
             /\ Canceling(t, ToSet(before)) \subseteq ToSet(kept)
<1>. DEFINE keyed == WithKey(before, t)
            kept  == CanceledAfter(t, before, canceled_)
            all   == ToSet(canceled_) \cup Canceling(t, ToSet(before))
<1>1. /\ Listed(keyed, Signatures) /\ ToSet(keyed) = Keyed(ToSet(before), t)
      /\ keyed = << >> <=> Keyed(ToSet(before), t) = {}
  BY WithKeyToSet
<1>2. CASE Cancels(t, before)
  <2>1. kept = RememberAll(canceled_, keyed)
    BY <1>2 DEF CanceledAfter
  <2>2. Canceling(t, ToSet(before)) = ToSet(keyed)
    BY <1>1, <1>2 DEF Cancels, Canceling
  <2>. HIDE DEF keyed, kept
  <2>3. /\ Listed(RememberAll(canceled_, keyed), Signatures)
        /\ ToSet(RememberAll(canceled_, keyed)) \subseteq ToSet(canceled_) \cup ToSet(keyed)
        /\ Cardinality(ToSet(canceled_) \cup ToSet(keyed)) <= SESSION_LIST_LIMIT
             => ToSet(RememberAll(canceled_, keyed)) = ToSet(canceled_) \cup ToSet(keyed)
        /\ ToSet(keyed) \subseteq ToSet(RememberAll(canceled_, keyed))
    BY <1>1, RememberedAll DEF Listed
  <2>. QED  BY <1>2, <2>1, <2>2, <2>3 DEF kept
<1>3. CASE ~Cancels(t, before)
  <2>1. kept = canceled_
    BY <1>3 DEF CanceledAfter
  <2>2. Canceling(t, ToSet(before)) = {}
    BY <1>1, <1>3 DEF Cancels, Canceling
  <2>. HIDE DEF keyed, kept
  <2>. QED  BY <2>1, <2>2 DEF kept
<1>. QED  BY <1>2, <1>3

(* Whether a result is taken for an answer, with the list as a set.        *)
LEMMA AcceptsKeyed ==
  ASSUME NEW t, NEW pending, Listed(pending, Signatures)
  PROVE  Accepts(t, pending) <=>
           IsResultTrace(t) /\ (SelfContained(t) \/ Observed(t) \in Keyed(ToSet(pending), t))
<1>1. ToSet(WithKey(pending, t)) = Keyed(ToSet(pending), t)
  BY WithKeyToSet
<1>. QED  BY <1>1 DEF Accepts
-----------------------------------------------------------------------------
ListsOK ==
  /\ Listed(pending_mcp_request_signatures, Signatures)
  /\ Listed(completed_mcp_request_signatures, Signatures)
  /\ Listed(canceled_mcp_request_signatures, Signatures)

(* What a call leaves on the lists.                                        *)
LEMMA BindSets ==
  ASSUME ListsOK, NEW t \in Traces, BindTrace(t)
  PROVE  LET before    == pending_mcp_request_signatures
             pending   == PendingIn(t, before)
             completed == CompletedOnceFiled(t, before, completed_mcp_request_signatures)
         IN  /\ ListsOK'
             /\ ToSet(pending_mcp_request_signatures') =
                  IF Accepts(t, pending) /\ ~SelfContained(t)
                    THEN ToSet(pending) \ {Observed(t)} ELSE ToSet(pending)
             /\ ToSet(completed_mcp_request_signatures') \subseteq
                  ToSet(completed) \cup { sig \in {Observed(t)} : Accepts(t, pending) }
             /\ canceled_mcp_request_signatures' =
                  CanceledAfter(t, before, canceled_mcp_request_signatures)
<1>. DEFINE before    == pending_mcp_request_signatures
            pending   == PendingIn(t, before)
            completed == CompletedOnceFiled(t, before, completed_mcp_request_signatures)
<1>1. /\ pending_mcp_request_signatures' =
           IF Accepts(t, pending) /\ ~SelfContained(t) THEN Without(pending, Observed(t)) ELSE pending
      /\ completed_mcp_request_signatures' = RememberIf(Accepts(t, pending), completed, Observed(t))
      /\ canceled_mcp_request_signatures' =
           CanceledAfter(t, before, canceled_mcp_request_signatures)
  BY DEF BindTrace, Binding, PendingIn
<1>2. Listed(pending, Signatures) /\ Listed(completed, Signatures) /\ Observed(t) \in Signatures
  BY LookedUp, CompletedKept, TraceParts DEF ListsOK
<1>3. Listed(canceled_mcp_request_signatures', Signatures)
  BY <1>1, CanceledKept DEF ListsOK
<1>. HIDE DEF pending, completed
<1>4. /\ Listed(Without(pending, Observed(t)), Signatures)
      /\ ToSet(Without(pending, Observed(t))) = ToSet(pending) \ {Observed(t)}
  BY <1>2, WithoutToSet
<1>5. /\ Listed(Remember(completed, Observed(t)), Signatures)
      /\ ToSet(Remember(completed, Observed(t))) \subseteq ToSet(completed) \cup {Observed(t)}
  BY <1>2, RememberedOne
<1>6. /\ Listed(completed_mcp_request_signatures', Signatures)
      /\ ToSet(completed_mcp_request_signatures') \subseteq
           ToSet(completed) \cup { sig \in {Observed(t)} : Accepts(t, pending) }
  BY <1>1, <1>2, <1>5 DEF RememberIf
<1>7. /\ Listed(pending_mcp_request_signatures', Signatures)
      /\ ToSet(pending_mcp_request_signatures') =
           IF Accepts(t, pending) /\ ~SelfContained(t)
             THEN ToSet(pending) \ {Observed(t)} ELSE ToSet(pending)
  BY <1>1, <1>2, <1>4
<1>. QED  BY <1>1, <1>3, <1>6, <1>7 DEF ListsOK, pending, completed
-----------------------------------------------------------------------------
LEMMA TypeLists == TypeOK <=> ListsOK /\ outstanding \cup answered \cup canceled \subseteq Signatures
BY DEF TypeOK, ListsOK, BoundedList, Listed

(* The lists are lists of different requests within the limit, and the     *)
(* ledger is one of requests.                                              *)
THEOREM TypeCorrect == LedgerSpec => []TypeOK
<1>1. LedgerInit => TypeOK
  <2>1. Listed(<< >>, Signatures)
    BY EmptySeq, ListLimitAssumption DEF Listed, Distinct
  <2>. QED  BY <2>1, TypeLists DEF LedgerInit, BindingInit, ListsOK
<1>2. TypeOK /\ [LedgerNext]_ledgerVars => TypeOK'
  <2>. SUFFICES ASSUME TypeOK, [LedgerNext]_ledgerVars PROVE TypeOK'
    OBVIOUS
  <2>1. CASE UNCHANGED ledgerVars
    BY <2>1 DEF ledgerVars, bindingVars, TypeOK, BoundedList
  <2>2. ASSUME NEW t \in LoggedTraces, BindTrace(t), Record(t) PROVE TypeOK'
    <3>1. t \in Traces /\ Expected(t) \in Signatures /\ Observed(t) \in Signatures
      BY LoggedTracesAssumption, TraceParts
    <3>2. ListsOK'
      BY <2>2, <3>1, BindSets, TypeLists
    <3>3. outstanding \subseteq Signatures /\ answered \subseteq Signatures /\ canceled \subseteq Signatures
      BY TypeLists
    <3>4. /\ outstanding' \subseteq outstanding \cup {Expected(t)}
          /\ answered' \subseteq answered \cup {Observed(t)}
          /\ canceled' \subseteq canceled \cup outstanding \cup {Expected(t)}
      BY <2>2 DEF Record, Filed, AnsweredBy, CanceledBy
    <3>5. /\ outstanding' \subseteq Signatures /\ answered' \subseteq Signatures
          /\ canceled' \subseteq Signatures
      BY <3>1, <3>3, <3>4
    <3>. QED  BY <3>2, <3>5 DEF TypeOK, ListsOK, BoundedList, Listed
  <2>. QED  BY <2>1, <2>2 DEF LedgerNext
<1>. QED  BY <1>1, <1>2, PTL DEF LedgerSpec
-----------------------------------------------------------------------------
(* What is on the lists is in the ledger; nothing is missing on them       *)
(* before one of them has dropped something; and no canceled request is    *)
(* still pending, in whatever stream.                                      *)
LedgerOK ==
  /\ overflowed \in BOOLEAN
  /\ ToSet(pending_mcp_request_signatures) \subseteq outstanding
  /\ ToSet(completed_mcp_request_signatures) \subseteq answered
  /\ ~overflowed => /\ outstanding \subseteq ToSet(pending_mcp_request_signatures)
                    /\ canceled \subseteq ToSet(canceled_mcp_request_signatures)
  /\ \A sig \in canceled, one \in ToSet(pending_mcp_request_signatures) : ~SameCall(sig, one)

(* Calls of one identity are under one key.                                *)
LEMMA SameCallKey ==
  ASSUME NEW t, NEW one \in Signatures, NEW other \in Signatures, SameCall(one, other)
  PROVE  /\ HasKey(one, t) <=> HasKey(other, t)
         /\ one.source = other.source /\ one.tool = other.tool /\ one.id = other.id
<1>1. one = [other EXCEPT !.event = one.event]
  BY DEF SameCall
<1>2. one.source = other.source /\ one.tool = other.tool /\ one.id = other.id
  BY <1>1 DEF Signatures
<1>. QED  BY <1>2 DEF HasKey

(* A list has not dropped what it was given.                               *)
LEMMA NothingDropped ==
  ASSUME TypeOK, NEW t \in Traces, ~DropsOldest(t)
  PROVE  /\ Cardinality(ToSet(pending_mcp_request_signatures) \cup Filing(t)) <= SESSION_LIST_LIMIT
         /\ Cancels(t, pending_mcp_request_signatures) =>
              Cardinality(ToSet(canceled_mcp_request_signatures)
                            \cup Canceling(t, ToSet(pending_mcp_request_signatures)))
                <= SESSION_LIST_LIMIT
<1>. DEFINE before == pending_mcp_request_signatures
            filing == ToSet(before) \cup Filing(t)
            both   == ToSet(canceled_mcp_request_signatures) \cup Canceling(t, ToSet(before))
<1>1. /\ ToSet(WithKey(before, t)) = Keyed(ToSet(before), t)
      /\ IsFiniteSet(ToSet(before)) /\ IsFiniteSet(ToSet(canceled_mcp_request_signatures))
  BY WithKeyToSet, AmongToSet, TypeLists DEF ListsOK, Listed
<1>2. /\ Cardinality(filing) \in Nat /\ Cardinality(both) \in Nat
  <2>1. Filing(t) \subseteq {Expected(t)} /\ Canceling(t, ToSet(before)) \subseteq ToSet(before)
    BY DEF Filing, Canceling, Keyed
  <2>2. IsFiniteSet(Filing(t)) /\ IsFiniteSet(Canceling(t, ToSet(before)))
    <3>1. IsFiniteSet({Expected(t)})
      BY FS_Singleton
    <3>. QED  BY <1>1, <2>1, <3>1, FS_Subset
  <2>3. IsFiniteSet(filing) /\ IsFiniteSet(both)
    BY <1>1, <2>2, FS_Union
  <2>. QED  BY <2>3, FS_CardinalityType
<1>3. ~(Cardinality(filing) > SESSION_LIST_LIMIT)
  BY DEF DropsOldest, Filing
<1>4. Cancels(t, before) => ~(Cardinality(both) > SESSION_LIST_LIMIT)
  <2>. SUFFICES ASSUME Cancels(t, before) PROVE ~(Cardinality(both) > SESSION_LIST_LIMIT)
    OBVIOUS
  <2>1. Canceling(t, ToSet(before)) = ToSet(WithKey(before, t))
    BY <1>1 DEF Cancels, Canceling
  <2>. QED  BY <2>1 DEF DropsOldest
<1>. HIDE DEF filing, both
<1>5. Cardinality(filing) <= SESSION_LIST_LIMIT
  BY <1>2, <1>3, ListLimitAssumption
<1>6. Cancels(t, before) => Cardinality(both) <= SESSION_LIST_LIMIT
  BY <1>2, <1>4, ListLimitAssumption
<1>. QED  BY <1>5, <1>6 DEF filing, both

(* Every call keeps the lists and the ledger together.                     *)
LEMMA LedgerStep ==
  ASSUME PlainCancellations, TypeOK, LedgerOK, NEW t \in LoggedTraces, BindTrace(t), Record(t)
  PROVE  LedgerOK'
<1>. DEFINE before    == pending_mcp_request_signatures
            P         == ToSet(before)
            pending   == PendingIn(t, before)
            completed == CompletedOnceFiled(t, before, completed_mcp_request_signatures)
            open      == outstanding \cup Filing(t)
            left      == open \ Canceling(t, open)
            answers   == AnsweredBy(t, left)
            anew      == IsPendingTrace(t) /\ ~\E sig \in P : HasId(sig, t)
<1>1. /\ t \in Traces /\ ListsOK /\ Expected(t) \in Signatures
      /\ outstanding \subseteq Signatures /\ canceled \subseteq Signatures /\ P \subseteq Signatures
  <2>1. ListsOK /\ outstanding \subseteq Signatures /\ canceled \subseteq Signatures
    BY TypeLists
  <2>. QED  BY <2>1, LoggedTracesAssumption, TraceParts, AmongToSet DEF ListsOK, Listed
<1>2. /\ P \subseteq outstanding
      /\ ToSet(completed_mcp_request_signatures) \subseteq answered
      /\ ~overflowed => outstanding \subseteq P /\ canceled \subseteq ToSet(canceled_mcp_request_signatures)
      /\ \A sig \in canceled, one \in P : ~SameCall(sig, one)
      /\ overflowed \in BOOLEAN
  BY DEF LedgerOK
<1>3. Filed(t) = Filing(t) /\ CanceledBy(t, open) = Canceling(t, open)
  <2>1. CASE t.request_state = "canceled"
    <3>1. ~IsPendingTrace(t) /\ t.event = None
      BY <2>1 DEF PlainCancellations
    <3>2. Filed(t) = {} /\ Filing(t) = {}
      BY <2>1, <3>1 DEF Filed, Filing
    <3>3. CanceledBy(t, open) = Canceling(t, open)
      BY <2>1, <3>1 DEF CanceledBy, Canceling, Keyed, HasKey, SameRequest
    <3>. QED  BY <3>2, <3>3
  <2>2. CASE t.request_state # "canceled"
    BY <2>2 DEF Filed, Filing, CanceledBy, Canceling
  <2>. QED  BY <2>1, <2>2
<1>4. /\ outstanding' = IF SelfContained(t) THEN left ELSE left \ answers
      /\ answered' = { sig \in answered : ~(StartsAnew(t) /\ HasId(sig, t)) } \cup answers
      /\ canceled' = { sig \in canceled : ~\E one \in Filing(t) : SameCall(sig, one) }
                       \cup Canceling(t, open)
      /\ overflowed' = (overflowed \/ DropsOldest(t))
  BY <1>3 DEF Record
<1>5. /\ P' = IF Accepts(t, pending) /\ ~SelfContained(t)
                THEN ToSet(pending) \ {Observed(t)} ELSE ToSet(pending)
      /\ ToSet(completed_mcp_request_signatures') \subseteq
           ToSet(completed) \cup { sig \in {Observed(t)} : Accepts(t, pending) }
      /\ canceled_mcp_request_signatures' =
           CanceledAfter(t, before, canceled_mcp_request_signatures)
  BY <1>1, BindSets
<1>6. /\ Listed(pending, Signatures) /\ ToSet(pending) \subseteq P \cup Filing(t)
      /\ \/ ToSet(pending) = (P \cup Filing(t)) \ Canceling(t, P \cup Filing(t))
         \/ ~(Cardinality(P \cup Filing(t)) <= SESSION_LIST_LIMIT)
         \/ t.request_state = "canceled" /\ IsPendingTrace(t)
      /\ ~IsPendingTrace(t) => ToSet(pending) = P \ Canceling(t, P)
  BY <1>1, LookedUp DEF ListsOK
<1>7. ToSet(completed) = { sig \in ToSet(completed_mcp_request_signatures) : ~(anew /\ HasId(sig, t)) }
  BY <1>1, CompletedKept DEF ListsOK
<1>8. Accepts(t, pending) <=>
        IsResultTrace(t) /\ (SelfContained(t) \/ Observed(t) \in Keyed(ToSet(pending), t))
  BY <1>6, AcceptsKeyed
<1>9. t.request_state = "canceled" => ~IsPendingTrace(t) /\ Filing(t) = {}
  BY DEF PlainCancellations, Filing
<1>. HIDE DEF pending, completed, P
<1>10. ToSet(pending) \subseteq left
  <2>1. CASE t.request_state = "canceled"
    <3>1. ToSet(pending) = P \ Canceling(t, P) /\ open = outstanding
      BY <1>6, <1>9, <2>1
    <3>. QED  BY <1>2, <3>1 DEF Canceling, Keyed
  <2>2. CASE t.request_state # "canceled"
    <3>1. Canceling(t, open) = {}
      BY <2>2 DEF Canceling
    <3>. QED  BY <1>2, <1>6, <3>1
  <2>. QED  BY <2>1, <2>2
<1>11. ASSUME ~overflowed' PROVE ToSet(pending) = left /\ ~overflowed /\ ~DropsOldest(t)
  <2>1. ~overflowed /\ ~DropsOldest(t)
    BY <1>4, <1>11
  <2>2. Cardinality(P \cup Filing(t)) <= SESSION_LIST_LIMIT
    BY <1>1, <2>1, NothingDropped DEF P
  <2>3. P = outstanding
    BY <1>2, <2>1
  <2>. QED  BY <1>6, <1>9, <2>1, <2>2, <2>3
<1>12. \A sig : sig \in answers <=>
         /\ sig = Observed(t) /\ IsResultTrace(t)
         /\ SelfContained(t) \/ (HasKey(sig, t) /\ sig \in left)
  BY DEF AnsweredBy, HasKey, SameRequest
<1>. HIDE DEF answers, left, anew, open
<1>13. P' \subseteq outstanding'
  BY <1>4, <1>5, <1>8, <1>10, <1>12 DEF Keyed
<1>14. ~overflowed' => outstanding' \subseteq P'
  BY <1>4, <1>5, <1>8, <1>11, <1>12 DEF Keyed
<1>15. ToSet(completed_mcp_request_signatures') \subseteq answered'
  <2>1. StartsAnew(t) => anew
    <3>1. StartsAnew(t) => IsPendingTrace(t) /\ ~\E sig \in outstanding : HasId(sig, t)
      BY DEF StartsAnew, Filed
    <3>. QED  BY <1>2, <3>1 DEF anew
  <2>2. Accepts(t, pending) => Observed(t) \in answers
    BY <1>8, <1>10, <1>12 DEF Keyed
  <2>. QED  BY <1>2, <1>4, <1>5, <1>7, <2>1, <2>2
<1>16. ~overflowed' => canceled' \subseteq ToSet(canceled_mcp_request_signatures')
  <2>. SUFFICES ASSUME ~overflowed'
                PROVE  canceled' \subseteq ToSet(canceled_mcp_request_signatures')
    OBVIOUS
  <2>. DEFINE all == ToSet(canceled_mcp_request_signatures) \cup Canceling(t, P)
  <2>1. /\ ToSet(CanceledAfter(t, before, canceled_mcp_request_signatures)) = all
           \/ (Cancels(t, before) /\ ~(Cardinality(all) <= SESSION_LIST_LIMIT))
    BY <1>1, CanceledKept DEF ListsOK, P
  <2>2. Cancels(t, before) => Cardinality(all) <= SESSION_LIST_LIMIT
    BY <1>1, <1>11, NothingDropped DEF P
  <2>3. ToSet(canceled_mcp_request_signatures') = all
    BY <1>5, <2>1, <2>2
  <2>4. Canceling(t, open) \subseteq Canceling(t, P)
    <3>1. CASE t.request_state = "canceled"
      <4>1. open = P
        BY <1>2, <1>9, <1>11, <3>1 DEF open
      <4>. QED  BY <4>1
    <3>2. CASE t.request_state # "canceled"
      BY <3>2 DEF Canceling
    <3>. QED  BY <3>1, <3>2
  <2>. HIDE DEF all
  <2>5. canceled \subseteq ToSet(canceled_mcp_request_signatures)
    BY <1>2, <1>11
  <2>. QED  BY <1>4, <2>3, <2>4, <2>5 DEF all
<1>17. ASSUME NEW sig \in canceled', NEW one \in P' PROVE ~SameCall(sig, one)
  <2>1. one \in ToSet(pending) /\ one \in P \cup Filing(t)
    BY <1>5, <1>6
  <2>2. CASE sig \in canceled /\ ~\E new \in Filing(t) : SameCall(sig, new)
    BY <1>2, <2>1, <2>2
  <2>3. CASE sig \in Canceling(t, open)
    <3>1. t.request_state = "canceled" /\ HasKey(sig, t) /\ sig \in open
      BY <2>3 DEF Canceling, Keyed
    <3>2. one \in P /\ ~HasKey(one, t)
      BY <1>6, <1>9, <2>1, <3>1 DEF Canceling, Keyed
    <3>3. sig \in Signatures /\ one \in Signatures
      BY <1>1, <1>9, <3>1, <3>2 DEF open, P
    <3>. QED  BY <3>1, <3>2, <3>3, SameCallKey
  <2>. QED  BY <1>4, <2>2, <2>3
<1>18. overflowed' \in BOOLEAN
  BY <1>4
<1>. QED  BY <1>13, <1>14, <1>15, <1>16, <1>17, <1>18 DEF LedgerOK, P
-----------------------------------------------------------------------------
(* What the verdict on a bare result rests on.                             *)
LEMMA BareVerdict ==
  ASSUME NEW t, BareResult(t)
  PROVE  LET before  == pending_mcp_request_signatures
             pending == PendingIn(t, before)
         IN  Passes(t) <=>
               /\ Mismatch(t, pending) = {}
               /\ ~Unbound(t, pending, completed_mcp_request_signatures,
                           CanceledAfter(t, before, canceled_mcp_request_signatures))
<1>1. ~IsPendingTrace(t)
  BY DEF BareResult
<1>2. /\ ~ReusesId(t, pending_mcp_request_signatures)
      /\ CompletedOnceFiled(t, pending_mcp_request_signatures, completed_mcp_request_signatures)
           = completed_mcp_request_signatures
  BY <1>1 DEF ReusesId, CompletedOnceFiled
<1>. QED  BY <1>2 DEF Passes, Binding, PendingIn, When

LEMMA MismatchKeyed ==
  ASSUME NEW t, BareResult(t), NEW pending, Listed(pending, Signatures),
         Keyed(ToSet(pending), t) # {}
  PROVE  LET expected == Last(WithKey(pending, t))
         IN  /\ expected \in Keyed(ToSet(pending), t)
             /\ Mismatch(t, pending) = {} <=>
                  \/ Observed(t) \in Keyed(ToSet(pending), t)
                  \/ expected.source = Observed(t).source /\ expected.tool = Observed(t).tool
<1>. DEFINE keyed == WithKey(pending, t)
            expected == Last(keyed)
            wrong == UNION {
              IF expected.source # Observed(t).source
                THEN {"mcp_result_source_mismatch"} \cup
                     When(t.event # None, "mcp_stream_event_identity_collision")
                ELSE {},
              IF expected.tool # Observed(t).tool
                THEN {"mcp_response_request_mismatch", "mcp_foreign_tool_result_injection"}
                ELSE {} }
<1>1. ToSet(keyed) = Keyed(ToSet(pending), t) /\ keyed # << >> /\ expected \in Keyed(ToSet(pending), t)
  BY WithKeyToSet
<1>2. IsResultTrace(t) /\ ~SelfContained(t)
  BY DEF BareResult
<1>3. Mismatch(t, pending) = IF Observed(t) \in ToSet(keyed) THEN {} ELSE wrong
  BY <1>1, <1>2 DEF Mismatch
<1>4. wrong = {} <=> expected.source = Observed(t).source /\ expected.tool = Observed(t).tool
  <2>. HIDE DEF expected
  <2>1. ASSUME expected.source # Observed(t).source PROVE wrong # {}
    <3>1. "mcp_result_source_mismatch" \in wrong
      BY <2>1
    <3>. HIDE DEF wrong
    <3>. QED  BY <3>1
  <2>2. ASSUME expected.tool # Observed(t).tool PROVE wrong # {}
    <3>1. "mcp_response_request_mismatch" \in wrong
      BY <2>2
    <3>. HIDE DEF wrong
    <3>. QED  BY <3>1
  <2>3. ASSUME expected.source = Observed(t).source, expected.tool = Observed(t).tool
        PROVE  wrong = {}
    BY <2>3
  <2>. HIDE DEF wrong
  <2>. QED  BY <2>1, <2>2, <2>3
<1>. HIDE DEF wrong, keyed
<1>. QED  BY <1>1, <1>3, <1>4 DEF keyed

(* What a bare result finds.                                               *)
LEMMA BareLists ==
  ASSUME TypeOK, NEW t \in LoggedTraces, BareResult(t)
  PROVE  LET before  == pending_mcp_request_signatures
             pending == PendingIn(t, before)
             gone    == CanceledAfter(t, before, canceled_mcp_request_signatures)
         IN  /\ Listed(pending, Signatures)
             /\ ToSet(pending) = ToSet(before) \ Canceling(t, ToSet(before))
             /\ ToSet(before) \subseteq Signatures
             /\ Observed(t) \in Signatures /\ Observed(t).id = t.id
             /\ Unbound(t, pending, completed_mcp_request_signatures, gone) <=>
                  /\ Keyed(ToSet(pending), t) = {}
                  /\ \/ Keyed(ToSet(gone), t) # {}
                     \/ Keyed(ToSet(completed_mcp_request_signatures), t) = {}
<1>. DEFINE before  == pending_mcp_request_signatures
            pending == PendingIn(t, before)
            gone    == CanceledAfter(t, before, canceled_mcp_request_signatures)
<1>1. t \in Traces /\ ListsOK
  BY TypeLists, LoggedTracesAssumption
<1>2. /\ IsResultTrace(t) /\ ~SelfContained(t) /\ ~IsPendingTrace(t) /\ ~t.allow_unbound_result
  BY DEF BareResult
<1>3. Listed(pending, Signatures) /\ ToSet(pending) = ToSet(before) \ Canceling(t, ToSet(before))
  BY <1>1, <1>2, LookedUp DEF ListsOK
<1>4. Listed(gone, Signatures)
  BY <1>1, CanceledKept DEF ListsOK
<1>5. ToSet(before) \subseteq Signatures
  BY <1>1, AmongToSet DEF ListsOK, Listed
<1>. HIDE DEF pending, gone
<1>6. /\ WithKey(pending, t) = << >> <=> Keyed(ToSet(pending), t) = {}
      /\ WithKey(gone, t) = << >> <=> Keyed(ToSet(gone), t) = {}
      /\ WithKey(completed_mcp_request_signatures, t) = << >>
           <=> Keyed(ToSet(completed_mcp_request_signatures), t) = {}
  BY <1>1, <1>3, <1>4, WithKeyToSet DEF ListsOK
<1>7. Unbound(t, pending, completed_mcp_request_signatures, gone) <=>
        /\ Keyed(ToSet(pending), t) = {}
        /\ \/ Keyed(ToSet(gone), t) # {}
           \/ Keyed(ToSet(completed_mcp_request_signatures), t) = {}
  BY <1>2, <1>6 DEF Unbound
<1>8. Observed(t) \in Signatures /\ Observed(t).id = t.id
  BY <1>1, TraceParts DEF Observed
<1>. QED  BY <1>3, <1>5, <1>7, <1>8 DEF pending, gone

LEMMA SameParts ==
  ASSUME NEW one \in Signatures, NEW other \in Signatures,
         one.id = other.id, one.source = other.source, one.tool = other.tool
  PROVE  SameCall(one, other)
BY DEF Signatures, SameCall

LEMMA BoundNow ==
  ASSUME TypeOK, LedgerOK
  PROVE  BoundToRequest
<1>. SUFFICES ASSUME NEW t \in LoggedTraces, BareResult(t), Passes(t)
              PROVE  \/ \E sig \in outstanding : SameCall(sig, Observed(t))
                     \/ \E sig \in answered : SameRequest(sig, t)
  BY DEF BoundToRequest
<1>. DEFINE before  == pending_mcp_request_signatures
            pending == PendingIn(t, before)
            gone    == CanceledAfter(t, before, canceled_mcp_request_signatures)
            P       == ToSet(before)
<1>1. /\ Mismatch(t, pending) = {}
      /\ ~Unbound(t, pending, completed_mcp_request_signatures, gone)
  BY BareVerdict
<1>2. /\ Listed(pending, Signatures) /\ ToSet(pending) \subseteq P /\ P \subseteq Signatures
      /\ Observed(t) \in Signatures /\ Observed(t).id = t.id
      /\ Unbound(t, pending, completed_mcp_request_signatures, gone) <=>
           /\ Keyed(ToSet(pending), t) = {}
           /\ \/ Keyed(ToSet(gone), t) # {}
              \/ Keyed(ToSet(completed_mcp_request_signatures), t) = {}
  BY BareLists
<1>3. P \subseteq outstanding /\ ToSet(completed_mcp_request_signatures) \subseteq answered
  BY DEF LedgerOK
<1>. HIDE DEF pending, gone, P
<1>4. CASE Keyed(ToSet(pending), t) = {}
  <2>1. PICK sig \in ToSet(completed_mcp_request_signatures) : HasKey(sig, t)
    BY <1>1, <1>2, <1>4 DEF Keyed
  <2>. QED  BY <1>3, <2>1 DEF HasKey, SameRequest
<1>5. CASE Keyed(ToSet(pending), t) # {}
  <2>. DEFINE expected == Last(WithKey(pending, t))
  <2>1. /\ expected \in Keyed(ToSet(pending), t)
        /\ \/ Observed(t) \in Keyed(ToSet(pending), t)
           \/ expected.source = Observed(t).source /\ expected.tool = Observed(t).tool
    BY <1>1, <1>2, <1>5, MismatchKeyed
  <2>. HIDE DEF expected
  <2>2. CASE Observed(t) \in Keyed(ToSet(pending), t)
    <3>1. Observed(t) \in outstanding
      BY <1>2, <1>3, <2>2 DEF Keyed
    <3>. QED  BY <1>2, <3>1, SameParts
  <2>3. CASE expected.source = Observed(t).source /\ expected.tool = Observed(t).tool
    <3>1. expected \in outstanding /\ expected \in Signatures /\ expected.id = Observed(t).id
      BY <1>2, <1>3, <2>1 DEF Keyed, HasKey
    <3>. QED  BY <1>2, <2>3, <3>1, SameParts
  <2>. QED  BY <2>1, <2>2, <2>3
<1>. QED  BY <1>4, <1>5

LEMMA NoFalseAlarmNow ==
  ASSUME TypeOK, LedgerOK
  PROVE  NoFalseAlarm
<1>. SUFFICES ASSUME NEW t \in LoggedTraces, BareResult(t), SameRequest(Observed(t), t),
                     t.event = None, t.request_state # "canceled",
                     Observed(t) \in outstanding, ~overflowed
              PROVE  Passes(t)
  BY DEF NoFalseAlarm
<1>. DEFINE before  == pending_mcp_request_signatures
            pending == PendingIn(t, before)
            gone    == CanceledAfter(t, before, canceled_mcp_request_signatures)
<1>1. /\ Listed(pending, Signatures)
      /\ ToSet(pending) = ToSet(before) \ Canceling(t, ToSet(before))
      /\ Unbound(t, pending, completed_mcp_request_signatures, gone) =>
           Keyed(ToSet(pending), t) = {}
  BY BareLists
<1>2. Observed(t) \in ToSet(before) /\ Canceling(t, ToSet(before)) = {}
  BY DEF LedgerOK, Canceling
<1>3. HasKey(Observed(t), t)
  BY DEF HasKey, SameRequest
<1>4. Passes(t) <=>
        /\ Mismatch(t, pending) = {}
        /\ ~Unbound(t, pending, completed_mcp_request_signatures, gone)
  BY BareVerdict
<1>. HIDE DEF pending, gone
<1>5. Observed(t) \in Keyed(ToSet(pending), t)
  BY <1>1, <1>2, <1>3 DEF Keyed
<1>6. Mismatch(t, pending) = {}
  BY <1>1, <1>5, MismatchKeyed
<1>. QED  BY <1>1, <1>4, <1>5, <1>6

LEMMA LateResultNow ==
  ASSUME TypeOK, LedgerOK
  PROVE  LateResultFlagged
<1>. SUFFICES ASSUME NEW t \in LoggedTraces, BareResult(t), SameRequest(Observed(t), t),
                     Observed(t) \in canceled, ~overflowed, Passes(t)
              PROVE  FALSE
  BY DEF LateResultFlagged
<1>. DEFINE before  == pending_mcp_request_signatures
            pending == PendingIn(t, before)
            X       == ToSet(canceled_mcp_request_signatures)
            gone    == CanceledAfter(t, before, canceled_mcp_request_signatures)
            P       == ToSet(before)
<1>1. /\ Mismatch(t, pending) = {}
      /\ ~Unbound(t, pending, completed_mcp_request_signatures, gone)
  BY BareVerdict
<1>2. /\ Listed(pending, Signatures) /\ ToSet(pending) \subseteq P /\ P \subseteq Signatures
      /\ Observed(t) \in Signatures /\ Observed(t).id = t.id
      /\ Unbound(t, pending, completed_mcp_request_signatures, gone) <=>
           /\ Keyed(ToSet(pending), t) = {}
           /\ \/ Keyed(ToSet(gone), t) # {}
              \/ Keyed(ToSet(completed_mcp_request_signatures), t) = {}
  BY BareLists
<1>3. Observed(t) \in X /\ \A one \in P : ~SameCall(Observed(t), one)
  BY DEF LedgerOK
<1>4. /\ ToSet(gone) = X \cup Canceling(t, P) \/ Cancels(t, before)
      /\ Canceling(t, P) \subseteq ToSet(gone)
      /\ Cancels(t, before) => Canceling(t, P) # {}
  <2>1. t \in Traces /\ ListsOK
    BY TypeLists, LoggedTracesAssumption
  <2>2. WithKey(before, t) = << >> <=> Keyed(P, t) = {}
    BY <2>1, WithKeyToSet DEF ListsOK
  <2>. QED  BY <2>1, <2>2, CanceledKept DEF ListsOK, Cancels, Canceling
<1>. HIDE DEF pending, gone, P, X
<1>5. CASE Keyed(ToSet(pending), t) = {}
  <2>1. CASE t.event # None
    <3>1. Keyed(ToSet(completed_mcp_request_signatures), t) = {}
      BY <2>1 DEF Keyed, HasKey
    <3>. QED  BY <1>1, <1>2, <1>5, <3>1
  <2>2. CASE t.event = None
    <3>1. HasKey(Observed(t), t)
      BY <2>2 DEF HasKey, SameRequest
    <3>2. Keyed(ToSet(gone), t) # {}
      BY <1>3, <1>4, <3>1 DEF Keyed, Canceling
    <3>. QED  BY <1>1, <1>2, <1>5, <3>2
  <2>. QED  BY <2>1, <2>2
<1>6. CASE Keyed(ToSet(pending), t) # {}
  <2>. DEFINE expected == Last(WithKey(pending, t))
  <2>1. /\ expected \in Keyed(ToSet(pending), t)
        /\ \/ Observed(t) \in Keyed(ToSet(pending), t)
           \/ expected.source = Observed(t).source /\ expected.tool = Observed(t).tool
    BY <1>1, <1>2, <1>6, MismatchKeyed
  <2>. HIDE DEF expected
  <2>2. Observed(t) \notin P
    BY <1>2, <1>3, SameParts
  <2>3. expected \in P /\ expected \in Signatures /\ expected.id = Observed(t).id
    BY <1>2, <2>1 DEF Keyed, HasKey
  <2>4. SameCall(Observed(t), expected)
    BY <1>2, <2>1, <2>2, <2>3, SameParts DEF Keyed
  <2>. QED  BY <1>3, <2>3, <2>4
<1>. QED  BY <1>5, <1>6
-----------------------------------------------------------------------------
(* In a session of any length the lists and the ledger belong together.    *)
LEMMA LedgerKept ==
  ASSUME PlainCancellations
  PROVE  LedgerSpec => [](TypeOK /\ LedgerOK)
<1>1. LedgerInit => LedgerOK
  <2>1. ToSet(<< >>) = {}
    BY DEF ToSet
  <2>. QED  BY <2>1 DEF LedgerInit, BindingInit, LedgerOK
<1>2. TypeOK /\ LedgerOK /\ [LedgerNext]_ledgerVars => LedgerOK'
  <2>. SUFFICES ASSUME TypeOK, LedgerOK, [LedgerNext]_ledgerVars PROVE LedgerOK'
    OBVIOUS
  <2>1. CASE UNCHANGED ledgerVars
    BY <2>1 DEF ledgerVars, bindingVars, LedgerOK
  <2>2. ASSUME NEW t \in LoggedTraces, BindTrace(t), Record(t) PROVE LedgerOK'
    BY <2>2, LedgerStep
  <2>. QED  BY <2>1, <2>2 DEF LedgerNext
<1>. QED  BY <1>1, <1>2, TypeCorrect, PTL DEF LedgerSpec

(* A bare result passes only for an outstanding request or after one of    *)
(* its id and source was answered (scorer.py:595-627).                     *)
THEOREM ResultsAreBound ==
  ASSUME PlainCancellations
  PROVE  LedgerSpec => []BoundToRequest
<1>1. TypeOK /\ LedgerOK => BoundToRequest
  BY BoundNow
<1>. QED  BY <1>1, LedgerKept, PTL

(* The result of an outstanding request passes (scorer.py:600-603), until  *)
(* a list has dropped something.                                           *)
THEOREM AnswersPass ==
  ASSUME PlainCancellations
  PROVE  LedgerSpec => []NoFalseAlarm
<1>1. TypeOK /\ LedgerOK => NoFalseAlarm
  BY NoFalseAlarmNow
<1>. QED  BY <1>1, LedgerKept, PTL

(* The late result of a canceled request is flagged (scorer.py:604-627),   *)
(* until a list has dropped something.                                     *)
THEOREM LateIsNoticed ==
  ASSUME PlainCancellations
  PROVE  LedgerSpec => []LateResultFlagged
<1>1. TypeOK /\ LedgerOK => LateResultFlagged
  BY LateResultNow
<1>. QED  BY <1>1, LedgerKept, PTL
=============================================================================
