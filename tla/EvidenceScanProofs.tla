-------------------------- MODULE EvidenceScanProofs --------------------------
(***************************************************************************)
(* What holds of the decision whatever the policies, the requests and the  *)
(* matches are: no clause that applies is overruled, a value left out      *)
(* never makes the policy stricter, and no match's vote is lost.           *)
(***************************************************************************)
EXTENDS EvidenceScan, EvidenceProofs

-----------------------------------------------------------------------------
(* The clauses come in the order of their strength.                        *)
LEMMA ClauseStrength ==
  /\ DOMAIN ClauseOrder = 1..6
  /\ \A i \in 1..6 : ClauseDecision(ClauseOrder[i]) \in Decisions \ {"allow"}
  /\ \A i, j \in 1..6 : i <= j =>
       Rank(ClauseDecision(ClauseOrder[i])) >= Rank(ClauseDecision(ClauseOrder[j]))
<1>1. DOMAIN ClauseOrder = 1..6
  BY DEF ClauseOrder
<1>2. /\ ClauseDecision(ClauseOrder[1]) = "block"
      /\ ClauseDecision(ClauseOrder[2]) = "block"
      /\ ClauseDecision(ClauseOrder[3]) = "require_approval"
      /\ ClauseDecision(ClauseOrder[4]) = "require_approval"
      /\ ClauseDecision(ClauseOrder[5]) = "require_approval"
      /\ ClauseDecision(ClauseOrder[6]) = "log_only"
  BY DEF ClauseOrder, ClauseDecision
<1>3. Rank("block") = 3 /\ Rank("require_approval") = 2 /\ Rank("log_only") = 1
  BY DEF Rank
<1>4. ASSUME NEW i \in 1..6 PROVE i = 1 \/ i = 2 \/ i = 3 \/ i = 4 \/ i = 5 \/ i = 6
  OBVIOUS
<1>5. \A i \in 1..6 : ClauseDecision(ClauseOrder[i]) \in Decisions \ {"allow"}
  BY <1>2, <1>4 DEF Decisions
<1>6. ASSUME NEW i \in 1..6, NEW j \in 1..6, i <= j
      PROVE  Rank(ClauseDecision(ClauseOrder[i])) >= Rank(ClauseDecision(ClauseOrder[j]))
  <2>1. Rank(ClauseDecision(ClauseOrder[i])) = IF i <= 2 THEN 3 ELSE IF i <= 5 THEN 2 ELSE 1
    BY <1>2, <1>3, <1>4
  <2>2. Rank(ClauseDecision(ClauseOrder[j])) = IF j <= 2 THEN 3 ELSE IF j <= 5 THEN 2 ELSE 1
    BY <1>2, <1>3, <1>4
  <2>. QED  BY <1>6, <2>1, <2>2
<1>. QED  BY <1>1, <1>5, <1>6

(* If a clause applies, one answers, and none that comes before it does.   *)
LEMMA FirstClauseAnswers ==
  ASSUME NEW p, NEW r, NEW i \in 1..6, Applies(ClauseOrder[i], p, r)
  PROVE  \E k \in 1..6 :
           /\ Answers(k, p, r) /\ k <= i
           /\ Evaluate(p, r) = PolicyAnswer(ClauseOrder[k], p)
<1>. DEFINE A(k) == Applies(ClauseOrder[k], p, r)
<1>1. \A k \in 1..6 : Answers(k, p, r) <=> A(k) /\ \A j \in 1..(k - 1) : ~A(j)
  BY DEF Answers
<1>. HIDE DEF A
<1>2. A(i)
  BY DEF A
<1>3. \E k \in 1..6 : A(k) /\ \A j \in 1..(k - 1) : ~A(j)
  <2>1. A(1) \/ A(2) \/ A(3) \/ A(4) \/ A(5) \/ A(6)
    BY <1>2
  <2>2. CASE A(1)
    BY <2>2
  <2>3. CASE ~A(1) /\ A(2)
    BY <2>3
  <2>4. CASE ~A(1) /\ ~A(2) /\ A(3)
    BY <2>4
  <2>5. CASE ~A(1) /\ ~A(2) /\ ~A(3) /\ A(4)
    BY <2>5
  <2>6. CASE ~A(1) /\ ~A(2) /\ ~A(3) /\ ~A(4) /\ A(5)
    BY <2>6
  <2>7. CASE ~A(1) /\ ~A(2) /\ ~A(3) /\ ~A(4) /\ ~A(5) /\ A(6)
    BY <2>7
  <2>. QED  BY <2>1, <2>2, <2>3, <2>4, <2>5, <2>6, <2>7
<1>. DEFINE k == CHOOSE k \in DOMAIN ClauseOrder : Answers(k, p, r)
<1>4. /\ k \in 1..6 /\ Answers(k, p, r)
      /\ \E n \in DOMAIN ClauseOrder : Answers(n, p, r)
  BY <1>1, <1>3, ClauseStrength
<1>5. Evaluate(p, r) = PolicyAnswer(ClauseOrder[k], p)
  BY <1>4 DEF Evaluate
<1>. HIDE DEF k
<1>6. k <= i
  BY <1>1, <1>2, <1>4
<1>. QED  BY <1>4, <1>5, <1>6

LEMMA EvaluateWithoutClause ==
  ASSUME NEW p, NEW r, \A i \in 1..6 : ~Applies(ClauseOrder[i], p, r)
  PROVE  Evaluate(p, r) = NoPolicy
BY ClauseStrength DEF Evaluate, Answers
-----------------------------------------------------------------------------
-----------------------------------------------------------------------------
(* The decision is always the cascade's over the policy's answer to the    *)
(* request.                                                                *)
Provenance ==
  /\ request \in PolicyRequests
  /\ policy = EvaluatePolicy(request)
  /\ \E matches : decided.decision = Verdict(matches, policy)

LEMMA DecisionIsVerdict ==
  ASSUME NEW texts, NEW structures, NEW answer
  PROVE  \E matches : DecisionOn(texts, structures, answer).decision = Verdict(matches, answer)
BY DEF DecisionOn, Decide

LEMMA ProvenanceInvariant == Spec => []Provenance
<1>1. Init => Provenance
  BY DecisionIsVerdict DEF Init, Provenance
<1>2. Provenance /\ [Next]_vars => Provenance'
  <2>. SUFFICES ASSUME Provenance, [Next]_vars PROVE Provenance'
    OBVIOUS
  <2>1. CASE TryText
    BY <2>1, DecisionIsVerdict DEF TryText, Provenance
  <2>2. CASE TryStructure
    BY <2>2, DecisionIsVerdict DEF TryStructure, Provenance
  <2>3. CASE UNCHANGED vars
    BY <2>3 DEF vars, Provenance
  <2>. QED  BY <2>1, <2>2, <2>3 DEF Next
<1>. QED  BY <1>1, <1>2, PTL DEF Spec

(* No clause of the policy that applies to a call is overruled, whatever   *)
(* the tools' policies, the conditions and the matched rules are.          *)
THEOREM ClausesHold == Spec => []NoClauseOverruled
<1>1. Provenance => NoClauseOverruled
  <2>. SUFFICES ASSUME Provenance, request.tool \in DOMAIN tools, NEW i \in DOMAIN ClauseOrder,
                       Applies(ClauseOrder[i], tools[request.tool], request)
                PROVE  Rank(decided.decision) >= Rank(ClauseDecision(ClauseOrder[i]))
    BY DEF NoClauseOverruled
  <2>1. i \in 1..6
    BY ClauseStrength
  <2>2. PICK k \in 1..6 : k <= i /\ policy = PolicyAnswer(ClauseOrder[k], tools[request.tool])
    BY <2>1, FirstClauseAnswers DEF Provenance, EvaluatePolicy
  <2>3. policy.decision = ClauseDecision(ClauseOrder[k])
    BY <2>2 DEF PolicyAnswer
  <2>4. policy.decision \in Decisions
    BY <2>3, ClauseStrength
  <2>5. PICK matches : decided.decision = Verdict(matches, policy)
    BY DEF Provenance
  <2>6. Rank(decided.decision) >= Rank(policy.decision)
    BY <2>4, <2>5, VerdictKeepsPolicy
  <2>7. Rank(policy.decision) >= Rank(ClauseDecision(ClauseOrder[i]))
    BY <2>1, <2>2, <2>3, ClauseStrength
  <2>8. decided.decision \in Decisions
    BY <2>5, VerdictIsDecision
  <2>9. \A d \in Decisions : Rank(d) \in 0..3
    BY DEF Rank, Decisions
  <2>. QED  BY <2>1, <2>4, <2>6, <2>7, <2>8, <2>9, ClauseStrength
<1>. QED  BY <1>1, ProvenanceInvariant, PTL
-----------------------------------------------------------------------------
(* A request that says less than another, but names the same contacts.     *)
SaysLess(s, r) ==
  /\ s.tool = r.tool
  /\ \A q \in {"args", "actor", "session"} : \A n \in DOMAIN s[q] :
       n \in DOMAIN r[q] /\ s[q][n] = r[q][n]
  /\ \A k \in DOMAIN ContactKeys :
       ContactKeys[k] \in DOMAIN s.args <=> ContactKeys[k] \in DOMAIN r.args

LEMMA LeavingOutSaysLess ==
  ASSUME NEW r \in PolicyRequests, NEW part \in {"args", "actor"},
         NEW name, name \notin ToSet(ContactKeys)
  PROVE  SaysLess(LeavingOut(r, part, name), r)
<1>. DEFINE s == LeavingOut(r, part, name)
<1>1. /\ s[part] = [n \in DOMAIN r[part] \ {name} |-> r[part][n]]
      /\ \A q \in {"tool", "args", "actor", "session"} \ {part} : s[q] = r[q]
  BY RequestsAssumption DEF LeavingOut
<1>2. s.tool = r.tool
  BY <1>1
<1>3. ASSUME NEW q \in {"args", "actor", "session"}, NEW n \in DOMAIN s[q]
      PROVE  n \in DOMAIN r[q] /\ s[q][n] = r[q][n]
  <2>1. CASE q = part
    BY <1>1, <1>3, <2>1
  <2>2. CASE q # part
    <3>1. s[q] = r[q]
      BY <1>1, <2>2
    <3>. QED  BY <1>3, <3>1
  <2>. QED  BY <2>1, <2>2
<1>4. ASSUME NEW k \in DOMAIN ContactKeys
      PROVE  ContactKeys[k] \in DOMAIN s.args <=> ContactKeys[k] \in DOMAIN r.args
  <2>1. ContactKeys[k] # name
    BY DEF ToSet
  <2>2. CASE part = "args"
    <3>1. DOMAIN s.args = DOMAIN r.args \ {name}
      BY <1>1, <2>2
    <3>. QED  BY <2>1, <3>1
  <2>3. CASE part # "args"
    <3>1. s.args = r.args
      BY <1>1, <2>3
    <3>. QED  BY <3>1
  <2>. QED  BY <2>2, <2>3
<1>. QED  BY <1>2, <1>3, <1>4 DEF SaysLess

(* A condition that holds of the one who says less holds of the other.     *)
LEMMA ConditionsSayLess ==
  ASSUME NEW s, NEW r, SaysLess(s, r), NEW conditions,
         \A c \in conditions : c.path[1] \in {"args", "actor", "session"},
         MatchesAny(conditions, s)
  PROVE  MatchesAny(conditions, r)
<1>1. PICK c \in conditions : eval_condition(c, s)
  BY DEF MatchesAny
<1>2. c.path[2] \in DOMAIN s[c.path[1]]
  BY <1>1 DEF eval_condition, Found
<1>3. c.path[2] \in DOMAIN r[c.path[1]] /\ s[c.path[1]][c.path[2]] = r[c.path[1]][c.path[2]]
  BY <1>2 DEF SaysLess
<1>4. eval_condition(c, r)
  BY <1>1, <1>3 DEF eval_condition, Found
<1>. QED  BY <1>4 DEF MatchesAny

(* The first contact is the same, and so is what is said of it.            *)
LEMMA ContactsSayLess ==
  ASSUME NEW s, NEW r, SaysLess(s, r), NEW domains, SendsToBlocked(domains, s.args)
  PROVE  SendsToBlocked(domains, r.args)
<1>1. \A i \in DOMAIN ContactKeys :
        /\ IsContact(ContactKeys[i], s.args) <=> IsContact(ContactKeys[i], r.args)
        /\ IsContact(ContactKeys[i], s.args) =>
             s.args[ContactKeys[i]] = r.args[ContactKeys[i]]
  BY DEF SaysLess, IsContact
<1>2. PICK i \in DOMAIN ContactKeys :
        /\ IsContact(ContactKeys[i], s.args)
        /\ \A j \in 1..(i - 1) : ~IsContact(ContactKeys[j], s.args)
        /\ DomainOf(s.args[ContactKeys[i]]) \cap domains # {}
  BY DEF SendsToBlocked
<1>3. \A j \in 1..(i - 1) : j \in DOMAIN ContactKeys
  BY DEF ContactKeys
<1>. QED  BY <1>1, <1>2, <1>3 DEF SendsToBlocked

LEMMA AttachmentsSayLess ==
  ASSUME NEW s, NEW r, SaysLess(s, r), HasAttachments(s.args)
  PROVE  HasAttachments(r.args)
BY DEF SaysLess, HasAttachments

(* So a clause that applies to the one applies to the other.               *)
LEMMA ClausesSayLess ==
  ASSUME NEW p, IsPolicy(p), NEW s, NEW r, SaysLess(s, r),
         NEW i \in 1..6, Applies(ClauseOrder[i], p, s)
  PROVE  Applies(ClauseOrder[i], p, r)
<1>1. CASE i = 1
  <2>1. ClauseOrder[i] = "block_if"
    BY <1>1 DEF ClauseOrder
  <2>2. MatchesAny(p.block_if, s)
    BY <2>1 DEF Applies
  <2>3. MatchesAny(p.block_if, r)
    BY <2>2, ConditionsSayLess DEF IsPolicy
  <2>. QED  BY <2>1, <2>3 DEF Applies
<1>2. CASE i = 2
  <2>1. ClauseOrder[i] = "block_external_domains"
    BY <1>2 DEF ClauseOrder
  <2>2. SendsToBlocked(p.block_external_domains, s.args)
    BY <2>1 DEF Applies
  <2>3. SendsToBlocked(p.block_external_domains, r.args)
    BY <2>2, ContactsSayLess
  <2>. QED  BY <2>1, <2>3 DEF Applies
<1>3. CASE i = 3
  <2>1. ClauseOrder[i] = "require_approval"
    BY <1>3 DEF ClauseOrder
  <2>. QED  BY <2>1 DEF Applies
<1>4. CASE i = 4
  <2>1. ClauseOrder[i] = "require_approval_if"
    BY <1>4 DEF ClauseOrder
  <2>2. MatchesAny(p.require_approval_if, s)
    BY <2>1 DEF Applies
  <2>3. MatchesAny(p.require_approval_if, r)
    BY <2>2, ConditionsSayLess DEF IsPolicy
  <2>. QED  BY <2>1, <2>3 DEF Applies
<1>5. CASE i = 5
  <2>1. ClauseOrder[i] = "require_approval_for_attachments"
    BY <1>5 DEF ClauseOrder
  <2>2. p.require_approval_for_attachments /\ HasAttachments(s.args)
    BY <2>1 DEF Applies
  <2>. QED  BY <2>1, <2>2, AttachmentsSayLess DEF Applies
<1>6. CASE i = 6
  <2>1. ClauseOrder[i] = "log"
    BY <1>6 DEF ClauseOrder
  <2>. QED  BY <2>1 DEF Applies
<1>. QED  BY <1>1, <1>2, <1>3, <1>4, <1>5, <1>6

(* Leaving a value out never makes the policy stricter, whatever the       *)
(* policies and the values are: conditions fail open.                      *)
THEOREM MissingFailsOpen == Spec => []MissingNeverStricter
<1>1. Provenance => MissingNeverStricter
  <2>. SUFFICES ASSUME Provenance, NEW part \in {"args", "actor"},
                       NEW name \in DOMAIN request[part] \ ToSet(ContactKeys),
                       EvaluatePolicy(LeavingOut(request, part, name)).decision # "none"
                PROVE  /\ policy.decision # "none"
                       /\ Rank(EvaluatePolicy(LeavingOut(request, part, name)).decision)
                            <= Rank(policy.decision)
    BY DEF MissingNeverStricter
  <2>. DEFINE s == LeavingOut(request, part, name)
              p == tools[request.tool]
  <2>1. SaysLess(s, request)
    BY LeavingOutSaysLess DEF Provenance
  <2>. HIDE DEF s
  <2>2. /\ s.tool = request.tool /\ request.tool \in DOMAIN tools
        /\ EvaluatePolicy(s) = Evaluate(p, s)
    <3>1. NoPolicy.decision = "none"
      BY DEF NoPolicy
    <3>2. s.tool = request.tool
      BY <2>1 DEF SaysLess
    <3>3. EvaluatePolicy(s).decision # "none"
      BY DEF s
    <3>. QED  BY <3>1, <3>2, <3>3 DEF EvaluatePolicy
  <2>3. PICK i \in 1..6 : Applies(ClauseOrder[i], p, s)
    <3>1. NoPolicy.decision = "none"
      BY DEF NoPolicy
    <3>2. EvaluatePolicy(s).decision # "none"
      BY DEF s
    <3>. HIDE DEF p
    <3>. QED  BY <2>2, <3>1, <3>2, EvaluateWithoutClause
  <2>4. PICK k \in 1..6 : Answers(k, p, s) /\ Evaluate(p, s) = PolicyAnswer(ClauseOrder[k], p)
    BY <2>3, FirstClauseAnswers
  <2>5. Applies(ClauseOrder[k], p, request)
    <3>1. IsPolicy(p)
      BY <2>2, PoliciesAssumption
    <3>2. Applies(ClauseOrder[k], p, s)
      BY <2>4 DEF Answers
    <3>. HIDE DEF p
    <3>. QED  BY <2>1, <3>1, <3>2, ClausesSayLess
  <2>6. PICK m \in 1..6 : m <= k /\ policy = PolicyAnswer(ClauseOrder[m], p)
    <3>1. policy = Evaluate(p, request)
      BY <2>2 DEF Provenance, EvaluatePolicy
    <3>. HIDE DEF p
    <3>. QED  BY <2>5, <3>1, FirstClauseAnswers
  <2>7. /\ policy.decision = ClauseDecision(ClauseOrder[m])
        /\ EvaluatePolicy(s).decision = ClauseDecision(ClauseOrder[k])
    <3>1. policy.decision = ClauseDecision(ClauseOrder[m])
      BY <2>6 DEF PolicyAnswer
    <3>2. PolicyAnswer(ClauseOrder[k], p).decision = ClauseDecision(ClauseOrder[k])
      BY DEF PolicyAnswer
    <3>. HIDE DEF p
    <3>. QED  BY <2>2, <2>4, <3>1, <3>2
  <2>8. policy.decision # "none"
    BY <2>7, ClauseStrength DEF Decisions
  <2>9. Rank(EvaluatePolicy(s).decision) <= Rank(policy.decision)
    <3>1. Rank(ClauseDecision(ClauseOrder[m])) >= Rank(ClauseDecision(ClauseOrder[k]))
      BY <2>6, ClauseStrength
    <3>2. \A d \in Decisions : Rank(d) \in 0..3
      BY DEF Rank, Decisions
    <3>3. /\ Rank(ClauseDecision(ClauseOrder[m])) \in 0..3
          /\ Rank(ClauseDecision(ClauseOrder[k])) \in 0..3
      BY <3>2, ClauseStrength
    <3>. QED  BY <2>7, <3>1, <3>3
  <2>. QED  BY <2>8, <2>9 DEF s
<1>. QED  BY <1>1, ProvenanceInvariant, PTL
-----------------------------------------------------------------------------
LEMMA TriesAgreed == Agreed(Tries)
BY TriesAssumption, PacksConsistentAssumption DEF Agreed, PacksConsistent


(* The matches found come from the tries, and the decision from them.      *)
FoundOK ==
  /\ tried \in Nat
  /\ scanned \in Seq(Tries)
  /\ structured \in Seq(Tries)
  /\ decided = DecisionOn(scanned, structured, policy)

LEMMA FoundInvariant == Spec => []FoundOK
<1>1. Init => FoundOK
  <2>1. << >> \in Seq(Tries)
    BY EmptySeq
  <2>. QED  BY <2>1 DEF Init, FoundOK
<1>2. FoundOK /\ [Next]_vars => FoundOK'
  <2>. SUFFICES ASSUME FoundOK, [Next]_vars PROVE FoundOK'
    OBVIOUS
  <2>1. CASE TryText
    <3>1. tried + 1 \in Nat /\ tried + 1 \in 1..Len(TextTries)
      BY <2>1, TriesAssumption DEF TryText, FoundOK
    <3>2. TextTries[tried + 1] \in Tries
      BY <3>1, TriesAssumption, ElementOfSeq
    <3>3. scanned' \in {scanned, Append(scanned, TextTries[tried + 1])}
      BY <2>1 DEF TryText
    <3>4. scanned' \in Seq(Tries)
      BY <3>2, <3>3, AppendProperties DEF FoundOK
    <3>. QED  BY <2>1, <3>1, <3>4 DEF TryText, FoundOK
  <2>2. CASE TryStructure
    <3>. DEFINE k == tried - Len(TextTries) + 1
    <3>1. tried + 1 \in Nat /\ k \in 1..Len(StructuralTries)
      <4>1. Len(TextTries) \in Nat /\ Len(StructuralTries) \in Nat
        BY TriesAssumption
      <4>. QED  BY <2>2, <4>1 DEF TryStructure, FoundOK
    <3>. HIDE DEF k
    <3>2. StructuralTries[k] \in Tries
      BY <3>1, TriesAssumption, ElementOfSeq
    <3>3. structured' \in {structured, Append(structured, StructuralTries[k])}
      BY <2>2 DEF TryStructure, k
    <3>4. structured' \in Seq(Tries)
      BY <3>2, <3>3, AppendProperties DEF FoundOK
    <3>. QED  BY <2>2, <3>1, <3>4 DEF TryStructure, FoundOK
  <2>3. CASE UNCHANGED vars
    BY <2>3 DEF vars, FoundOK
  <2>. QED  BY <2>1, <2>2, <2>3 DEF Next
<1>. QED  BY <1>1, <1>2, PTL DEF Spec

(* No vote is lost, whatever rules there are and whatever they match, as   *)
(* long as the packs are consistent.                                       *)
THEOREM VotesKept == Spec => []NoVoteLost
<1>1. FoundOK => NoVoteLost
  BY TriesAgreed, DecisionKeepsVotes DEF FoundOK, NoVoteLost
<1>. QED  BY <1>1, FoundInvariant, PTL

(* One more match never weakens the decision and never lowers its risk,    *)
(* whatever the rules are, as long as the packs are consistent.            *)
THEOREM MoreEvidenceHolds == Spec => MoreEvidenceNeverWeakens
<1>1. FoundOK /\ FoundOK' /\ [Next]_vars =>
        [ /\ Rank(decided'.decision) >= Rank(decided.decision)
          /\ decided'.risk >= decided.risk ]_vars
  <2>. SUFFICES ASSUME FoundOK, FoundOK', Next
                PROVE  /\ Rank(decided'.decision) >= Rank(decided.decision)
                       /\ decided'.risk >= decided.risk
    OBVIOUS
  <2>1. /\ scanned \in Seq(Tries) /\ structured \in Seq(Tries)
        /\ scanned' \in Seq(Tries) /\ structured' \in Seq(Tries)
        /\ decided = DecisionOn(scanned, structured, policy)
        /\ decided' = DecisionOn(scanned', structured', policy')
    BY DEF FoundOK
  <2>2. policy' = policy
    BY DEF Next, TryText, TryStructure
  <2>3. \A list \in Seq(Tries), m \in Tries : ToSet(list) \subseteq ToSet(Append(list, m))
    BY AppendProperties DEF ToSet
  <2>4. ToSet(scanned) \subseteq ToSet(scanned') /\ ToSet(structured) \subseteq ToSet(structured')
    <3>1. CASE TryText
      <4>1. structured' = structured
        BY <3>1 DEF TryText
      <4>2. tried + 1 \in 1..Len(TextTries)
        BY <3>1, TriesAssumption DEF TryText, FoundOK
      <4>3. TextTries[tried + 1] \in Tries
        BY <4>2, TriesAssumption, ElementOfSeq
      <4>. QED  BY <2>1, <2>3, <3>1, <4>1, <4>3 DEF TryText
    <3>2. CASE TryStructure
      <4>. DEFINE k == tried - Len(TextTries) + 1
      <4>1. scanned' = scanned /\ structured' \in {structured, Append(structured, StructuralTries[k])}
        BY <3>2 DEF TryStructure
      <4>2. k \in 1..Len(StructuralTries)
        <5>1. Len(TextTries) \in Nat /\ Len(StructuralTries) \in Nat
          BY TriesAssumption
        <5>. QED  BY <3>2, <5>1 DEF TryStructure, FoundOK
      <4>. HIDE DEF k
      <4>3. StructuralTries[k] \in Tries
        BY <4>2, TriesAssumption, ElementOfSeq
      <4>. QED  BY <2>1, <2>3, <4>1, <4>3
    <3>. QED  BY <3>1, <3>2 DEF Next
  <2>5. ToSet(scanned) \cup ToSet(structured) \subseteq ToSet(scanned') \cup ToSet(structured')
    BY <2>4
  <2>. QED  BY <2>1, <2>2, <2>5, TriesAgreed, DecisionGrows
<1>. QED  BY <1>1, FoundInvariant, PTL DEF Spec, MoreEvidenceNeverWeakens
=============================================================================
