---------------------------- MODULE EvidenceScan ----------------------------
(***************************************************************************)
(* RulesEngine.scan, scan_tool_call and decide as one loop: the rules are  *)
(* tried one after another, first on the text and then on the structure of *)
(* the call; each try appends its match or nothing.  decided is what the   *)
(* decision engine says of the evidence found so far, so that a step       *)
(* compares the decisions with and without one more match.                 *)
(***************************************************************************)
EXTENDS Evidence, PolicyEngine

CONSTANTS TextTries,        \* the matches the text can give, in scan order
          StructuralTries,  \* the matches the validators can give, in order
          PolicyRequests    \* what the policy sees of a request: tool, args, actor, session

Tries == ToSet(TextTries) \cup ToSet(StructuralTries)

(* No validator has the id of a pack rule.                                 *)
PacksConsistent ==
  /\ Consistent(Tries)
  /\ \A m \in ToSet(TextTries), n \in ToSet(StructuralTries) : m.rule # n.rule

ASSUME TriesAssumption ==
  /\ TextTries \in Seq(Tries) /\ StructuralTries \in Seq(Tries)
  /\ \A m \in Tries : IsMatch(m)

ASSUME PacksConsistentAssumption == PacksConsistent

ASSUME RequestsAssumption ==
  \A r \in PolicyRequests : DOMAIN r = {"tool", "args", "actor", "session"}

VARIABLES tried,       \* how many of the tries were made
          scanned,     \* the text matches so far
          structured,  \* the structural matches so far
          request,     \* what the policy sees
          policy,      \* the policy's answer
          decided      \* the decision on them

vars == << tried, scanned, structured, request, policy, decided >>

TryText ==
  /\ tried < Len(TextTries)
  /\ tried' = tried + 1
  /\ scanned' \in {scanned, Append(scanned, TextTries[tried + 1])}
  /\ UNCHANGED << structured, request, policy >>
  /\ decided' = DecisionOn(scanned', structured, policy)

TryStructure ==
  /\ tried >= Len(TextTries)
  /\ tried < Len(TextTries) + Len(StructuralTries)
  /\ tried' = tried + 1
  /\ structured' \in {structured,
                      Append(structured, StructuralTries[tried - Len(TextTries) + 1])}
  /\ UNCHANGED << scanned, request, policy >>
  /\ decided' = DecisionOn(scanned, structured', policy)

Init ==
  /\ tried = 0
  /\ scanned = << >>
  /\ structured = << >>
  /\ request \in PolicyRequests
  /\ policy = EvaluatePolicy(request)
  /\ decided = DecisionOn(<< >>, << >>, policy)

Next == TryText \/ TryStructure

Spec == Init /\ [][Next]_vars
-----------------------------------------------------------------------------
(* No vote is lost on the way through deduplication, soft suppression,     *)
(* merge and cascade: the decision is at least as strong as what every raw *)
(* match asks for.                                                         *)
NoVoteLost ==
  \A m \in ToSet(scanned) \cup ToSet(structured) :
    Rank(decided.decision) >= Rank(Vote(m))

(* Nor is a clause of the policy overruled, by another clause or by the    *)
(* rules: the decision is at least as strong as what every clause that     *)
(* applies asks for.                                                       *)
NoClauseOverruled ==
  request.tool \in DOMAIN tools =>
    \A i \in DOMAIN ClauseOrder :
      Applies(ClauseOrder[i], tools[request.tool], request) =>
        Rank(decided.decision) >= Rank(ClauseDecision(ClauseOrder[i]))

(* The call without one of the values it carried.                         *)
LeavingOut(r, part, name) ==
  [r EXCEPT ![part] = [n \in DOMAIN r[part] \ {name} |-> r[part][n]]]

(* The "fail-open behavior" of conditions: a call that does not say who    *)
(* acts, or leaves out an argument that is no contact, is never treated    *)
(* more strictly by the policy than the same call that says so.            *)
MissingNeverStricter ==
  \A part \in {"args", "actor"} :
    \A name \in DOMAIN request[part] \ ToSet(ContactKeys) :
      LET left == EvaluatePolicy(LeavingOut(request, part, name)).decision
      IN  left # "none" => policy.decision # "none" /\ Rank(left) <= Rank(policy.decision)

(* One more match never weakens the decision and never lowers its risk.    *)
MoreEvidenceNeverWeakens ==
  [][ /\ Rank(decided'.decision) >= Rank(decided.decision)
      /\ decided'.risk >= decided.risk ]_vars

(* docs/REASON_CODES.md: "Policy reason codes ... should not replace more  *)
(* specific rule/validator reason codes": those the rules alone would give *)
(* are there with the policy too.                                          *)
PolicyKeepsRuleCodes ==
  decided.decision # "allow" =>
    ToSet(DecisionOn(scanned, structured, NoPolicy).codes) \subseteq ToSet(decided.codes)
=============================================================================
