------------------------------- MODULE Evidence -------------------------------
(***************************************************************************)
(* The pipeline's way from the raw matches of a request, those of its text *)
(* and those of its call's structure, to the preliminary decision.         *)
(***************************************************************************)
EXTENDS RulesEngine, DecisionEngine

DecisionOn(texts, structures, answer) ==
  Decide(MergeMatches(DedupeAndRank(texts), DedupeAndRank(structures)), answer)

(* How a match counts in decide(), were it the only one.                   *)
Vote(m) ==
  IF m.hint = "block" /\ m.severity \in {"high", "critical"} THEN "block"
  ELSE IF m.hint = "require_approval" \/ m.severity = "medium" THEN "require_approval"
  ELSE IF m.hint = "log_only" \/ m.severity = "low" THEN "log_only"
  ELSE "allow"

(* What the packs and the validators keep to: of two matches of one rule   *)
(* the riskier one votes at least as strongly, and a soft rule never votes *)
(* stronger than its base.                                                 *)
Consistent(matches) ==
  \A m, n \in matches :
    /\ m.rule = n.rule /\ m.risk >= n.risk => Rank(Vote(m)) >= Rank(Vote(n))
    /\ m.rule \in DOMAIN SoftBase /\ n.rule = SoftBase[m.rule] =>
         Rank(Vote(m)) <= Rank(Vote(n)) /\ m.risk <= n.risk
=============================================================================
