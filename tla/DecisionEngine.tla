--------------------------- MODULE DecisionEngine ---------------------------
(***************************************************************************)
(* DecisionEngine.decide: the preliminary decision on an action, from the  *)
(* matched rules and the policy's answer.                                  *)
(*                                                                         *)
(* A policy answer is [decision, level, codes]; decision is "none" when no *)
(* clause of the policy applies, and NoPolicy stands for a request without *)
(* a tool call, whose policy is not consulted.  Risks are in percent.      *)
(***************************************************************************)
EXTENDS SessionLists, FiniteSets

CONSTANT MaxReasonCodes   \* the cap on a decision's reason codes (10)

ASSUME MaxReasonCodesAssumption == MaxReasonCodes \in Nat \ {0}

Decisions == {"allow", "log_only", "require_approval", "block"}

Rank(decision) ==
  CASE decision = "allow"            -> 0
    [] decision = "log_only"         -> 1
    [] decision = "require_approval" -> 2
    [] decision = "block"            -> 3

NoPolicy == [decision |-> "none", level |-> "none", codes |-> << >>]

POLICY_RISK_MAP(level) ==
  CASE level = "critical" -> 95
    [] level = "high"     -> 80
    [] level = "medium"   -> 55
    [] level = "low"      -> 20
    [] OTHER              -> 0     \* no level, or one the map does not know

(* max(policy_risk, max_rule_risk): no evidence is risk 0.                 *)
EvidenceRisk(matches, policy) ==
  LET risks == { matches[i].risk : i \in DOMAIN matches }
                 \cup {POLICY_RISK_MAP(policy.level)}
  IN  CHOOSE r \in risks : \A s \in risks : r >= s

ReasonCodes(matches, policy) ==
  LET codes == Dedupe(policy.codes
                 \o FlattenSeq([i \in DOMAIN matches |-> matches[i].codes]))
  IN  SubSeq(codes, 1, IF Len(codes) > MaxReasonCodes THEN MaxReasonCodes
                                                      ELSE Len(codes))

(* The cascade of decide(): the first test that holds settles it.          *)
Verdict(matches, policy) ==
  LET Some(Test(_)) == \E i \in DOMAIN matches : Test(matches[i])
  IN  IF \/ policy.decision = "block"
         \/ Some(LAMBDA m : m.hint = "block" /\ m.severity \in {"high", "critical"})
        THEN "block"
      ELSE IF \/ policy.decision = "require_approval"
              \/ Some(LAMBDA m : m.hint = "require_approval" \/ m.severity = "medium")
        THEN "require_approval"
      ELSE IF \/ policy.decision = "log_only"
              \/ Some(LAMBDA m : m.hint = "log_only" \/ m.severity = "low")
        THEN "log_only"
      ELSE "allow"

(* An allow forgets the evidence: risk 0 and no reason codes.              *)
Decide(matches, policy) ==
  LET verdict == Verdict(matches, policy)
  IN  [decision |-> verdict,
       risk     |-> IF verdict = "allow" THEN 0 ELSE EvidenceRisk(matches, policy),
       codes    |-> IF verdict = "allow" THEN << >> ELSE ReasonCodes(matches, policy)]
=============================================================================
