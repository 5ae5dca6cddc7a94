---------------------------- MODULE SessionRisk -----------------------------
(***************************************************************************)
(* The arithmetic core of CERBERScorer.score: the session's counters, the  *)
(* recent reason codes, and the rolling risk computed from them and from   *)
(* the detectors that fired on the call.  The detectors themselves are     *)
(* modules of their own; here a call comes with the set of their flags.    *)
(*                                                                         *)
(* Risks are integers.  The rolling risk has 10000 for 1.0, the code rounds *)
(* it to four decimals; the risk of a decision is in percent, as the rules *)
(* and the policy give it; the instant risk is in units of 1/12000, where  *)
(* every weight and boost of the score is an integer.                      *)
(***************************************************************************)
EXTENDS SessionLists, FiniteSets

CONSTANTS SECURITY_REASON_CODES, LOW_IMPACT_REASON_CODES,
          RECENT_REASON_CODES_LIMIT

ASSUME RecentLimitAssumption == RECENT_REASON_CODES_LIMIT \in Nat \ {0}

VARIABLES rolling_risk_score, risk_trend, blocked_count_10m,
          sensitive_actions_10m, velocity_1m, recent_reason_codes,
          reported            \* the reason codes of the CERBERResult

sessionVars == << rolling_risk_score, risk_trend, blocked_count_10m,
                  sensitive_actions_10m, velocity_1m, recent_reason_codes >>

RiskScale == 10000       \* a rolling risk of 1.0
InstantScale == 12000    \* an instant risk of 1.0

HIGH_VELOCITY_THRESHOLD == 8
SECURITY_RISK_MIN == 50
RISING_DELTA == 2000
FALLING_DELTA == -500
-----------------------------------------------------------------------------
(* The flags of the detectors, and what each adds to the instant risk and  *)
(* the floor it puts under the rolling risk.  Where the code tests two     *)
(* flags with one "or", they share one boost and one floor: Detector maps  *)
(* the second onto the first.                                              *)
Detector(flag) ==
  CASE flag = "reasoning_unsupported_tool_switch"   -> "premise_injection_tool_steering"
    [] flag = "mcp_stream_event_identity_collision" -> "mcp_result_source_mismatch"
    [] flag = "mcp_unbound_tool_result"             -> "mcp_foreign_tool_result_injection"
    [] flag = "memory_authority_escalation"         -> "stale_memory_to_sensitive_action"
    [] flag = "privilege_tier_escalation_via_agent_queue"
                                                    -> "cross_agent_delegation_poisoning"
    [] OTHER                                        -> flag

Hit(fired) == { Detector(flag) : flag \in fired }

Boost3000 == {"mcp_chain_hit"}
Boost3600 == {"security_capability_stripping", "subscription_chain_amplification"}
Boost4200 == {"protocol_version_regression", "intent_locked_tool_scope_violation",
                "premise_injection_tool_steering", "mcp_response_request_mismatch",
                "mcp_jsonrpc_id_reuse"}
Boost4800 == {"stale_or_cross_event_action_context", "goal_hijacking_plan_deviation",
                "synthetic_evidence_to_physical_action", "cross_agent_delegation_poisoning"}
Boost5400 == {"partial_subscription_flood", "payment_verification_bruteforce",
                "tool_oracle_iteration_risk", "poisoned_observation_to_action",
                "mcp_result_source_mismatch", "mcp_foreign_tool_result_injection"}
                 \cup
               {"cross_tool_scope_leakage", "capability_chain_privilege_escalation",
                "cross_protocol_semantic_bridge", "stale_memory_to_sensitive_action"}
Boost6000 == {"notify_after_unsubscribe", "multi_tool_exfiltration_chain"}

Detectors == Boost3000 \cup Boost3600 \cup Boost4200
               \cup Boost4800 \cup Boost5400 \cup Boost6000

DetectorFlags ==
  Detectors \cup {"reasoning_unsupported_tool_switch", "mcp_stream_event_identity_collision",
                  "mcp_unbound_tool_result", "memory_authority_escalation",
                  "privilege_tier_escalation_via_agent_queue"}

(* The boosts add up.                                                      *)
Boost(fired) ==
  3000 * Cardinality(Hit(fired) \cap Boost3000)
    + 3600 * Cardinality(Hit(fired) \cap Boost3600)
    + 4200 * Cardinality(Hit(fired) \cap Boost4200)
    + 4800 * Cardinality(Hit(fired) \cap Boost4800)
    + 5400 * Cardinality(Hit(fired) \cap Boost5400)
    + 6000 * Cardinality(Hit(fired) \cap Boost6000)

(* Every detector but the hijack chain has a floor.                        *)
Floor(detector) ==
  CASE detector \in {"protocol_version_regression", "security_capability_stripping"} -> 7600
    [] detector \in {"poisoned_observation_to_action", "goal_hijacking_plan_deviation"} -> 8000
    [] detector \in {"mcp_result_source_mismatch", "mcp_foreign_tool_result_injection",
                     "cross_tool_scope_leakage", "capability_chain_privilege_escalation",
                     "cross_protocol_semantic_bridge",
                     "synthetic_evidence_to_physical_action",
                     "cross_agent_delegation_poisoning"} -> 8200
    [] detector = "stale_memory_to_sensitive_action" -> 8400
    [] detector = "multi_tool_exfiltration_chain" -> 8600
    [] OTHER -> 7800

Floors(fired) == { Floor(detector) : detector \in Hit(fired) \ {"mcp_chain_hit"} }
-----------------------------------------------------------------------------
AtMost(n, limit) == IF n > limit THEN limit ELSE n
DecrementBelowZero(n) == n - 1     \* mutant: max(0, ...) forgotten
DecrementToZero(n) == 0            \* mutant: one other call resets the counter
Decrement(n) == IF n > 0 THEN n - 1 ELSE 0

(* The codes that are not of low impact and not on the list yet.           *)
NewCodes(codes, list) ==
  Those(codes, ToSet(codes) \ (LOW_IMPACT_REASON_CODES \cup ToSet(list)))

(* Mutant: the memory keeps its oldest codes.                              *)
MergeKeepOldest(previous, current) ==
  LET all == previous \o NewCodes(current, previous)
  IN  SubSeq(all, 1, AtMost(Len(all), RECENT_REASON_CODES_LIMIT))

(* Codes already remembered keep their place; only new ones are appended.  *)
MergeRecentReasonCodes(previous, current) ==
  LET merged == Those(previous, ToSet(previous) \ LOW_IMPACT_REASON_CODES)
  IN  LastN(merged \o NewCodes(current, merged), RECENT_REASON_CODES_LIMIT)

SecurityHit(codes) == \E i \in DOMAIN codes : codes[i] \in SECURITY_REASON_CODES

(* The weighted sum before the boosts.                                     *)
BaseRisk(decisionRisk, blocked, sensitiveActions, velocity, recentInjection) ==
  42 * decisionRisk
    + 800 * AtMost(blocked, 3)
    + 800 * AtMost(sensitiveActions, 3)
    + 225 * AtMost(velocity, HIGH_VELOCITY_THRESHOLD)
    + (IF recentInjection THEN 1200 ELSE 0)

(* Mutant: the risk only ever goes up.                                     *)
SmoothedRatchet(previous, instant) ==
  LET smoothed == (9 * previous + 5 * instant + 7) \div 15
  IN  IF smoothed > previous THEN smoothed ELSE previous

(* Mutant: the previous risk keeps its full weight.                        *)
SmoothedAdds(previous, instant) == AtMost(previous + instant \div 3, RiskScale)

(* 0.6 of the previous risk and 0.4 of the instant one, rounded to four    *)
(* decimals: a fifteenth is never half way, so rounding is unambiguous.    *)
Smoothed(previous, instant) == (9 * previous + 5 * instant + 7) \div 15

(* The floors lift the smoothed risk: the largest of them all.             *)
RollingRisks(previous, instant, fired) ==
  LET candidates == {Smoothed(previous, instant)} \cup Floors(fired)
  IN  { risk \in candidates : \A f \in candidates : risk >= f }

(* On a threshold the binary fractions decide, so both answers are there.  *)
Trends(delta) ==
  { trend \in {"rising", "falling", "stable"} :
      /\ trend = "rising"  => delta >= RISING_DELTA
      /\ trend = "falling" => delta <= FALLING_DELTA
      /\ trend = "stable"  => delta \in FALLING_DELTA..RISING_DELTA }
-----------------------------------------------------------------------------
(* The codes the scorer reports, in the order-free form the result needs.  *)
ReportedCodes(prelim, fired, recentInjection) ==
  UNION {
    IF risk_trend' = "rising" /\ prelim.risk >= SECURITY_RISK_MIN /\ SecurityHit(prelim.codes)
      THEN {"rising_session_risk"} ELSE {},
    IF blocked_count_10m' >= 2 THEN {"repeated_blocked_attempts"} ELSE {},
    IF sensitive_actions_10m' >= 2 /\ recentInjection
      THEN {"sensitive_tool_sequence"} ELSE {},
    IF velocity_1m' >= HIGH_VELOCITY_THRESHOLD THEN {"high_velocity"} ELSE {},
    IF recentInjection /\ SecurityHit(prelim.codes)
      THEN {"recent_prompt_injection"} ELSE {},
    IF "mcp_chain_hit" \in fired THEN {"session_hijack_sequence"} ELSE {},
    IF "protocol_version_regression" \in fired
      THEN {"mcp_protocol.version_downgrade_sequence"} ELSE {},
    IF fired \ {"protocol_version_regression"} # {}
      THEN {"rising_session_risk"} ELSE {},
    fired \ {"mcp_chain_hit"} }

(* One call of score: prelim is the preliminary decision, sensitive says   *)
(* whether the tool is one of SENSITIVE_TOOLS, fired the detectors' flags. *)
Score(prelim, sensitive, fired) ==
  /\ velocity_1m' = velocity_1m + 1
  /\ blocked_count_10m' = IF prelim.decision = "block"
                            THEN blocked_count_10m + 1
                            ELSE Decrement(blocked_count_10m)
  /\ sensitive_actions_10m' = IF sensitive THEN sensitive_actions_10m + 1
                                           ELSE Decrement(sensitive_actions_10m)
  /\ recent_reason_codes' = MergeRecentReasonCodes(recent_reason_codes, prelim.codes)
  /\ LET recentInjection == SecurityHit(recent_reason_codes')
         instant == AtMost(BaseRisk(prelim.risk, blocked_count_10m', sensitive_actions_10m',
                                    velocity_1m', recentInjection) + Boost(fired), InstantScale)
     IN  /\ rolling_risk_score' \in RollingRisks(rolling_risk_score, instant, fired)
         /\ risk_trend' \in Trends(rolling_risk_score' - rolling_risk_score)
         /\ reported' = ReportedCodes(prelim, fired, recentInjection)

SessionInit ==
  /\ rolling_risk_score = 0
  /\ risk_trend = "stable"
  /\ blocked_count_10m = 0
  /\ sensitive_actions_10m = 0
  /\ velocity_1m = 0
  /\ recent_reason_codes = << >>
  /\ reported = {}
=============================================================================
