------------------------- MODULE TrajectoryUpgrade --------------------------
(***************************************************************************)
(* The stateful half of FirewallEngine._run_pipeline: CERBER scores the    *)
(* preliminary decision of each call of a session and the pipeline         *)
(* upgrades what it lets through while the session's risk is high.  The    *)
(* caller passes each result's updated_session_context to the next call.   *)
(***************************************************************************)
EXTENDS DecisionEngine, SessionRisk

CONSTANTS Calls,      \* what scoring sees of a request, see IsCall
          MaxCalls    \* bound on the number of calls, for model checking

CERBER_UPGRADE_THRESHOLD == 7500
ELEVATED_RISK_LOG_ONLY_THRESHOLD == 6500

(* A preliminary decision, whether the tool is a sensitive one, and the    *)
(* flags of the session detectors that fire on the call.                   *)
IsCall(call) ==
  /\ call.prelim.decision \in Decisions
  /\ call.prelim.risk \in 0..100
  /\ call.prelim.decision = "allow" => call.prelim.risk = 0
  /\ call.prelim.codes \in Seq(STRING) /\ Distinct(call.prelim.codes)
  /\ call.sensitive \in BOOLEAN
  /\ call.fired \subseteq DetectorFlags

ASSUME CallsAssumption == \A call \in Calls : IsCall(call)
ASSUME MaxCallsAssumption == MaxCalls \in Nat

VARIABLES preliminary,  \* the preliminary decision of the last call
          fired,        \* the detector flags of the last call
          result,       \* the FirewallResult of the last call
          calm          \* history: calm calls since the last other one

vars == << sessionVars, reported, preliminary, fired, result, calm >>
-----------------------------------------------------------------------------
Larger(m, n) == IF m > n THEN m ELSE n

ResultRisk(prelim, trajectory) == Larger(100 * prelim.risk, trajectory)

(* Mutant: the upgrade's threshold is used for the log.                    *)
ElevatedLate(prelim, trajectory) ==
  prelim.decision = "allow" /\ ResultRisk(prelim, trajectory) >= CERBER_UPGRADE_THRESHOLD

Elevated(prelim, trajectory) ==
  /\ prelim.decision = "allow"
  /\ ResultRisk(prelim, trajectory) >= ELEVATED_RISK_LOG_ONLY_THRESHOLD

(* Mutant: only an allow is upgraded.                                      *)
UpgradedAllowOnly(prelim, trajectory) ==
  prelim.decision = "allow" /\ trajectory >= CERBER_UPGRADE_THRESHOLD

Upgraded(prelim, trajectory) ==
  /\ prelim.decision \in {"allow", "log_only"}
  /\ trajectory >= CERBER_UPGRADE_THRESHOLD

(* The upgrade after CERBER.  An elevated risk is logged, a high one needs *)
(* approval; what the preliminary decision stopped stays stopped.          *)
FinalDecision(prelim, trajectory) ==
  IF Upgraded(prelim, trajectory) THEN "require_approval"
  ELSE IF Elevated(prelim, trajectory) THEN "log_only"
  ELSE prelim.decision

AddedCodes(prelim, trajectory) ==
  (IF Elevated(prelim, trajectory) THEN {"elevated_session_risk"} ELSE {})
    \cup (IF Upgraded(prelim, trajectory) THEN {"rising_session_risk"} ELSE {})

(* A call is calm when nothing is held against it: the rules and the       *)
(* policy allow it and no session detector fires.                          *)
IsCalm(prelim, flags) == prelim.decision = "allow" /\ flags = {}

ScoreAndUpgrade(call) ==
  /\ velocity_1m < MaxCalls
  /\ Score(call.prelim, call.sensitive, call.fired)
  /\ preliminary' = call.prelim
  /\ fired' = call.fired
  /\ result' =
       [decision |-> FinalDecision(call.prelim, rolling_risk_score'),
        risk     |-> ResultRisk(call.prelim, rolling_risk_score'),
        codes    |-> ToSet(call.prelim.codes) \cup reported'
                       \cup AddedCodes(call.prelim, rolling_risk_score')]
  /\ calm' = IF IsCalm(call.prelim, call.fired) THEN calm + 1 ELSE 0

Init ==
  /\ SessionInit
  /\ preliminary = [decision |-> "allow", risk |-> 0, codes |-> << >>]
  /\ fired = {}
  /\ result = [decision |-> "allow", risk |-> 0, codes |-> {}]
  /\ calm = 0

Next == \E call \in Calls : ScoreAndUpgrade(call)

Spec == Init /\ [][Next]_vars
-----------------------------------------------------------------------------
TypeOK ==
  /\ rolling_risk_score \in 0..RiskScale
  /\ risk_trend \in {"rising", "falling", "stable"}
  /\ blocked_count_10m \in 0..velocity_1m
  /\ sensitive_actions_10m \in 0..velocity_1m
  /\ velocity_1m \in 0..MaxCalls
  /\ fired \subseteq DetectorFlags
  /\ preliminary.decision \in Decisions
  /\ preliminary.risk \in 0..100
  /\ result.decision \in Decisions
  /\ result.risk \in 0..RiskScale
  /\ calm \in 0..velocity_1m

(* A detector that fires is never waved through: every one of them but the *)
(* hijack chain puts a floor under the risk that forces an approval.       *)
SignalEscalates ==
  fired \ {"mcp_chain_hit"} # {} => Rank(result.decision) >= Rank("require_approval")

(* test_no_allow_with_risk_above_threshold: an allowed action never        *)
(* carries a risk at or above the log-only threshold.                      *)
NoAllowAboveThreshold ==
  result.decision = "allow" => result.risk < ELEVATED_RISK_LOG_ONLY_THRESHOLD

(* A session recovers: whatever happened in it, from the third calm call   *)
(* in a row on, no call is held for approval because of the session.  The  *)
(* counters, the velocity and the remembered codes alone can then not      *)
(* stop the agent.                                                         *)
CalmRecovers ==
  calm >= 3 => Rank(result.decision) < Rank("require_approval")

(* A calm call never takes the risk above what the counters, the velocity  *)
(* and the remembered codes weigh together (0.65), and otherwise lowers it.*)
CalmNeverRaises ==
  [][calm' > 0 => rolling_risk_score' <= Larger(rolling_risk_score, 6500)]_vars
=============================================================================
