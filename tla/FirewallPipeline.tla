-------------------------- MODULE FirewallPipeline --------------------------
(***************************************************************************)
(* FirewallEngine._run_pipeline from the raw matches on: the text matches  *)
(* and the structural ones are deduplicated and merged, the policy's       *)
(* answer and the matches give the preliminary decision, which is what     *)
(* TrajectoryUpgrade scores and upgrades.                                  *)
(***************************************************************************)
EXTENDS RulesEngine, TrajectoryUpgrade

CONSTANT Requests   \* the requests of the environment, see IsRequest

Matches ==
  [rule : RuleIds, field : STRING, severity : {"low", "medium", "high", "critical"},
   hint : Decisions, risk : 0..100, codes : Seq(STRING)]

PolicyAnswers ==
  [decision : Decisions \cup {"none"}, level : STRING, codes : Seq(STRING)]

(* What the layers make of a request before the decision: the raw matches  *)
(* of the text and of the structure, the policy's answer, and the flags of *)
(* the session detectors that fire.                                        *)
IsRequest(req) ==
  /\ req.tool \in BOOLEAN
  /\ req.sensitive \in BOOLEAN
  /\ req.scanned \in Seq(Matches)
  /\ req.structured \in Seq(Matches)
  /\ req.policy \in PolicyAnswers
  /\ req.fired \subseteq DetectorFlags

ASSUME RequestsAssumption == \A req \in Requests : IsRequest(req)

(* Without a tool call there is neither structure nor policy.              *)
Preliminary(req) ==
  IF req.tool
    THEN Decide(MergeMatches(DedupeAndRank(req.scanned), DedupeAndRank(req.structured)),
                req.policy)
    ELSE Decide(DedupeAndRank(req.scanned), NoPolicy)

ScoredCall(req) ==
  [prelim    |-> Preliminary(req),
   sensitive |-> req.tool /\ req.sensitive,
   fired     |-> req.fired]

(* The calls that reach the scorer are those the requests give rise to.    *)
ScoredCalls == { ScoredCall(req) : req \in Requests }

ASSUME ScoredCallsAssumption == Calls = ScoredCalls
=============================================================================
