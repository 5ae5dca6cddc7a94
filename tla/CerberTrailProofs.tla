-------------------------- MODULE CerberTrailProofs ---------------------------
(***************************************************************************)
(* The risk of a session; its counters and remembered codes against the    *)
(* calls they stand for; and the detectors that keep one value or one list *)
(* of values for all a session has seen, against the whole trail of calls: *)
(* for any calls, any catalogue, any number of calls and any limits.       *)
(***************************************************************************)
EXTENDS CerberTrail, SessionStoreProofs

(* The detectors are finitely many, so counting them is counting.          *)
LEMMA SmallSetsFinite ==
  ASSUME NEW a, NEW b, NEW c, NEW d, NEW e, NEW f
  PROVE  /\ IsFiniteSet({a})
         /\ IsFiniteSet({a, b})
         /\ IsFiniteSet({a, b, c, d})
         /\ IsFiniteSet({a, b, c, d, e})
         /\ IsFiniteSet({a, b, c, d, e, f})
<1>1. IsFiniteSet({a})
  BY FS_Singleton
<1>2. IsFiniteSet({a, b})
  <2>. {a} \cup {b} = {a, b}
    OBVIOUS
  <2>. QED  BY <1>1, FS_AddElement
<1>3. IsFiniteSet({a, b, c})
  <2>. {a, b} \cup {c} = {a, b, c}
    OBVIOUS
  <2>. QED  BY <1>2, FS_AddElement
<1>4. IsFiniteSet({a, b, c, d})
  <2>. {a, b, c} \cup {d} = {a, b, c, d}
    OBVIOUS
  <2>. QED  BY <1>3, FS_AddElement
<1>5. IsFiniteSet({a, b, c, d, e})
  <2>. {a, b, c, d} \cup {e} = {a, b, c, d, e}
    OBVIOUS
  <2>. QED  BY <1>4, FS_AddElement
<1>6. IsFiniteSet({a, b, c, d, e, f})
  <2>. {a, b, c, d, e} \cup {f} = {a, b, c, d, e, f}
    OBVIOUS
  <2>. QED  BY <1>5, FS_AddElement
<1>. QED  BY <1>1, <1>2, <1>4, <1>5, <1>6

LEMMA BoostsFinite ==
  /\ IsFiniteSet(Boost3000) /\ IsFiniteSet(Boost3600) /\ IsFiniteSet(Boost4200)
  /\ IsFiniteSet(Boost4800) /\ IsFiniteSet(Boost5400) /\ IsFiniteSet(Boost6000)
<1>1. IsFiniteSet(Boost3000)
  BY SmallSetsFinite, Zenon DEF Boost3000
<1>2. IsFiniteSet(Boost3600)
  BY SmallSetsFinite, Zenon DEF Boost3600
<1>3. IsFiniteSet(Boost6000)
  BY SmallSetsFinite, Zenon DEF Boost6000
<1>4. IsFiniteSet(Boost4200)
  BY SmallSetsFinite, Zenon DEF Boost4200
<1>5. IsFiniteSet(Boost4800)
  BY SmallSetsFinite, Zenon DEF Boost4800
<1>6. IsFiniteSet(Boost5400)
  BY SmallSetsFinite, FS_Union, Zenon DEF Boost5400
<1>. QED  BY <1>1, <1>2, <1>3, <1>4, <1>5, <1>6

(* Whatever fires, the boosts add up to a natural number; nothing fired    *)
(* adds nothing.                                                           *)
LEMMA BoostType ==
  ASSUME NEW flags
  PROVE  Boost(flags) \in Nat
<1>1. ASSUME NEW S, IsFiniteSet(S)
      PROVE  Cardinality(Hit(flags) \cap S) \in Nat
  <2>1. Hit(flags) \cap S \in SUBSET S
    OBVIOUS
  <2>. QED  BY <1>1, <2>1, FS_Subset, FS_CardinalityType
<1>. QED  BY <1>1, BoostsFinite DEF Boost

LEMMA NoHit == Boost({}) = 0 /\ Floors({}) = {}
<1>1. Hit({}) = {}
  BY DEF Hit
<1>2. Cardinality({}) = 0
  BY FS_EmptySet
<1>3. \A S : Cardinality(Hit({}) \cap S) = 0
  <2>. TAKE S
  <2>1. Hit({}) \cap S = {}
    BY <1>1
  <2>. QED  BY <1>2, <2>1
<1>4. Boost({}) = 0
  BY <1>3, SMT DEF Boost
<1>5. Floors({}) = {}
  BY <1>1 DEF Floors
<1>. QED  BY <1>4, <1>5

LEMMA FloorsType ==
  ASSUME NEW flags
  PROVE  Floors(flags) \subseteq 7600..8600
<1>1. \A detector : Floor(detector) \in 7600..8600
  BY DEF Floor
<1>. QED  BY <1>1 DEF Floors

(* Any detector but the hijack chain puts a floor of at least 0.76.        *)
LEMMA SomeFloor ==
  ASSUME NEW flags, flags \ {"mcp_chain_hit"} # {}
  PROVE  Floors(flags) # {}
<1>1. PICK flag \in flags : flag # "mcp_chain_hit"
  OBVIOUS
<1>2. Detector(flag) # "mcp_chain_hit"
  BY <1>1 DEF Detector
<1>3. Detector(flag) \in Hit(flags) \ {"mcp_chain_hit"}
  BY <1>1, <1>2, Zenon DEF Hit
<1>4. Floor(Detector(flag)) \in Floors(flags)
  BY <1>3, Zenon DEF Floors
<1>. QED  BY <1>4
-----------------------------------------------------------------------------
LEMMA SmoothedType ==
  ASSUME NEW previous \in 0..RiskScale, NEW instant \in 0..InstantScale
  PROVE  /\ Smoothed(previous, instant) \in 0..RiskScale
         /\ 15 * Smoothed(previous, instant) <= 9 * previous + 5 * instant + 7
BY SMT DEF Smoothed, RiskScale, InstantScale

(* The rolling risk is above the floor of every detector that fired; when  *)
(* none did, it is the smoothed risk.                                      *)
LEMMA RollingRiskType ==
  ASSUME NEW previous \in 0..RiskScale, NEW instant \in 0..InstantScale, NEW flags,
         NEW risk \in RollingRisks(previous, instant, flags)
  PROVE  /\ risk \in 0..RiskScale
         /\ \A f \in Floors(flags) : risk >= f
         /\ flags = {} => risk = Smoothed(previous, instant)
<1>. DEFINE candidates == {Smoothed(previous, instant)} \cup Floors(flags)
<1>1. risk \in candidates /\ \A f \in candidates : risk >= f
  BY Zenon DEF RollingRisks
<1>2. flags = {} => candidates = {Smoothed(previous, instant)}
  BY NoHit
<1>3. flags = {} => risk = Smoothed(previous, instant)
  BY <1>1, <1>2
<1>4. \A f \in Floors(flags) : risk >= f
  BY <1>1, Zenon
<1>5. risk \in 0..RiskScale
  <2>1. CASE risk = Smoothed(previous, instant)
    BY <2>1, SmoothedType
  <2>2. CASE risk \in Floors(flags)
    <3>1. risk \in 7600..8600
      BY <2>2, FloorsType
    <3>. QED  BY <3>1, SMT DEF RiskScale
  <2>. QED  BY <1>1, <2>1, <2>2
<1>. QED  BY <1>3, <1>4, <1>5, Zenon

(* The weights: nothing but the decision's risk can bring the base risk    *)
(* above 0.65.                                                             *)
CalmCeiling == 7800

LEMMA BaseRiskType ==
  ASSUME NEW risk \in 0..100, NEW b \in Nat, NEW s \in Nat, NEW v \in Nat,
         NEW injection
  PROVE  /\ BaseRisk(risk, b, s, v, injection) \in Nat
         /\ risk = 0 => BaseRisk(risk, b, s, v, injection) <= CalmCeiling
BY SMT DEF CalmCeiling, BaseRisk, AtMost, HIGH_VELOCITY_THRESHOLD
-----------------------------------------------------------------------------
(* The induction: how far one, two, three calm calls bring the risk down.  *)
Calm1 == 8600
Calm2 == 7760
Calm3 == 7256

CalmDecay ==
  /\ calm >= 1 => rolling_risk_score <= Calm1
  /\ calm >= 2 => rolling_risk_score <= Calm2
  /\ calm >= 3 => rolling_risk_score <= Calm3

(* A calm call weighs 0.6 of the risk before it and at most 0.4 of 0.65.   *)
AfterCalm(before, after) == 15 * after <= 9 * before + 39000 + 7

(* The last result is what the last call and the risk after it made it.    *)
Outcome ==
  /\ result.decision = FinalDecision(preliminary, rolling_risk_score)
  /\ result.risk = ResultRisk(preliminary, rolling_risk_score)
  /\ calm >= 1 => IsCalm(preliminary, fired)
  /\ \A f \in Floors(fired) : rolling_risk_score >= f

RiskOK == TypeOK /\ CalmDecay /\ Outcome

LEMMA CalmSmoothed ==
  ASSUME NEW previous \in 0..RiskScale, NEW instant \in 0..InstantScale,
         instant <= CalmCeiling
  PROVE  AfterCalm(previous, Smoothed(previous, instant))
BY SMT DEF AfterCalm, Smoothed, CalmCeiling, RiskScale, InstantScale

(* What one scored call does to the session's risk.                        *)
LEMMA ScoreStep ==
  ASSUME TypeOK, NEW scored, IsCall(scored), ScoreAndUpgrade(scored)
  PROVE  /\ rolling_risk_score' \in 0..RiskScale
         /\ \A f \in Floors(scored.fired) : rolling_risk_score' >= f
         /\ IsCalm(scored.prelim, scored.fired)
              => AfterCalm(rolling_risk_score, rolling_risk_score')
<1>1. IsCall(scored)
  OBVIOUS
<1>2. /\ rolling_risk_score \in 0..RiskScale
      /\ blocked_count_10m \in Nat /\ sensitive_actions_10m \in Nat /\ velocity_1m \in Nat
  BY MaxCallsAssumption, SMT DEF TypeOK
<1>3. blocked_count_10m' \in Nat /\ sensitive_actions_10m' \in Nat /\ velocity_1m' \in Nat
  BY <1>2, SMT DEF ScoreAndUpgrade, Score, Decrement
<1>. DEFINE injection == SecurityHit(recent_reason_codes')
            base == BaseRisk(scored.prelim.risk, blocked_count_10m', sensitive_actions_10m',
                             velocity_1m', injection)
            instant == AtMost(base + Boost(scored.fired), InstantScale)
<1>4. rolling_risk_score' \in RollingRisks(rolling_risk_score, instant, scored.fired)
  BY SMT DEF ScoreAndUpgrade, Score
<1>. HIDE DEF injection
<1>5. base \in Nat /\ (scored.prelim.risk = 0 => base <= CalmCeiling)
  <2>1. scored.prelim.risk \in 0..100
    BY <1>1 DEF IsCall
  <2>. QED  BY <1>3, <2>1, BaseRiskType
<1>. HIDE DEF base
<1>6. Boost(scored.fired) \in Nat /\ (scored.fired = {} => Boost(scored.fired) = 0)
  BY BoostType, NoHit
<1>7. IsCalm(scored.prelim, scored.fired) => scored.prelim.risk = 0 /\ scored.fired = {}
  BY <1>1 DEF IsCalm, IsCall
<1>8. /\ instant \in 0..InstantScale
      /\ scored.prelim.risk = 0 /\ scored.fired = {} => instant <= CalmCeiling
  <2>1. \A m, n \in Nat : AtMost(m, n) \in 0..n /\ AtMost(m, n) <= m
    BY SMT DEF AtMost
  <2>2. InstantScale \in Nat /\ CalmCeiling \in Nat
    BY SMT DEF InstantScale, CalmCeiling
  <2>3. instant \in 0..InstantScale /\ instant <= base + Boost(scored.fired)
    <3>1. base + Boost(scored.fired) \in Nat
      BY <1>5, <1>6, SMT
    <3>. QED  BY <2>1, <2>2, <3>1, Zenon
  <2>. HIDE DEF instant
  <2>. QED  BY <1>5, <1>6, <2>2, <2>3, SMT
<1>. HIDE DEF instant
<1>9. /\ rolling_risk_score' \in 0..RiskScale
      /\ \A f \in Floors(scored.fired) : rolling_risk_score' >= f
      /\ scored.fired = {} => rolling_risk_score' = Smoothed(rolling_risk_score, instant)
  BY <1>2, <1>4, <1>8, RollingRiskType
<1>10. scored.prelim.risk = 0 /\ scored.fired = {}
         => AfterCalm(rolling_risk_score, rolling_risk_score')
  BY <1>2, <1>8, <1>9, CalmSmoothed
<1>. QED  BY <1>7, <1>9, <1>10, SMT
-----------------------------------------------------------------------------
LEMMA InitRisk == Init => RiskOK
<1>. SUFFICES ASSUME Init PROVE RiskOK
  OBVIOUS
<1>1. rolling_risk_score \in 0..RiskScale /\ result.risk \in 0..RiskScale
  BY SMT DEF Init, SessionInit, RiskScale
<1>2. TypeOK
  BY <1>1, MaxCallsAssumption, SMT DEF TypeOK, Init, SessionInit, Decisions
<1>3. CalmDecay
  BY SMT DEF CalmDecay, Init
<1>4. Outcome
  <2>1. \A f \in Floors({}) : rolling_risk_score >= f
    BY NoHit
  <2>2. calm = 0 /\ fired = {}
    BY DEF Init
  <2>3. /\ result.decision = FinalDecision(preliminary, rolling_risk_score)
        /\ result.risk = ResultRisk(preliminary, rolling_risk_score)
    BY SMT DEF Init, SessionInit, FinalDecision, ResultRisk, Larger, Upgraded, Elevated,
               CERBER_UPGRADE_THRESHOLD, ELEVATED_RISK_LOG_ONLY_THRESHOLD
  <2>4. ~(calm >= 1)
    BY <2>2, SMT
  <2>. QED  BY <2>1, <2>2, <2>3, <2>4 DEF Outcome
<1>. QED  BY <1>2, <1>3, <1>4 DEF RiskOK

LEMMA StepTypeOK ==
  ASSUME TypeOK, NEW scored, IsCall(scored), ScoreAndUpgrade(scored)
  PROVE  TypeOK'
<1>1. IsCall(scored)
  OBVIOUS
<1>2. rolling_risk_score' \in 0..RiskScale
  BY ScoreStep
<1>3. risk_trend' \in {"rising", "falling", "stable"}
  BY DEF ScoreAndUpgrade, Score, Trends
<1>4. /\ velocity_1m' \in 0..MaxCalls
      /\ blocked_count_10m' \in 0..velocity_1m'
      /\ sensitive_actions_10m' \in 0..velocity_1m'
      /\ calm' \in 0..velocity_1m'
  BY MaxCallsAssumption, SMT DEF TypeOK, ScoreAndUpgrade, Score, Decrement
<1>5. /\ preliminary' = scored.prelim
      /\ fired' = scored.fired
  BY DEF ScoreAndUpgrade
<1>6. /\ preliminary'.decision \in Decisions
      /\ preliminary'.risk \in 0..100
      /\ fired' \subseteq DetectorFlags
  BY <1>1, <1>5 DEF IsCall
<1>7. /\ result'.decision = FinalDecision(scored.prelim, rolling_risk_score')
      /\ result'.risk = ResultRisk(scored.prelim, rolling_risk_score')
  BY DEF ScoreAndUpgrade
<1>8. result'.decision \in Decisions
  BY <1>1, <1>7 DEF IsCall, FinalDecision, Decisions
<1>9. result'.risk \in 0..RiskScale
  <2>1. scored.prelim.risk \in 0..100
    BY <1>1 DEF IsCall
  <2>2. \A p \in 0..100, r \in 0..RiskScale : Larger(100 * p, r) \in 0..RiskScale
    BY SMT DEF Larger, RiskScale
  <2>. QED  BY <1>2, <1>7, <2>1, <2>2 DEF ResultRisk
<1>. QED  BY <1>2, <1>3, <1>4, <1>6, <1>8, <1>9 DEF TypeOK

(* The arithmetic of one calm call.                                        *)
LEMMA Decay ==
  ASSUME NEW p \in 0..RiskScale, NEW q \in 0..RiskScale, AfterCalm(p, q)
  PROVE  /\ q <= Calm1
         /\ p <= Calm1 => q <= Calm2
         /\ p <= Calm2 => q <= Calm3
BY SMT DEF RiskScale, AfterCalm, Calm1, Calm2, Calm3

LEMMA StepCalmDecay ==
  ASSUME RiskOK, NEW scored, IsCall(scored), ScoreAndUpgrade(scored)
  PROVE  CalmDecay'
<1>1. calm' = IF IsCalm(scored.prelim, scored.fired) THEN calm + 1 ELSE 0
  BY DEF ScoreAndUpgrade
<1>2. calm \in Nat /\ rolling_risk_score \in 0..RiskScale
  BY MaxCallsAssumption, SMT DEF RiskOK, TypeOK
<1>3. CASE IsCalm(scored.prelim, scored.fired)
  <2>1. AfterCalm(rolling_risk_score, rolling_risk_score')
    BY <1>3, ScoreStep DEF RiskOK
  <2>2. rolling_risk_score' \in 0..RiskScale
    BY ScoreStep DEF RiskOK
  <2>3. calm' = calm + 1
    BY <1>1, <1>3
  <2>4. /\ rolling_risk_score' <= Calm1
        /\ rolling_risk_score <= Calm1 => rolling_risk_score' <= Calm2
        /\ rolling_risk_score <= Calm2 => rolling_risk_score' <= Calm3
    BY <1>2, <2>1, <2>2, Decay
  <2>. QED  BY <1>2, <2>3, <2>4, SMT DEF RiskOK, CalmDecay
<1>4. CASE ~IsCalm(scored.prelim, scored.fired)
  BY <1>1, <1>4, SMT DEF CalmDecay
<1>. QED  BY <1>3, <1>4

LEMMA StepOutcome ==
  ASSUME TypeOK, NEW scored, IsCall(scored), ScoreAndUpgrade(scored)
  PROVE  Outcome'
<1>1. /\ preliminary' = scored.prelim
      /\ fired' = scored.fired
      /\ result'.decision = FinalDecision(scored.prelim, rolling_risk_score')
      /\ result'.risk = ResultRisk(scored.prelim, rolling_risk_score')
      /\ calm' = IF IsCalm(scored.prelim, scored.fired) THEN calm + 1 ELSE 0
  BY DEF ScoreAndUpgrade
<1>2. calm' >= 1 => IsCalm(scored.prelim, scored.fired)
  <2>1. CASE IsCalm(scored.prelim, scored.fired)
    BY <2>1
  <2>2. CASE ~IsCalm(scored.prelim, scored.fired)
    BY <1>1, <2>2, SMT
  <2>. QED  BY <2>1, <2>2
<1>3. \A f \in Floors(scored.fired) : rolling_risk_score' >= f
  BY ScoreStep
<1>. QED  BY <1>1, <1>2, <1>3 DEF Outcome

LEMMA StepOne ==
  ASSUME RiskOK, NEW scored, IsCall(scored), ScoreAndUpgrade(scored)
  PROVE  RiskOK'
BY StepTypeOK, StepCalmDecay, StepOutcome DEF RiskOK

LEMMA StepRisk == RiskOK /\ [Next]_vars => RiskOK'
<1>. SUFFICES ASSUME RiskOK, [Next]_vars PROVE RiskOK'
  OBVIOUS
<1>1. ASSUME NEW scored \in Calls, ScoreAndUpgrade(scored)
      PROVE  RiskOK'
  BY <1>1, CallsAssumption, StepOne, Zenon
<1>2. CASE UNCHANGED vars
  BY <1>2 DEF RiskOK, TypeOK, CalmDecay, Outcome, vars, sessionVars
<1>. QED  BY <1>1, <1>2 DEF Next

LEMMA RiskKept == Spec => []RiskOK
BY InitRisk, StepRisk, PTL DEF Spec
-----------------------------------------------------------------------------
(* The third calm call in a row leaves less risk than an upgrade needs.    *)
LEMMA RecoversNow ==
  ASSUME RiskOK
  PROVE  CalmRecovers
<1>. SUFFICES ASSUME calm >= 3
              PROVE  Rank(result.decision) < Rank("require_approval")
  BY DEF CalmRecovers
<1>1. calm \in Nat
  BY MaxCallsAssumption, SMT DEF RiskOK, TypeOK
<1>2. IsCalm(preliminary, fired)
  BY <1>1, SMT DEF RiskOK, Outcome
<1>3. ~Upgraded(preliminary, rolling_risk_score)
  BY SMT DEF RiskOK, CalmDecay, Calm3, TypeOK, RiskScale, Upgraded,
                   CERBER_UPGRADE_THRESHOLD
<1>4. result.decision \in {"allow", "log_only"}
  BY <1>2, <1>3 DEF RiskOK, Outcome, FinalDecision, IsCalm
<1>. QED  BY <1>4, SMT DEF Rank

(* The floor of a detector that fired is above the upgrade's threshold.    *)
LEMMA EscalatesNow ==
  ASSUME RiskOK
  PROVE  SignalEscalates
<1>. SUFFICES ASSUME fired \ {"mcp_chain_hit"} # {}
              PROVE  Rank(result.decision) >= Rank("require_approval")
  BY DEF SignalEscalates
<1>1. PICK f \in Floors(fired) : TRUE
  BY SomeFloor
<1>2. f \in 7600..8600 /\ rolling_risk_score >= f
  BY <1>1, FloorsType DEF RiskOK, Outcome
<1>3. rolling_risk_score >= CERBER_UPGRADE_THRESHOLD
  BY <1>2, SMT DEF RiskOK, TypeOK, CERBER_UPGRADE_THRESHOLD
<1>4. preliminary.decision \in Decisions
  BY DEF RiskOK, TypeOK
<1>5. result.decision \in {"require_approval", "block"}
  BY <1>3, <1>4 DEF RiskOK, Outcome, FinalDecision, Upgraded, Elevated, Decisions
<1>. QED  BY <1>5, SMT DEF Rank

(* What is allowed was not elevated.                                       *)
LEMMA AllowIsLowRiskNow ==
  ASSUME RiskOK
  PROVE  NoAllowAboveThreshold
<1>. SUFFICES ASSUME result.decision = "allow"
              PROVE  result.risk < ELEVATED_RISK_LOG_ONLY_THRESHOLD
  BY DEF NoAllowAboveThreshold
<1>1. preliminary.decision = "allow" /\ ~Elevated(preliminary, rolling_risk_score)
  BY DEF RiskOK, Outcome, FinalDecision
<1>2. result.risk = ResultRisk(preliminary, rolling_risk_score)
  BY DEF RiskOK, Outcome
<1>3. result.risk \in 0..RiskScale
  BY DEF RiskOK, TypeOK
<1>4. ~(result.risk >= ELEVATED_RISK_LOG_ONLY_THRESHOLD)
  BY <1>1, <1>2 DEF Elevated
<1>5. \A risk \in 0..RiskScale :
        ~(risk >= ELEVATED_RISK_LOG_ONLY_THRESHOLD) => risk < ELEVATED_RISK_LOG_ONLY_THRESHOLD
  BY SMT DEF ELEVATED_RISK_LOG_ONLY_THRESHOLD, RiskScale
<1>. QED  BY <1>3, <1>4, <1>5
-----------------------------------------------------------------------------
(* Every state of every session is well typed: in particular the rolling   *)
(* risk never leaves [0, 1] and no counter outruns the calls made.         *)
THEOREM TypeCorrect == Spec => []TypeOK
<1>1. RiskOK => TypeOK
  BY DEF RiskOK
<1>. QED  BY <1>1, RiskKept, PTL

(* A session recovers: from the third calm call in a row on, nothing is    *)
(* held for approval because of what happened before.                      *)
THEOREM Recovers == Spec => []CalmRecovers
BY RecoversNow, RiskKept, PTL

(* A detector that fires is never waved through.                           *)
THEOREM Escalates == Spec => []SignalEscalates
BY EscalatesNow, RiskKept, PTL

(* No call is allowed whose risk calls for a log.                          *)
THEOREM AllowIsLowRisk == Spec => []NoAllowAboveThreshold
BY AllowIsLowRiskNow, RiskKept, PTL

(* The arithmetic of a calm call: a risk above 0.65 comes down.            *)
LEMMA CalmCall ==
  ASSUME NEW p \in 0..RiskScale, NEW q \in 0..RiskScale, AfterCalm(p, q)
  PROVE  q <= Larger(p, 6500)
BY SMT DEF RiskScale, AfterCalm, Larger

(* A calm call never takes the risk above 0.65, and otherwise lowers it.   *)
THEOREM CalmLowers == Spec => CalmNeverRaises
<1>1. ASSUME RiskOK, Next, calm' > 0
      PROVE  rolling_risk_score' <= Larger(rolling_risk_score, 6500)
  <2>1. PICK scored \in Calls : ScoreAndUpgrade(scored)
    BY <1>1 DEF Next
  <2>2. calm' = IF IsCalm(scored.prelim, scored.fired) THEN calm + 1 ELSE 0
    BY <2>1 DEF ScoreAndUpgrade
  <2>3. IsCalm(scored.prelim, scored.fired)
    BY <1>1, <2>2, SMT
  <2>4. /\ rolling_risk_score' \in 0..RiskScale
        /\ AfterCalm(rolling_risk_score, rolling_risk_score')
    BY <1>1, <2>1, <2>3, CallsAssumption, ScoreStep DEF RiskOK
  <2>5. rolling_risk_score \in 0..RiskScale
    BY <1>1 DEF RiskOK, TypeOK
  <2>. QED  BY <2>4, <2>5, CalmCall
<1>2. RiskOK /\ [Next]_vars
        => [calm' > 0 => rolling_risk_score' <= Larger(rolling_risk_score, 6500)]_vars
  BY <1>1
<1>. QED  BY <1>2, RiskKept, PTL DEF Spec, CalmNeverRaises
-----------------------------------------------------------------------------
(* By how much the members of B outnumber the others among k..n.           *)
Lead(B, n, k) == 2 * Cardinality({ i \in k..n : i \in B }) - (n - k + 1)

(* What a counter says that goes up with every member of B up to n and     *)
(* down with the others, but not below zero: the largest lead there is.    *)
Counts(count, B, n) ==
  /\ count \in Nat
  /\ \A k \in 1..n : Lead(B, n, k) \in Int /\ Lead(B, n, k) <= count
  /\ count = 0 \/ \E k \in 1..n : Lead(B, n, k) = count

(* One more number: it counts in every lead, and begins one of its own.    *)
LEMMA LeadStep ==
  ASSUME NEW B, NEW C, NEW n \in Nat, \A i \in 1..n : i \in C <=> i \in B
  PROVE  LET one == IF n + 1 \in C THEN 1 ELSE -1
         IN  /\ \A k \in 1..n : Lead(B, n, k) \in Int
                                  /\ Lead(C, n + 1, k) = Lead(B, n, k) + one
             /\ Lead(C, n + 1, n + 1) = one
<1>1. ASSUME NEW k \in 1..(n + 1)
      PROVE  /\ IsFiniteSet({ i \in k..n : i \in B })
             /\ Cardinality({ i \in k..n : i \in B }) \in Nat
             /\ n + 1 \in C => { i \in k..(n + 1) : i \in C } = { i \in k..n : i \in B } \cup {n + 1}
             /\ n + 1 \notin C => { i \in k..(n + 1) : i \in C } = { i \in k..n : i \in B }
  <2>1. k..n \in SUBSET (1..n) /\ IsFiniteSet(1..n) /\ k..(n + 1) = k..n \cup {n + 1}
    BY FS_Interval
  <2>2. { i \in k..n : i \in B } \in SUBSET (1..n)
    BY <2>1
  <2>. QED  BY <2>1, <2>2, FS_Subset, FS_CardinalityType
<1>2. ASSUME NEW k \in 1..(n + 1)
      PROVE  Cardinality({ i \in k..(n + 1) : i \in C })
               = Cardinality({ i \in k..n : i \in B }) + (IF n + 1 \in C THEN 1 ELSE 0)
  <2>1. n + 1 \notin { i \in k..n : i \in B }
    OBVIOUS
  <2>2. Cardinality({ i \in k..n : i \in B } \cup {n + 1}) = Cardinality({ i \in k..n : i \in B }) + 1
    BY <1>1, <2>1, FS_AddElement
  <2>3. CASE n + 1 \in C
    BY <1>1, <2>2, <2>3, Zenon
  <2>4. CASE n + 1 \notin C
    <3>1. \A x \in Nat : x + 0 = x
      OBVIOUS
    <3>. QED  BY <1>1, <2>4, <3>1, Zenon
  <2>. QED  BY <2>3, <2>4
<1>3. ASSUME NEW k \in 1..n
      PROVE  /\ Lead(B, n, k) \in Int
             /\ Lead(C, n + 1, k) = Lead(B, n, k) + (IF n + 1 \in C THEN 1 ELSE -1)
  <2>. DEFINE before == Cardinality({ i \in k..n : i \in B })
              after  == Cardinality({ i \in k..(n + 1) : i \in C })
  <2>1. before \in Nat /\ after = before + (IF n + 1 \in C THEN 1 ELSE 0)
    <3>1. k \in 1..(n + 1)
      OBVIOUS
    <3>. QED  BY <1>1, <1>2, <3>1, Zenon
  <2>2. Lead(B, n, k) = 2 * before - (n - k + 1) /\ Lead(C, n + 1, k) = 2 * after - (n + 1 - k + 1)
    BY DEF Lead
  <2>. HIDE DEF before, after
  <2>. QED  BY <2>1, <2>2
<1>4. Lead(C, n + 1, n + 1) = IF n + 1 \in C THEN 1 ELSE -1
  <2>. DEFINE after == Cardinality({ i \in (n + 1)..(n + 1) : i \in C })
  <2>1. { i \in (n + 1)..n : i \in B } = {}
    OBVIOUS
  <2>2. after = IF n + 1 \in C THEN 1 ELSE 0
    BY <1>2, <2>1, FS_EmptySet
  <2>3. Lead(C, n + 1, n + 1) = 2 * after - (n + 1 - (n + 1) + 1)
    BY DEF Lead
  <2>. HIDE DEF after
  <2>. QED  BY <2>2, <2>3
<1>. QED  BY <1>3, <1>4

LEMMA CountsMore ==
  ASSUME NEW B, NEW C, NEW n \in Nat, NEW count, Counts(count, B, n),
         \A i \in 1..n : i \in C <=> i \in B
  PROVE  Counts(IF n + 1 \in C THEN count + 1 ELSE Decrement(count), C, n + 1)
<1>1. /\ count \in Nat
      /\ \A k \in 1..n : Lead(B, n, k) \in Int /\ Lead(B, n, k) <= count
      /\ count = 0 \/ \E k \in 1..n : Lead(B, n, k) = count
  BY DEF Counts
<1>2. 1..(n + 1) = 1..n \cup {n + 1} /\ n + 1 \in 1..(n + 1)
  OBVIOUS
<1>3. CASE n + 1 \in C
  <2>1. /\ \A k \in 1..n : Lead(C, n + 1, k) = Lead(B, n, k) + 1
        /\ Lead(C, n + 1, n + 1) = 1
    BY <1>3, LeadStep
  <2>2. \A k \in 1..(n + 1) : Lead(C, n + 1, k) \in Int /\ Lead(C, n + 1, k) <= count + 1
    BY <1>1, <1>2, <2>1
  <2>3. \E k \in 1..(n + 1) : Lead(C, n + 1, k) = count + 1
    BY <1>1, <1>2, <2>1
  <2>. QED  BY <1>1, <1>3, <2>2, <2>3 DEF Counts
<1>4. CASE n + 1 \notin C
  <2>1. /\ \A k \in 1..n : Lead(C, n + 1, k) = Lead(B, n, k) - 1
        /\ Lead(C, n + 1, n + 1) = -1
    BY <1>4, <1>1, LeadStep
  <2>2. Decrement(count) \in Nat /\ Decrement(count) >= count - 1
        /\ (Decrement(count) = 0 \/ Decrement(count) = count - 1)
    BY <1>1 DEF Decrement
  <2>3. \A k \in 1..(n + 1) : Lead(C, n + 1, k) \in Int /\ Lead(C, n + 1, k) <= Decrement(count)
    BY <1>1, <1>2, <2>1, <2>2
  <2>4. Decrement(count) = 0 \/ \E k \in 1..(n + 1) : Lead(C, n + 1, k) = Decrement(count)
    BY <1>1, <1>2, <2>1, <2>2
  <2>. QED  BY <1>4, <2>2, <2>3, <2>4 DEF Counts
<1>. QED  BY <1>3, <1>4

(* A counter stands at two exactly when some lead is two.                  *)
LEMMA CountsTwo ==
  ASSUME NEW B, NEW n \in Nat, NEW count, Counts(count, B, n)
  PROVE  count >= 2 <=> \E k \in 1..n : Lead(B, n, k) >= 2
BY DEF Counts
-----------------------------------------------------------------------------
(* The members of a list from p to q, and the same counted from the p-th.  *)
Stretch(l, p, q) == { l[i] : i \in p..q }

Moved(l, p, q) == { l[p + i - 1] : i \in 1..(q - p + 1) }

LEMMA Shifted ==
  ASSUME NEW p \in Nat \ {0}, NEW q \in Nat, NEW l
  PROVE  Moved(l, p, q) = Stretch(l, p, q)
<1>1. \A i \in 1..(q - p + 1) : p + i - 1 \in p..q
  OBVIOUS
<1>2. \A i \in p..q : i - p + 1 \in 1..(q - p + 1) /\ p + (i - p + 1) - 1 = i
  OBVIOUS
<1>3. Moved(l, p, q) \subseteq Stretch(l, p, q)
  BY <1>1 DEF Moved, Stretch
<1>4. Stretch(l, p, q) \subseteq Moved(l, p, q)
  BY <1>2 DEF Moved, Stretch
<1>. QED  BY <1>3, <1>4

(* A cut keeps the last members, and all of them unless the list is full.  *)
LEMMA LastNKeeps ==
  ASSUME NEW S, NEW left \in Seq(S), NEW right \in Seq(S), NEW n \in Nat
  PROVE  LET all  == left \o right
             kept == LastN(all, n)
         IN  /\ kept \in Seq(S) /\ ToSet(kept) \subseteq ToSet(left) \cup ToSet(right)
             /\ ToSet(LastN(right, n)) \subseteq ToSet(kept)
             /\ ToSet(left) \subseteq ToSet(kept) \/ Len(kept) = n
<1>. DEFINE all == left \o right
            kept == LastN(all, n)
            a == Len(all)
            b == Len(right)
            first == IF a > n THEN a - n + 1 ELSE 1
            start == IF b > n THEN b - n + 1 ELSE 1
<1>1. /\ all \in Seq(S) /\ a = Len(left) + b
      /\ Len(left) \in Nat /\ b \in Nat /\ a \in Nat
      /\ \A i \in 1..Len(left) : all[i] = left[i]
      /\ \A i \in 1..b : all[Len(left) + i] = right[i]
  BY ConcatProperties, LenProperties
<1>2. kept = SubSeq(all, first, a) /\ LastN(right, n) = SubSeq(right, start, b)
  BY DEF LastN
<1>3. /\ first \in 1..(a + 1) /\ start \in 1..(b + 1)
      /\ first <= Len(left) + start
      /\ first = 1 \/ a - first + 1 = n
  BY <1>1
<1>. HIDE DEF all, kept, a, b, first, start
<1>4. /\ kept \in Seq(S) /\ Len(kept) = a - first + 1
      /\ \A i \in 1..(a - first + 1) : kept[i] = all[first + i - 1]
  <2>1. \A i \in first..a : all[i] \in S
    BY <1>1, <1>3, ElementOfSeq DEF a
  <2>. QED  BY <1>1, <1>2, <1>3, <2>1, SubSeqProperties DEF a
<1>5. /\ LastN(right, n) \in Seq(S) /\ Len(LastN(right, n)) = b - start + 1
      /\ \A i \in 1..(b - start + 1) : LastN(right, n)[i] = right[start + i - 1]
  <2>1. \A i \in start..b : right[i] \in S
    BY <1>1, <1>3, ElementOfSeq DEF b
  <2>. QED  BY <1>1, <1>2, <1>3, <2>1, SubSeqProperties DEF b
<1>6. /\ ToSet(kept) = Stretch(all, first, a)
      /\ ToSet(LastN(right, n)) = Stretch(right, start, b)
      /\ ToSet(left) = Stretch(left, 1, Len(left))
      /\ ToSet(right) = Stretch(right, 1, b)
  <2>1. /\ DOMAIN kept = 1..(a - first + 1) /\ DOMAIN LastN(right, n) = 1..(b - start + 1)
        /\ DOMAIN left = 1..Len(left) /\ DOMAIN right = 1..b
    BY <1>4, <1>5, LenProperties DEF b
  <2>2. ToSet(kept) = Moved(all, first, a)
    BY <1>4, <2>1 DEF ToSet, Moved
  <2>3. ToSet(LastN(right, n)) = Moved(right, start, b)
    BY <1>5, <2>1 DEF ToSet, Moved
  <2>4. /\ first \in Nat \ {0} /\ start \in Nat \ {0} /\ a \in Nat /\ b \in Nat
    BY <1>1, <1>3
  <2>5. Moved(all, first, a) = Stretch(all, first, a) /\ Moved(right, start, b) = Stretch(right, start, b)
    BY <2>4, Shifted
  <2>6. ToSet(left) = Stretch(left, 1, Len(left)) /\ ToSet(right) = Stretch(right, 1, b)
    BY <2>1 DEF ToSet, Stretch
  <2>. QED  BY <2>2, <2>3, <2>5, <2>6, Zenon
<1>7. ToSet(kept) \subseteq ToSet(left) \cup ToSet(right)
  <2>1. ASSUME NEW i \in first..a
        PROVE  i \in 1..Len(left) \/ (i - Len(left) \in 1..b /\ Len(left) + (i - Len(left)) = i)
    BY <1>1, <1>3
  <2>2. ASSUME NEW i \in first..a PROVE all[i] \in ToSet(left) \cup ToSet(right)
    <3>1. CASE i \in 1..Len(left)
      BY <1>1, <1>6, <3>1 DEF Stretch
    <3>2. CASE i - Len(left) \in 1..b /\ Len(left) + (i - Len(left)) = i
      <4>1. all[i] = right[i - Len(left)]
        BY <1>1, <3>2
      <4>. QED  BY <1>6, <3>2, <4>1 DEF Stretch
    <3>. QED  BY <2>1, <3>1, <3>2
  <2>. QED  BY <1>6, <2>2 DEF Stretch
<1>8. ToSet(LastN(right, n)) \subseteq ToSet(kept)
  <2>1. \A i \in start..b : Len(left) + i \in first..a /\ i \in 1..b
    BY <1>1, <1>3
  <2>. QED  BY <1>1, <1>6, <2>1 DEF Stretch
<1>9. ToSet(left) \subseteq ToSet(kept) \/ Len(kept) = n
  <2>1. first = 1 => \A i \in 1..Len(left) : i \in first..a
    BY <1>1
  <2>. QED  BY <1>1, <1>3, <1>4, <1>6, <2>1 DEF Stretch
<1>. QED  BY <1>4, <1>7, <1>8, <1>9 DEF kept, all
-----------------------------------------------------------------------------
(* A sequence that is nothing but its elements.                            *)
IsList(s) == Len(s) \in Nat /\ s = [i \in 1..Len(s) |-> s[i]]

LEMMA EmptyIsList == IsList(<< >>) /\ Len(<< >>) = 0
BY DEF IsList

LEMMA ListGrows ==
  ASSUME NEW s, IsList(s), NEW x
  PROVE  /\ IsList(Append(s, x))
         /\ Len(Append(s, x)) = Len(s) + 1
         /\ \A i \in 1..Len(s) : Append(s, x)[i] = s[i]
         /\ Append(s, x)[Len(s) + 1] = x
<1>. DEFINE S == { s[i] : i \in 1..Len(s) } \cup {x}
<1>1. \A i \in 1..Len(s) : s[i] \in S
  OBVIOUS
<1>. HIDE DEF S
<1>2. s \in Seq(S)
  BY <1>1 DEF IsList
<1>3. x \in S
  BY DEF S
<1>4. Append(s, x) \in Seq(S)
  BY <1>2, <1>3, AppendProperties
<1>5. IsList(Append(s, x))
  <2>. DEFINE q == Append(s, x)
  <2>1. q \in Seq(S)
    BY <1>4
  <2>. HIDE DEF q
  <2>2. Len(q) \in Nat /\ q \in [1..Len(q) -> S]
    BY <2>1, LenProperties
  <2>3. q = [i \in 1..Len(q) |-> q[i]]
    BY <2>2, Zenon
  <2>4. IsList(q)
    BY <2>2, <2>3 DEF IsList
  <2>. QED  BY <2>4 DEF q
<1>. QED  BY <1>2, <1>3, <1>5, AppendProperties

Blocked(s) == { i \in DOMAIN s : s[i].prelim.decision = "block" }

Sensitive(s) == { i \in DOMAIN s : s[i].sensitive }

(* The counters against the trail, and what of them is reported.           *)
CountersOK ==
  /\ IsList(trail)
  /\ Counts(blocked_count_10m, Blocked(trail), Len(trail))
  /\ Counts(sensitive_actions_10m, Sensitive(trail), Len(trail))
  /\ "repeated_blocked_attempts" \in reported <=> blocked_count_10m >= 2
  /\ "sensitive_tool_sequence" \in reported <=>
       sensitive_actions_10m >= 2 /\ SecurityHit(recent_reason_codes)

(* No detector's flag is one of the codes that the counters raise.         *)
LEMMA OwnCodes ==
  {"repeated_blocked_attempts", "sensitive_tool_sequence"} \cap DetectorFlags = {}
BY DEF DetectorFlags, Detectors, Boost3000, Boost3600, Boost4200, Boost4800, Boost5400, Boost6000

LEMMA CodesReported ==
  ASSUME NEW prelim, NEW flags, flags \subseteq DetectorFlags, NEW codes
  PROVE  /\ "repeated_blocked_attempts" \in ReportedCodes(prelim, flags, SecurityHit(codes))
              <=> blocked_count_10m' >= 2
         /\ "sensitive_tool_sequence" \in ReportedCodes(prelim, flags, SecurityHit(codes))
              <=> sensitive_actions_10m' >= 2 /\ SecurityHit(codes)
<1>1. /\ "repeated_blocked_attempts" \notin flags
      /\ "sensitive_tool_sequence" \notin flags
  BY OwnCodes
<1>. QED  BY <1>1 DEF ReportedCodes

LEMMA TrailGrows ==
  ASSUME NEW c, IsList(trail), trail' = Append(trail, c)
  PROVE  LET n == Len(trail)
         IN  /\ IsList(trail') /\ n \in Nat /\ Len(trail') = n + 1
             /\ \A i \in 1..n : i \in Blocked(trail') <=> i \in Blocked(trail)
             /\ n + 1 \in Blocked(trail') <=> c.prelim.decision = "block"
             /\ \A i \in 1..n : i \in Sensitive(trail') <=> i \in Sensitive(trail)
             /\ n + 1 \in Sensitive(trail') <=> c.sensitive
<1>. DEFINE n == Len(trail)
<1>1. /\ IsList(trail') /\ n \in Nat /\ Len(trail') = n + 1
      /\ \A i \in 1..n : trail'[i] = trail[i]
      /\ trail'[n + 1] = c
  BY ListGrows DEF IsList
<1>2. DOMAIN trail = 1..n /\ DOMAIN trail' = 1..(n + 1)
  BY <1>1, Zenon DEF IsList
<1>3. (\A i \in 1..n : i \in 1..(n + 1)) /\ n + 1 \in 1..(n + 1)
  BY <1>1
<1>. HIDE DEF n
<1>4. /\ \A i \in 1..n : i \in Blocked(trail') <=> i \in Blocked(trail)
      /\ n + 1 \in Blocked(trail') <=> c.prelim.decision = "block"
  BY <1>1, <1>2, <1>3 DEF Blocked
<1>5. /\ \A i \in 1..n : i \in Sensitive(trail') <=> i \in Sensitive(trail)
      /\ n + 1 \in Sensitive(trail') <=> c.sensitive
  BY <1>1, <1>2, <1>3, Zenon DEF Sensitive
<1>. QED  BY <1>1, <1>4, <1>5 DEF n

(* The trail may hold more of a call than the session's risk reads of it.  *)
LEMMA CountersStep ==
  ASSUME CountersOK, NEW scored, scored.fired \subseteq DetectorFlags, ScoreAndUpgrade(scored),
         NEW c, c.prelim = scored.prelim, c.sensitive = scored.sensitive,
         trail' = Append(trail, c)
  PROVE  CountersOK'
<1>. DEFINE n == Len(trail)
<1>1. /\ IsList(trail') /\ n \in Nat /\ Len(trail') = n + 1
      /\ \A i \in 1..n : i \in Blocked(trail') <=> i \in Blocked(trail)
      /\ n + 1 \in Blocked(trail') <=> scored.prelim.decision = "block"
      /\ \A i \in 1..n : i \in Sensitive(trail') <=> i \in Sensitive(trail)
      /\ n + 1 \in Sensitive(trail') <=> scored.sensitive
  BY TrailGrows, Zenon DEF CountersOK
<1>2. /\ Counts(blocked_count_10m, Blocked(trail), n)
      /\ Counts(sensitive_actions_10m, Sensitive(trail), n)
  BY DEF CountersOK
<1>. HIDE DEF n
<1>3. Counts(blocked_count_10m', Blocked(trail'), n + 1)
  <2>1. blocked_count_10m' = IF n + 1 \in Blocked(trail')
                               THEN blocked_count_10m + 1 ELSE Decrement(blocked_count_10m)
    BY <1>1 DEF ScoreAndUpgrade, Score
  <2>. QED  BY <1>1, <1>2, <2>1, CountsMore
<1>4. Counts(sensitive_actions_10m', Sensitive(trail'), n + 1)
  <2>1. sensitive_actions_10m' = IF n + 1 \in Sensitive(trail')
                                   THEN sensitive_actions_10m + 1
                                   ELSE Decrement(sensitive_actions_10m)
    BY <1>1, Zenon DEF ScoreAndUpgrade, Score
  <2>. QED  BY <1>1, <1>2, <2>1, CountsMore
<1>6. reported' = ReportedCodes(scored.prelim, scored.fired, SecurityHit(recent_reason_codes'))
  BY Zenon DEF ScoreAndUpgrade, Score
<1>7. /\ "repeated_blocked_attempts" \in reported' <=> blocked_count_10m' >= 2
      /\ "sensitive_tool_sequence" \in reported' <=>
           sensitive_actions_10m' >= 2 /\ SecurityHit(recent_reason_codes')
  BY <1>6, CodesReported, Zenon
<1>. QED  BY <1>1, <1>3, <1>4, <1>7, Zenon DEF CountersOK

LEMMA NothingCounted ==
  ASSUME Init, trail = << >>
  PROVE  CountersOK
<1>1. /\ IsList(trail) /\ Len(trail) = 0
      /\ blocked_count_10m = 0 /\ sensitive_actions_10m = 0 /\ reported = {}
  BY EmptyIsList DEF Init, SessionInit
<1>2. \A B : Counts(0, B, 0)
  BY DEF Counts
<1>. QED  BY <1>1, <1>2 DEF CountersOK

LEMMA CountersKept == MemorySpec => []CountersOK
<1>1. MemoryInit => CountersOK
  BY NothingCounted DEF MemoryInit
<1>2. CountersOK /\ [MemoryNext]_memoryVars => CountersOK'
  <2>. SUFFICES ASSUME CountersOK, [MemoryNext]_memoryVars PROVE CountersOK'
    OBVIOUS
  <2>1. CASE UNCHANGED memoryVars
    BY <2>1 DEF CountersOK, SecurityHit, memoryVars, vars, sessionVars
  <2>2. ASSUME NEW scored \in Calls, ScoreAndUpgrade(scored), trail' = Append(trail, scored)
        PROVE  CountersOK'
    <3>1. scored.fired \subseteq DetectorFlags
      BY CallsAssumption DEF IsCall
    <3>. QED  BY <2>2, <3>1, CountersStep, Zenon
  <2>. QED  BY <2>1, <2>2 DEF MemoryNext
<1>. QED  BY <1>1, <1>2, PTL DEF MemorySpec
-----------------------------------------------------------------------------
LEMMA BlocksReportedNow ==
  ASSUME CountersOK
  PROVE  RepeatedBlocksReported
<1>. DEFINE n == Len(trail)
<1>1. /\ n \in Nat /\ DOMAIN trail = 1..n
      /\ Counts(blocked_count_10m, Blocked(trail), n)
      /\ "repeated_blocked_attempts" \in reported <=> blocked_count_10m >= 2
  BY Zenon DEF CountersOK, IsList
<1>2. ASSUME NEW k \in 1..n
      PROVE  Surplus(LAMBDA c : c.prelim.decision = "block", k) = Lead(Blocked(trail), n, k)
  <2>1. { i \in k..n : trail[i].prelim.decision = "block" } = { i \in k..n : i \in Blocked(trail) }
    BY <1>1 DEF Blocked
  <2>. QED  BY <2>1 DEF Surplus, Lead
<1>3. "repeated_blocked_attempts" \in reported <=>
        \E k \in 1..n : Lead(Blocked(trail), n, k) >= 2
  BY <1>1, CountsTwo
<1>. QED  BY <1>1, <1>2, <1>3 DEF RepeatedBlocksReported

LEMMA SensitiveReportedNow ==
  ASSUME CountersOK
  PROVE  SensitiveSequenceReported
<1>. DEFINE n == Len(trail)
<1>1. /\ n \in Nat /\ DOMAIN trail = 1..n
      /\ Counts(sensitive_actions_10m, Sensitive(trail), n)
      /\ "sensitive_tool_sequence" \in reported <=>
           sensitive_actions_10m >= 2 /\ SecurityHit(recent_reason_codes)
  BY Zenon DEF CountersOK, IsList
<1>2. ASSUME NEW k \in 1..n
      PROVE  Surplus(LAMBDA c : c.sensitive, k) = Lead(Sensitive(trail), n, k)
  <2>1. { i \in k..n : trail[i].sensitive } = { i \in k..n : i \in Sensitive(trail) }
    <3>1. \A i \in k..n : i \in DOMAIN trail
      BY <1>1
    <3>. QED  BY <3>1, Zenon DEF Sensitive
  <2>. QED  BY <2>1 DEF Surplus, Lead
<1>3. sensitive_actions_10m >= 2 <=> \E k \in 1..n : Lead(Sensitive(trail), n, k) >= 2
  BY <1>1, CountsTwo
<1>. QED  BY <1>1, <1>2, <1>3 DEF SensitiveSequenceReported

(* The session reports repeated blocks exactly when over some stretch of   *)
(* calls up to now the blocked ones outnumber the others by two            *)
(* (scorer.py:482-486, 1002).                                              *)
THEOREM BlocksReported == MemorySpec => []RepeatedBlocksReported
BY CountersKept, BlocksReportedNow, PTL

(* Likewise for the sensitive tools, while a security code is remembered   *)
(* (scorer.py:488-492, 1004).                                              *)
THEOREM SensitiveReported == MemorySpec => []SensitiveSequenceReported
BY CountersKept, SensitiveReportedNow, PTL
-----------------------------------------------------------------------------
(* What is remembered is never of low impact.                              *)
MemoryOK ==
  /\ recent_reason_codes \in Seq(STRING)
  /\ ToSet(recent_reason_codes) \cap LOW_IMPACT_REASON_CODES = {}

(* What MemoryHoldsNewest says of a step.                                  *)
HoldsNewest ==
  LET old == ToSet(recent_reason_codes)
      now == ToSet(recent_reason_codes')
      new == Those(preliminary'.codes,
                   ToSet(preliminary'.codes) \ (LOW_IMPACT_REASON_CODES \cup old))
  IN  /\ ToSet(LastN(new, RECENT_REASON_CODES_LIMIT)) \subseteq now
      /\ old \subseteq now \/ Len(recent_reason_codes') = RECENT_REASON_CODES_LIMIT
      /\ now \cap LOW_IMPACT_REASON_CODES = {}

LEMMA MergeKeeps ==
  ASSUME NEW previous \in Seq(STRING), NEW current \in Seq(STRING),
         ToSet(previous) \cap LOW_IMPACT_REASON_CODES = {}
  PROVE  LET old == ToSet(previous)
             now == MergeRecentReasonCodes(previous, current)
             new == Those(current, ToSet(current) \ (LOW_IMPACT_REASON_CODES \cup old))
         IN  /\ now \in Seq(STRING) /\ ToSet(now) \cap LOW_IMPACT_REASON_CODES = {}
             /\ ToSet(LastN(new, RECENT_REASON_CODES_LIMIT)) \subseteq ToSet(now)
             /\ old \subseteq ToSet(now) \/ Len(now) = RECENT_REASON_CODES_LIMIT
<1>. DEFINE old == ToSet(previous)
            merged == Those(previous, old \ LOW_IMPACT_REASON_CODES)
            new == Those(current, ToSet(current) \ (LOW_IMPACT_REASON_CODES \cup old))
            now == LastN(merged \o new, RECENT_REASON_CODES_LIMIT)
<1>1. merged \in Seq(STRING) /\ ToSet(merged) = old
  <2>1. /\ merged \in Seq(STRING)
        /\ ToSet(merged) = old \cap (old \ LOW_IMPACT_REASON_CODES)
    BY ThoseKept
  <2>. HIDE DEF merged, old
  <2>2. old \cap (old \ LOW_IMPACT_REASON_CODES) = old
    BY DEF old
  <2>. QED  BY <2>1, <2>2
<1>2. /\ new \in Seq(STRING)
      /\ ToSet(new) = ToSet(current) \cap (ToSet(current) \ (LOW_IMPACT_REASON_CODES \cup old))
  BY ThoseKept
<1>3. MergeRecentReasonCodes(previous, current) = now
  BY <1>1, Zenon DEF MergeRecentReasonCodes, NewCodes
<1>. HIDE DEF merged, new
<1>4. /\ now \in Seq(STRING) /\ ToSet(now) \subseteq ToSet(merged) \cup ToSet(new)
      /\ ToSet(LastN(new, RECENT_REASON_CODES_LIMIT)) \subseteq ToSet(now)
      /\ ToSet(merged) \subseteq ToSet(now) \/ Len(now) = RECENT_REASON_CODES_LIMIT
  BY <1>1, <1>2, RecentLimitAssumption, LastNKeeps
<1>. HIDE DEF now, old
<1>5. ToSet(now) \cap LOW_IMPACT_REASON_CODES = {}
  BY <1>1, <1>2, <1>4 DEF old
<1>. QED  BY <1>1, <1>3, <1>4, <1>5 DEF old, new

LEMMA NothingRemembered ==
  ASSUME Init
  PROVE  MemoryOK
BY EmptySeq DEF Init, SessionInit, MemoryOK, ToSet

LEMMA MemoryStep ==
  ASSUME MemoryOK, NEW scored, scored.prelim.codes \in Seq(STRING), ScoreAndUpgrade(scored)
  PROVE  MemoryOK' /\ HoldsNewest
<1>1. /\ recent_reason_codes' = MergeRecentReasonCodes(recent_reason_codes, scored.prelim.codes)
      /\ preliminary' = scored.prelim
  BY DEF ScoreAndUpgrade, Score
<1>. QED  BY <1>1, MergeKeeps DEF MemoryOK, HoldsNewest

LEMMA MemoryKept == MemorySpec => []MemoryOK
<1>1. MemoryInit => MemoryOK
  BY NothingRemembered DEF MemoryInit
<1>2. MemoryOK /\ [MemoryNext]_memoryVars => MemoryOK'
  <2>. SUFFICES ASSUME MemoryOK, [MemoryNext]_memoryVars PROVE MemoryOK'
    OBVIOUS
  <2>1. CASE UNCHANGED memoryVars
    BY <2>1 DEF MemoryOK, memoryVars, vars, sessionVars
  <2>2. ASSUME NEW scored \in Calls, ScoreAndUpgrade(scored) PROVE MemoryOK'
    <3>1. scored.prelim.codes \in Seq(STRING)
      BY CallsAssumption DEF IsCall
    <3>. QED  BY <2>2, <3>1, MemoryStep
  <2>. QED  BY <2>1, <2>2 DEF MemoryNext
<1>. QED  BY <1>1, <1>2, PTL DEF MemorySpec

(* A code new to the session is remembered, the latest first when there is *)
(* no room for all, and one is forgotten only to make room                 *)
(* (scorer.py:456-466).                                                    *)
THEOREM NewestHeld == MemorySpec => MemoryHoldsNewest
<1>1. MemoryOK /\ [MemoryNext]_memoryVars => [HoldsNewest]_memoryVars
  <2>. SUFFICES ASSUME MemoryOK, NEW scored \in Calls, ScoreAndUpgrade(scored)
                PROVE  HoldsNewest
    BY DEF MemoryNext
  <2>1. scored.prelim.codes \in Seq(STRING)
    BY CallsAssumption DEF IsCall
  <2>. QED  BY <2>1, MemoryStep
<1>. QED  BY <1>1, MemoryKept, PTL DEF MemorySpec, MemoryHoldsNewest, HoldsNewest
-----------------------------------------------------------------------------
(* The calls a session is made of.                                         *)
CallsOf == { Catalogue[name] : name \in DOMAIN Catalogue }
-----------------------------------------------------------------------------
(* Which detector raises which of the flags looked at here.                *)
LEMMA TraceFlagNames ==
  \A c : TraceFlags(c) \subseteq
    {"mcp_jsonrpc_id_reuse", "mcp_result_source_mismatch",
     "mcp_stream_event_identity_collision", "mcp_response_request_mismatch",
     "mcp_foreign_tool_result_injection", "mcp_unbound_tool_result"}
BY DEF TraceFlags, Binding, Mismatch, When

LEMMA LifecycleFlagNames ==
  \A c : LifecycleFlags(c) \subseteq
    {"partial_subscription_flood", "notify_after_unsubscribe", "protocol_version_regression",
     "security_capability_stripping", "subscription_chain_amplification"}
BY DEF LifecycleFlags, When

LEMMA ProbeFlagNames ==
  \A c : ProbeFlags(c) \subseteq {"payment_verification_bruteforce", "tool_oracle_iteration_risk"}
BY DEF ProbeFlags, When

LEMMA IntentFlagNames ==
  \A c : IntentFlags(c) \subseteq
    {"stale_or_cross_event_action_context", "intent_locked_tool_scope_violation",
     "poisoned_observation_to_action", "premise_injection_tool_steering",
     "reasoning_unsupported_tool_switch", "goal_hijacking_plan_deviation",
     "cross_protocol_semantic_bridge"}
BY DEF IntentFlags, When

LEMMA TaintFlagNames ==
  \A c : TaintFlags(c) \subseteq
    {"synthetic_evidence_to_physical_action", "cross_agent_delegation_poisoning",
     "privilege_tier_escalation_via_agent_queue", "capability_chain_privilege_escalation",
     "multi_tool_exfiltration_chain", "mcp_foreign_tool_result_injection",
     "cross_tool_scope_leakage", "stale_memory_to_sensitive_action", "memory_authority_escalation"}
BY DEF TaintFlags, When

LEMMA FlagMeans ==
  ASSUME NEW c
  PROVE  /\ "subscription_chain_amplification" \in Flags(c) <=> Amplifies(c)
         /\ "partial_subscription_flood" \in Flags(c) <=> Floods(c)
         /\ "protocol_version_regression" \in Flags(c) <=> Regresses(c)
         /\ "notify_after_unsubscribe" \in Flags(c) <=> NotifiesUnsubscribed(c)
         /\ "intent_locked_tool_scope_violation" \in Flags(c) <=> LeavesScope(c)
         /\ "stale_or_cross_event_action_context" \in Flags(c) <=> CrossesEvents(c)
         /\ "security_capability_stripping" \in Flags(c) <=>
              last_protocol_capabilities_had_security /\ ~SecurityAfter(c)
         /\ "payment_verification_bruteforce" \in Flags(c) <=>
              c.payment # {} /\ payment_verification_attempt_count' >= 1
         /\ "tool_oracle_iteration_risk" \in Flags(c) <=> oracle_iteration_count' >= ORACLE_VARIANTS
         /\ "poisoned_observation_to_action" \in Flags(c) <=> FollowsDirective(c)
         /\ "cross_protocol_semantic_bridge" \in Flags(c) <=> CrossesProtocols(c)
         /\ "capability_chain_privilege_escalation" \in Flags(c) <=> RunsWritten(c)
         /\ "multi_tool_exfiltration_chain" \in Flags(c) <=>
              (SendsOut(c) \/ Exfiltrates(c)) /\ Carries(c, recent_sensitive_markers')
         /\ "cross_tool_scope_leakage" \in Flags(c) <=>
              DraftsOut(c) /\ Carries(c, recent_sensitive_markers')
         /\ "stale_memory_to_sensitive_action" \in Flags(c) <=>
              /\ IsSensitiveSink(c) /\ CurrentMarkers(c) # {}
              /\ recent_poisoned_memory_keys' # << >>
         /\ SendsOut(c) /\ Carries(c, recent_mcp_trace_violation_markers')
              => "mcp_foreign_tool_result_injection" \in Flags(c)
<1>1. \A f : f \in Flags(c) <=>
        \/ f = "mcp_chain_hit" /\ mcp_chain_hit'
        \/ f \in TraceFlags(c) \/ f \in LifecycleFlags(c) \/ f \in ProbeFlags(c)
        \/ f \in IntentFlags(c) \/ f \in TaintFlags(c)
  BY DEF Flags, When
<1>2. /\ "subscription_chain_amplification" \in LifecycleFlags(c) <=> Amplifies(c)
      /\ "partial_subscription_flood" \in LifecycleFlags(c) <=> Floods(c)
      /\ "protocol_version_regression" \in LifecycleFlags(c) <=> Regresses(c)
      /\ "notify_after_unsubscribe" \in LifecycleFlags(c) <=> NotifiesUnsubscribed(c)
      /\ "security_capability_stripping" \in LifecycleFlags(c) <=>
           last_protocol_capabilities_had_security /\ ~SecurityAfter(c)
  BY DEF LifecycleFlags, When
<1>3. /\ "intent_locked_tool_scope_violation" \in IntentFlags(c) <=> LeavesScope(c)
      /\ "stale_or_cross_event_action_context" \in IntentFlags(c) <=> CrossesEvents(c)
      /\ "poisoned_observation_to_action" \in IntentFlags(c) <=> FollowsDirective(c)
      /\ "cross_protocol_semantic_bridge" \in IntentFlags(c) <=> CrossesProtocols(c)
  BY DEF IntentFlags, When
<1>4. /\ "capability_chain_privilege_escalation" \in TaintFlags(c) <=> RunsWritten(c)
      /\ "multi_tool_exfiltration_chain" \in TaintFlags(c) <=>
           (SendsOut(c) \/ Exfiltrates(c)) /\ Carries(c, recent_sensitive_markers')
      /\ "cross_tool_scope_leakage" \in TaintFlags(c) <=>
           DraftsOut(c) /\ Carries(c, recent_sensitive_markers')
      /\ "stale_memory_to_sensitive_action" \in TaintFlags(c) <=>
           /\ IsSensitiveSink(c) /\ CurrentMarkers(c) # {}
           /\ recent_poisoned_memory_keys' # << >>
      /\ SendsOut(c) /\ Carries(c, recent_mcp_trace_violation_markers')
           => "mcp_foreign_tool_result_injection" \in TaintFlags(c)
  BY DEF TaintFlags, When
<1>5. /\ "payment_verification_bruteforce" \in ProbeFlags(c) <=>
           c.payment # {} /\ payment_verification_attempt_count' >= 1
      /\ "tool_oracle_iteration_risk" \in ProbeFlags(c) <=> oracle_iteration_count' >= ORACLE_VARIANTS
  BY DEF ProbeFlags, When
<1>. QED  BY <1>1, <1>2, <1>3, <1>4, <1>5, TraceFlagNames, LifecycleFlagNames, ProbeFlagNames,
             IntentFlagNames, TaintFlagNames
-----------------------------------------------------------------------------
(* One call, as far as the detectors looked at here go.                    *)
Scores(c) ==
  /\ TraceStep(c)
  /\ LifecycleStep(c) /\ ProbeStep(c) /\ IntentStep(c) /\ TaintStep(c, TraceFlags(c))
  /\ fired' = Flags(c)
  /\ trail' = Append(trail, c)
  /\ alarms' = Append(alarms, Flags(c))

(* Every step of the trail is one call of the catalogue.                   *)
LEMMA CallScored ==
  ASSUME theme \in Themes, TrailNext
  PROVE  theme' = theme /\ \E c \in CallsOf : Scores(c)
<1>1. PICK name \in theme : \E c \in {Catalogue[name]} :
        ScoreCall(c) /\ trail' = Append(trail, c) /\ alarms' = Append(alarms, fired')
  BY DEF TrailNext
<1>. DEFINE c == Catalogue[name]
<1>2. c \in CallsOf
  BY ThemesAssumption DEF CallsOf
<1>3. ScoreCall(c) /\ trail' = Append(trail, c) /\ alarms' = Append(alarms, fired')
  BY <1>1
<1>. HIDE DEF c
<1>4. fired' = Flags(c)
  BY <1>3 DEF ScoreCall, ScoreAndUpgrade
<1>5. Scores(c)
  BY <1>3, <1>4 DEF ScoreCall, Scores
<1>6. theme' = theme
  BY DEF TrailNext
<1>. QED  BY <1>2, <1>5, <1>6

(* The trail and the alarms go together.                                   *)
HistoryOK ==
  /\ theme \in Themes
  /\ IsList(trail) /\ IsList(alarms) /\ Len(alarms) = Len(trail)
  /\ \A i \in 1..Len(trail) : trail[i] \in CallsOf

(* What a call adds to a history.                                          *)
Grown(old, new, x) ==
  /\ Len(old) \in Nat /\ Len(new) = Len(old) + 1
  /\ \A i \in 1..Len(old) : new[i] = old[i]
  /\ new[Len(old) + 1] = x

LEMMA HistoryGrows ==
  ASSUME HistoryOK, NEW c \in CallsOf, Scores(c), theme' = theme
  PROVE  HistoryOK' /\ Grown(trail, trail', c) /\ Grown(alarms, alarms', Flags(c))
<1>1. /\ IsList(trail') /\ Grown(trail, trail', c)
      /\ IsList(alarms') /\ Grown(alarms, alarms', Flags(c))
  BY ListGrows DEF HistoryOK, Scores, Grown, IsList
<1>2. ASSUME NEW i \in 1..Len(trail') PROVE trail'[i] \in CallsOf
  <2>1. i \in 1..Len(trail) \/ i = Len(trail) + 1
    BY <1>1 DEF Grown
  <2>. QED  BY <1>1, <2>1 DEF Grown, HistoryOK
<1>. QED  BY <1>1, <1>2 DEF HistoryOK, Grown
-----------------------------------------------------------------------------
(* Some amplified subscription is still to be answered for.                *)
SeedLeft(calls, flags) ==
  \E s \in 1..Len(calls) :
    /\ "subscription_chain_amplification" \in calls[s].rules
    /\ \A j \in s..Len(calls) : "subscription_chain_amplification" \notin flags[j]

SeedOK == subscription_chain_seed <=> SeedLeft(trail, alarms)

LEMMA SeedStep ==
  ASSUME HistoryOK, SeedOK, NEW c \in CallsOf, Scores(c), theme' = theme
  PROVE  SeedOK' /\ AmplificationNeedsSeed'
<1>. DEFINE amp == "subscription_chain_amplification"
            n == Len(trail)
<1>1. /\ Len(trail) \in Nat /\ Len(trail') = n + 1 /\ Len(alarms) = n
      /\ \A i \in 1..n : trail'[i] = trail[i] /\ alarms'[i] = alarms[i]
      /\ trail'[n + 1] = c /\ alarms'[n + 1] = Flags(c)
  BY HistoryGrows DEF Grown, HistoryOK
<1>2. /\ fired' = Flags(c)
      /\ amp \in Flags(c) <=> Amplifies(c)
  BY FlagMeans DEF Scores
<1>3. /\ Seeded(c) <=> SeedLeft(trail, alarms) \/ amp \in c.rules
      /\ Amplifies(c) <=> Seeded(c) /\ "recursive_root_subscription" \in c.rules
      /\ subscription_chain_seed' <=> Seeded(c) /\ ~Amplifies(c)
  BY DEF SeedOK, Seeded, Amplifies, SeedAfter, Scores, LifecycleStep
<1>4. Seeded(c) <=> \E s \in 1..(n + 1) :
        /\ amp \in trail'[s].rules
        /\ \A j \in s..n : amp \notin alarms'[j]
  <2>1. ASSUME SeedLeft(trail, alarms)
        PROVE  \E s \in 1..(n + 1) : amp \in trail'[s].rules /\ \A j \in s..n : amp \notin alarms'[j]
    BY <1>1, <2>1 DEF SeedLeft
  <2>2. ASSUME amp \in c.rules
        PROVE  \E s \in 1..(n + 1) : amp \in trail'[s].rules /\ \A j \in s..n : amp \notin alarms'[j]
    BY <1>1, <2>2
  <2>3. ASSUME NEW s \in 1..(n + 1), amp \in trail'[s].rules, \A j \in s..n : amp \notin alarms'[j]
        PROVE  SeedLeft(trail, alarms) \/ amp \in c.rules
    <3>1. CASE s = n + 1
      BY <1>1, <2>3, <3>1
    <3>2. CASE s \in 1..n
      BY <1>1, <2>3, <3>2 DEF SeedLeft
    <3>. QED  BY <1>1, <3>1, <3>2
  <2>. QED  BY <1>3, <2>1, <2>2, <2>3
<1>5. SeedLeft(trail', alarms') <=> Seeded(c) /\ ~Amplifies(c)
  <2>1. SeedLeft(trail', alarms') <=>
          /\ amp \notin alarms'[n + 1]
          /\ \E s \in 1..(n + 1) : amp \in trail'[s].rules /\ \A j \in s..n : amp \notin alarms'[j]
    <3>1. ASSUME NEW s \in 1..(n + 1)
          PROVE  (\A j \in s..(n + 1) : amp \notin alarms'[j]) <=>
                   amp \notin alarms'[n + 1] /\ \A j \in s..n : amp \notin alarms'[j]
      <4>1. s..(n + 1) = (s..n) \cup {n + 1}
        BY <1>1
      <4>. QED  BY <4>1
    <3>. QED  BY <1>1, <3>1 DEF SeedLeft
  <2>. QED  BY <1>1, <1>2, <1>4, <2>1
<1>6. SeedOK'
  BY <1>3, <1>5 DEF SeedOK
<1>7. AmplificationNeedsSeed'
  <2>1. n + 1 - 1 = n
    BY <1>1
  <2>. QED  BY <1>1, <1>2, <1>3, <1>4, <2>1 DEF AmplificationNeedsSeed, Now, At
<1>. QED  BY <1>6, <1>7
-----------------------------------------------------------------------------
(* The tools allowed are those of the last call that allowed any.          *)
GivesScope(c) == c.trusted /\ c.scope # << >>

ScopeFrom(calls, scope, i) ==
  /\ GivesScope(calls[i])
  /\ \A k \in i+1..Len(calls) : ~GivesScope(calls[k])
  /\ scope = LastN(calls[i].scope, SESSION_LIST_LIMIT)

ScopeOf(calls, scope) ==
  \/ scope = << >> /\ \A i \in 1..Len(calls) : ~GivesScope(calls[i])
  \/ \E i \in 1..Len(calls) : ScopeFrom(calls, scope, i)

ScopeOK == ScopeOf(trail, current_allowed_tool_scope)

LEMMA ScopeNotEmpty ==
  ASSUME NEW c \in CallsOf, GivesScope(c)
  PROVE  LET kept == LastN(c.scope, SESSION_LIST_LIMIT)
         IN  /\ kept # << >>
             /\ \A tool : Contains(kept, tool) <=> tool \in ToSet(kept)
<1>. DEFINE s == c.scope
            n == SESSION_LIST_LIMIT
            first == IF Len(s) > n THEN Len(s) - n + 1 ELSE 1
            kept == SubSeq(s, first, Len(s))
<1>1. s \in Seq(STRING) /\ s # << >>
  BY CatalogueAssumption DEF CallsOf, IsTrailCall, GivesScope
<1>. HIDE DEF s
<1>2. n \in Nat \ {0}
  BY ListLimitAssumption
<1>. HIDE DEF n
<1>3. Len(s) \in Nat \ {0}
  BY <1>1, EmptySeq, LenProperties
<1>4. first \in 1..Len(s) /\ Len(s) - first + 1 \in Nat \ {0}
  BY <1>2, <1>3
<1>. HIDE DEF first
<1>5. kept \in Seq(STRING) /\ Len(kept) = Len(s) - first + 1
  BY <1>1, <1>3, <1>4, SubSeqProperties
<1>. HIDE DEF kept
<1>6. DOMAIN kept = 1..Len(kept) /\ kept # << >>
  BY <1>4, <1>5, LenProperties, EmptySeq
<1>7. LastN(c.scope, SESSION_LIST_LIMIT) = kept
  BY DEF LastN, kept, first, n, s
<1>. QED  BY <1>6, <1>7 DEF Contains, ToSet

LEMMA ScopeStep ==
  ASSUME HistoryOK, ScopeOK, NEW c \in CallsOf, Scores(c), theme' = theme
  PROVE  ScopeOK' /\ ScopeBindsUntilReplaced'
<1>. DEFINE n == Len(trail)
            scope == current_allowed_tool_scope
            flag == "intent_locked_tool_scope_violation"
<1>1. /\ n \in Nat /\ Len(trail') = n + 1
      /\ \A i \in 1..n : trail'[i] = trail[i]
      /\ trail'[n + 1] = c
      /\ \A i \in 1..(n + 1) : trail'[i] \in CallsOf
  BY HistoryGrows DEF Grown, HistoryOK
<1>2. /\ flag \in fired' <=> LeavesScope(c)
      /\ scope' = IF GivesScope(c) THEN LastN(c.scope, SESSION_LIST_LIMIT) ELSE scope
  BY FlagMeans DEF Scores, IntentStep, GivesScope
<1>3. ScopeOf(trail', scope')
  <2>1. CASE GivesScope(c)
    <3>1. ScopeFrom(trail', scope', n + 1)
      BY <1>1, <1>2, <2>1 DEF ScopeFrom
    <3>. QED  BY <1>1, <3>1 DEF ScopeOf
  <2>2. CASE ~GivesScope(c) /\ scope = << >> /\ \A i \in 1..n : ~GivesScope(trail[i])
    <3>1. \A i \in 1..(n + 1) : ~GivesScope(trail'[i])
      <4>1. 1..(n + 1) = 1..n \cup {n + 1}
        BY <1>1
      <4>. QED  BY <1>1, <2>2, <4>1
    <3>. QED  BY <1>1, <1>2, <2>2, <3>1 DEF ScopeOf
  <2>3. CASE ~GivesScope(c) /\ \E i \in 1..n : ScopeFrom(trail, scope, i)
    <3>1. PICK i \in 1..n : ScopeFrom(trail, scope, i)
      BY <2>3
    <3>2. i + 1..(n + 1) = (i + 1..n) \cup {n + 1} /\ \A k \in i + 1..n : k \in 1..n
      BY <1>1
    <3>3. ScopeFrom(trail', scope', i)
      BY <1>1, <1>2, <2>3, <3>1, <3>2 DEF ScopeFrom
    <3>. QED  BY <1>1, <3>3 DEF ScopeOf
  <2>. QED  BY <2>1, <2>2, <2>3 DEF ScopeOK, ScopeOf
<1>4. LeavesScope(c) <=>
        /\ c.tool \in ConfinedTools
        /\ \E i \in 1..(n + 1) :
             /\ GivesScope(trail'[i])
             /\ {c.tool, NormalizedName(c.tool)}
                  \cap ToSet(LastN(trail'[i].scope, SESSION_LIST_LIMIT)) = {}
             /\ \A k \in i + 1..(n + 1) : ~GivesScope(trail'[k])
  <2>1. CASE scope' = << >> /\ \A i \in 1..(n + 1) : ~GivesScope(trail'[i])
    BY <2>1 DEF LeavesScope
  <2>2. CASE \E i \in 1..(n + 1) : ScopeFrom(trail', scope', i)
    <3>1. PICK i \in 1..(n + 1) : ScopeFrom(trail', scope', i)
      BY <2>2
    <3>2. /\ scope' # << >>
          /\ \A tool : Contains(scope', tool) <=> tool \in ToSet(scope')
      BY <1>1, <3>1, ScopeNotEmpty DEF ScopeFrom
    <3>3. LeavesScope(c) <=> /\ c.tool \in ConfinedTools
                             /\ {c.tool, NormalizedName(c.tool)} \cap ToSet(scope') = {}
      BY <3>2 DEF LeavesScope, Allowed
    <3>4. ASSUME NEW j \in 1..(n + 1), GivesScope(trail'[j]),
                 \A k \in j + 1..(n + 1) : ~GivesScope(trail'[k])
          PROVE  j = i
      <4>1. ~(i < j) /\ ~(j < i)
        BY <1>1, <3>1, <3>4 DEF ScopeFrom
      <4>. QED  BY <1>1, <4>1
    <3>. QED  BY <1>1, <3>1, <3>3, <3>4 DEF ScopeFrom
  <2>. QED  BY <1>1, <1>3, <2>1, <2>2 DEF ScopeOf
<1>5. ScopeBindsUntilReplaced'
  BY <1>1, <1>2, <1>4 DEF ScopeBindsUntilReplaced, At, Now, GivesScope
<1>. QED  BY <1>3, <1>5 DEF ScopeOK
-----------------------------------------------------------------------------
(* The event approved is that of the last trusted intent, if that is       *)
(* recent; the age counts the calls since.                                 *)
IntentFrom(calls, i) ==
  /\ GivesIntent(calls[i])
  /\ \A k \in i+1..Len(calls) : ~GivesIntent(calls[k])

IntentOf(calls, event, age) ==
  /\ age \in Nat
  /\ event # None =>
       \E i \in 1..Len(calls) :
         /\ IntentFrom(calls, i) /\ calls[i].event = event
         /\ age = Len(calls) - i /\ age <= INTENT_LIFE
  /\ event = None =>
       \A i \in 1..Len(calls) : IntentFrom(calls, i) => Len(calls) - i > INTENT_LIFE

IntentOK == IntentOf(trail, last_trusted_intent_event_id, trusted_intent_age_steps)

LEMMA LastIntentUnique ==
  ASSUME NEW calls, Len(calls) \in Nat,
         NEW i \in 1..Len(calls), IntentFrom(calls, i),
         NEW j \in 1..Len(calls), IntentFrom(calls, j)
  PROVE  i = j
<1>1. ~(i < j) /\ ~(j < i)
  BY DEF IntentFrom
<1>. QED  BY <1>1

LEMMA IntentStepKeeps ==
  ASSUME HistoryOK, IntentOK, NEW c \in CallsOf, Scores(c), theme' = theme
  PROVE  IntentOK' /\ ApprovalBoundToEvent'
<1>. DEFINE n == Len(trail)
            event == last_trusted_intent_event_id
            age == trusted_intent_age_steps
            flag == "stale_or_cross_event_action_context"
<1>1. /\ n \in Nat /\ Len(trail') = n + 1
      /\ \A i \in 1..n : trail'[i] = trail[i]
      /\ trail'[n + 1] = c
      /\ INTENT_LIFE \in Nat
  BY HistoryGrows, IntentLifeAssumption DEF Grown, HistoryOK
<1>2. /\ flag \in fired' <=> CrossesEvents(c)
      /\ event' = IF GivesIntent(c) THEN c.event
                  ELSE IF age + 1 > INTENT_LIFE THEN None ELSE event
      /\ age' = IF GivesIntent(c) \/ age + 1 > INTENT_LIFE THEN 0 ELSE age + 1
  BY FlagMeans DEF Scores, IntentStep, Expires
<1>3. ASSUME ~GivesIntent(c), NEW i \in 1..n
      PROVE  IntentFrom(trail', i) <=> IntentFrom(trail, i)
  <2>1. i + 1..(n + 1) = (i + 1..n) \cup {n + 1} /\ \A k \in i + 1..n : k \in 1..n
    BY <1>1
  <2>. QED  BY <1>1, <1>3, <2>1 DEF IntentFrom
<1>4. ~GivesIntent(c) => ~IntentFrom(trail', n + 1)
  BY <1>1 DEF IntentFrom
<1>5. IntentOf(trail', event', age')
  <2>1. CASE GivesIntent(c)
    <3>1. event' = c.event /\ c.event # None /\ age' = 0
      BY <1>2, <2>1 DEF GivesIntent
    <3>2. IntentFrom(trail', n + 1)
      BY <1>1, <2>1 DEF IntentFrom
    <3>. QED  BY <1>1, <3>1, <3>2 DEF IntentOf
  <2>2. CASE ~GivesIntent(c) /\ event # None
    <3>1. PICK i \in 1..n : /\ IntentFrom(trail, i) /\ trail[i].event = event
                            /\ age = n - i /\ age <= INTENT_LIFE
      BY <2>2 DEF IntentOK, IntentOf
    <3>2. IntentFrom(trail', i) /\ i \in 1..Len(trail') /\ trail'[i].event = event
      BY <1>1, <1>3, <2>2, <3>1
    <3>3. CASE age + 1 > INTENT_LIFE
      <4>1. event' = None /\ age' = 0
        BY <1>2, <2>2, <3>3
      <4>2. ASSUME NEW j \in 1..Len(trail'), IntentFrom(trail', j)
            PROVE  Len(trail') - j > INTENT_LIFE
        <5>1. j = i
          BY <1>1, <3>2, <4>2, LastIntentUnique
        <5>. QED  BY <1>1, <3>1, <3>3, <5>1
      <4>. QED  BY <4>1, <4>2 DEF IntentOf
    <3>4. CASE ~(age + 1 > INTENT_LIFE)
      <4>1. event' = event /\ age' = age + 1
        BY <1>2, <2>2, <3>4
      <4>2. age' \in Nat /\ age' = Len(trail') - i /\ age' <= INTENT_LIFE
        BY <1>1, <3>1, <3>4, <4>1
      <4>. QED  BY <2>2, <3>2, <4>1, <4>2 DEF IntentOf
    <3>. QED  BY <3>3, <3>4
  <2>3. CASE ~GivesIntent(c) /\ event = None
    <3>1. event' = None /\ age' \in Nat
      BY <1>1, <1>2, <2>3 DEF IntentOK, IntentOf
    <3>2. ASSUME NEW j \in 1..Len(trail'), IntentFrom(trail', j)
          PROVE  Len(trail') - j > INTENT_LIFE
      <4>1. j \in 1..n
        BY <1>1, <1>4, <2>3, <3>2
      <4>2. n - j > INTENT_LIFE
        BY <1>3, <2>3, <3>2, <4>1 DEF IntentOK, IntentOf
      <4>. QED  BY <1>1, <4>1, <4>2
    <3>. QED  BY <3>1, <3>2 DEF IntentOf
  <2>. QED  BY <2>1, <2>2, <2>3
<1>6. event' \notin {None, c.event} <=>
        \E i \in 1..(n + 1) : /\ IntentFrom(trail', i)
                              /\ n + 1 - i <= INTENT_LIFE
                              /\ trail'[i].event # c.event
  <2>1. CASE event' # None
    <3>1. PICK i \in 1..(n + 1) : /\ IntentFrom(trail', i) /\ trail'[i].event = event'
                                  /\ n + 1 - i <= INTENT_LIFE
      BY <1>1, <1>5, <2>1 DEF IntentOf
    <3>2. \A j \in 1..(n + 1) : IntentFrom(trail', j) => j = i
      BY <1>1, <3>1, LastIntentUnique
    <3>. QED  BY <2>1, <3>1, <3>2
  <2>2. CASE event' = None
    <3>1. \A i \in 1..(n + 1) : IntentFrom(trail', i) => n + 1 - i > INTENT_LIFE
      BY <1>1, <1>5, <2>2 DEF IntentOf
    <3>. QED  BY <1>1, <2>2, <3>1
  <2>. QED  BY <2>1, <2>2
<1>7. ApprovalBoundToEvent'
  BY <1>1, <1>2, <1>6
  DEF ApprovalBoundToEvent, LastIntent, IntentFrom, At, Now, CrossesEvents, IsSideEffecting
<1>. QED  BY <1>5, <1>7 DEF IntentOK
-----------------------------------------------------------------------------
(* Keys are poisoned by a rule first, and by being read only after that.   *)
PoisonsFirst(c) == "memory_directive_poisoning" \in c.rules /\ c.memory_key # None

Keys == { c.memory_key : c \in CallsOf }

PoisonOf(calls, keys) ==
  /\ keys \in Seq(Keys) /\ Distinct(keys)
  /\ keys # << >> <=> \E i \in 1..Len(calls) : PoisonsFirst(calls[i])

PoisonOK == PoisonOf(trail, recent_poisoned_memory_keys)

LEMMA Remembered ==
  ASSUME NEW S, NEW list \in Seq(S), Distinct(list), NEW value \in S
  PROVE  /\ Remember(list, value) \in Seq(S)
         /\ Distinct(Remember(list, value))
         /\ Remember(list, value) # << >>
<1>. DEFINE kept == BoundedAppend(list, value, SESSION_LIST_LIMIT)
<1>1. /\ kept \in Seq(S) /\ Distinct(kept)
      /\ Len(kept) \in 1..SESSION_LIST_LIMIT
  BY BoundedAppendDistinct, ListLimitAssumption
<1>. HIDE DEF kept
<1>2. kept # << >>
  BY <1>1, EmptySeq, ListLimitAssumption
<1>. QED  BY <1>1, <1>2 DEF Remember, kept

LEMMA PoisonStep ==
  ASSUME HistoryOK, PoisonOK, NEW c \in CallsOf, Scores(c), theme' = theme
  PROVE  PoisonOK' /\ PoisonFollowsMarkers'
<1>. DEFINE n == Len(trail)
            keys == recent_poisoned_memory_keys
            flag == "stale_memory_to_sensitive_action"
<1>1. /\ n \in Nat /\ Len(trail') = n + 1
      /\ \A i \in 1..n : trail'[i] = trail[i]
      /\ trail'[n + 1] = c
  BY HistoryGrows DEF Grown, HistoryOK
<1>2. /\ flag \in fired' <=> IsSensitiveSink(c) /\ CurrentMarkers(c) # {} /\ keys' # << >>
      /\ keys' = IF PoisonsMemory(c) THEN Remember(keys, c.memory_key) ELSE keys
  BY FlagMeans DEF Scores, TaintStep, RememberIf
<1>3. keys \in Seq(Keys) /\ Distinct(keys) /\ c.memory_key \in Keys
  BY DEF PoisonOK, PoisonOf, Keys
<1>4. /\ Remember(keys, c.memory_key) \in Seq(Keys)
      /\ Distinct(Remember(keys, c.memory_key))
      /\ Remember(keys, c.memory_key) # << >>
  BY <1>3, Remembered
<1>5. keys' \in Seq(Keys) /\ Distinct(keys')
  BY <1>2, <1>3, <1>4
<1>6. keys = << >> => (PoisonsMemory(c) <=> PoisonsFirst(c))
  <2>1. ASSUME keys = << >> PROVE ~Contains(keys, c.memory_key)
    BY <2>1 DEF Contains
  <2>. QED  BY <2>1 DEF PoisonsMemory, PoisonsFirst
<1>7. PoisonsFirst(c) => PoisonsMemory(c)
  BY DEF PoisonsFirst, PoisonsMemory
<1>8. keys' # << >> <=> keys # << >> \/ PoisonsFirst(c)
  BY <1>2, <1>4, <1>6, <1>7
<1>9. keys' # << >> <=> \E i \in 1..(n + 1) : PoisonsFirst(trail'[i])
  <2>1. 1..(n + 1) = 1..n \cup {n + 1}
    BY <1>1
  <2>2. keys # << >> <=> \E i \in 1..n : PoisonsFirst(trail[i])
    BY DEF PoisonOK, PoisonOf
  <2>. QED  BY <1>1, <1>8, <2>1, <2>2
<1>10. IsSensitiveSink(c) <=> c.sinks # {}
  <2>1. c.sinks \subseteq {"public", "draft"}
    BY CatalogueAssumption DEF CallsOf, IsTrailCall
  <2>. QED  BY <2>1 DEF IsSensitiveSink, SendsOut, DraftsOut
<1>11. PoisonFollowsMarkers'
  BY <1>1, <1>2, <1>9, <1>10 DEF PoisonFollowsMarkers, At, Now, PoisonsFirst
<1>. QED  BY <1>1, <1>5, <1>9, <1>11 DEF PoisonOK, PoisonOf
-----------------------------------------------------------------------------
(* The resources subscribed to partially, call by call.                    *)
Partial(c) == IF SubscribesPartially(c) THEN {SubscriptionMarker(c)} ELSE {}

Partials(calls) == [k \in 1..Len(calls) |-> Partial(calls[k])]

Markers == { SubscriptionMarker(c) : c \in CallsOf }

FloodOK == Tells(recent_partial_subscriptions, Markers, Partials(trail), Len(trail))

LEMMA Counted ==
  ASSUME NEW S, NEW n \in Nat \ {0}, NEW gifts, NEW list, Tells(list, S, gifts, n)
  PROVE  Len(list) >= PARTIAL_FLOOD <=> Cardinality(GivenSince(gifts, n, 1)) >= PARTIAL_FLOOD
<1>. DEFINE E == GivenSince(gifts, n, 1)
            T == { list[i] : i \in 1..Len(list) }
            f == [i \in 1..Len(list) |-> list[i]]
<1>1. Len(list) \in Nat
  BY LenProperties DEF Tells, Listed
<1>2. IsFiniteSet(1..Len(list)) /\ Cardinality(1..Len(list)) = Len(list)
  <2>1. 1 \in Int /\ Len(list) \in Int /\ (IF 1 > Len(list) THEN 0 ELSE Len(list) - 1 + 1) = Len(list)
    BY <1>1
  <2>. HIDE DEF f, T, E
  <2>2. /\ IsFiniteSet(1..Len(list))
        /\ Cardinality(1..Len(list)) = IF 1 > Len(list) THEN 0 ELSE Len(list) - 1 + 1
    BY <2>1, FS_Interval, Zenon
  <2>. QED  BY <2>1, <2>2
<1>3. f \in Bijection(1..Len(list), T)
  BY DEF Bijection, Injection, Surjection, IsInjective, Tells, Listed, Distinct
<1>4. IsFiniteSet(T) /\ Cardinality(T) = Len(list)
  <2>1. ExistsBijection(1..Len(list), T)
    BY <1>3 DEF ExistsBijection
  <2>. QED  BY <1>2, <2>1, FS_Bijection
<1>5. /\ T \subseteq E /\ IsFiniteSet(E)
      /\ T = E \/ (Len(list) = SESSION_LIST_LIMIT /\ Cardinality(E) > SESSION_LIST_LIMIT)
  <2>1. 1 \in 1..n
    OBVIOUS
  <2>. QED  BY <2>1 DEF Tells, Knows, Among
<1>. HIDE DEF T, E
<1>6. Cardinality(E) \in Nat
  BY <1>5, FS_CardinalityType
<1>7. PARTIAL_FLOOD \in 1..SESSION_LIST_LIMIT /\ SESSION_LIST_LIMIT \in Nat
  BY PartialFloodAssumption, ListLimitAssumption
<1>. QED  BY <1>1, <1>4, <1>5, <1>6, <1>7 DEF E

LEMMA FloodStep ==
  ASSUME HistoryOK, FloodOK, NEW c \in CallsOf, Scores(c), theme' = theme
  PROVE  FloodOK' /\ FloodExactly'
<1>. DEFINE n == Len(trail)
            list == recent_partial_subscriptions
            marker == SubscriptionMarker(c)
            more == Partials(trail')
            flag == "partial_subscription_flood"
<1>1. /\ n \in Nat /\ Len(trail') = n + 1
      /\ \A i \in 1..n : trail'[i] = trail[i]
      /\ trail'[n + 1] = c
  BY HistoryGrows DEF Grown, HistoryOK
<1>2. /\ flag \in fired' <=> Floods(c)
      /\ list' = IF SubscribesPartially(c) THEN Remember(list, marker) ELSE list
  BY FlagMeans DEF Scores, LifecycleStep, RememberIf
<1>3. /\ \A k \in 1..(n + 1) : more[k] = Partial(trail'[k])
      /\ \A k \in 1..n : more[k] = Partials(trail)[k]
      /\ more[n + 1] = Partial(c)
  BY <1>1 DEF Partials
<1>4. Tells(list, Markers, Partials(trail), n) /\ marker \in Markers
  BY DEF FloodOK, Markers
<1>. HIDE DEF more
<1>5. Tells(list', Markers, more, n + 1)
  <2>1. CASE SubscribesPartially(c)
    BY <1>1, <1>2, <1>3, <1>4, <2>1, GivenOne DEF Partial
  <2>2. CASE ~SubscribesPartially(c)
    BY <1>1, <1>2, <1>3, <1>4, <2>2, GivenNone DEF Partial
  <2>. QED  BY <2>1, <2>2
<1>6. Len(list') >= PARTIAL_FLOOD <=> Cardinality(GivenSince(more, n + 1, 1)) >= PARTIAL_FLOOD
  BY <1>1, <1>5, Counted
<1>7. GivenSince(more, n + 1, 1) = UNION { Partial(trail'[k]) : k \in 1..(n + 1) }
  BY <1>3 DEF GivenSince
<1>8. FloodExactly'
  <2>. DEFINE U == UNION { Partial(trail'[k]) : k \in 1..Len(trail') }
  <2>1. U = GivenSince(more, n + 1, 1)
    BY <1>1, <1>7
  <2>. HIDE DEF U
  <2>2. flag \in fired' <=>
          /\ Len(trail') > 0
          /\ SubscribesPartially(trail'[Len(trail')])
          /\ Cardinality(U) >= PARTIAL_FLOOD
    BY <1>1, <1>2, <1>6, <2>1 DEF Floods
  <2>. QED  BY <2>2 DEF U, FloodExactly, Since, At, Now, Partial
<1>. QED  BY <1>1, <1>5, <1>8 DEF FloodOK, more
-----------------------------------------------------------------------------
(* The subscriptions ended with a replayed token, call by call.            *)
Ended(c) == IF UnsubscribesReplayed(c) THEN {c.subscription} ELSE {}

Endings(calls) == [k \in 1..Len(calls) |-> Ended(calls[k])]

Subscriptions == { c.subscription : c \in CallsOf }

EndingsOK == Tells(recent_unsubscribed_ids, Subscriptions, Endings(trail), Len(trail))

(* What the last call's flag says of the calls so far.                     *)
NotifyOf(calls, flags) ==
  LET n == Len(calls)
      c == calls[n]
      flag == "notify_after_unsubscribe"
  IN  n > 0 =>
        /\ flag \in flags =>
             /\ c.notifies /\ c.subscription # None
             /\ c.subscription \in GivenSince(Endings(calls), n, 1)
        /\ \A i \in 1..n :
             /\ c.notifies /\ c.subscription # None
             /\ c.subscription \in Endings(calls)[i]
             /\ Cardinality(GivenSince(Endings(calls), n, i)) <= SESSION_LIST_LIMIT
             => flag \in flags

LEMMA NotifySays ==
  ASSUME HistoryOK, NotifyOf(trail, fired)
  PROVE  NotifyAfterUnsubscribeCaught
<1>. DEFINE n == Len(trail)
            c == trail[n]
            flag == "notify_after_unsubscribe"
<1>. SUFFICES ASSUME n > 0 PROVE NotifyAfterUnsubscribeCaught
  BY Zenon DEF NotifyAfterUnsubscribeCaught, Traced, Now
<1>1. n \in Nat /\ \A k \in 1..n : Endings(trail)[k] = Ended(trail[k])
  BY DEF HistoryOK, IsList, Endings
<1>2. \A i \in 1..n : GivenSince(Endings(trail), n, i) = UNION { Ended(trail[k]) : k \in i..n }
  <2>1. \A i \in 1..n : \A k \in i..n : k \in 1..n
    BY <1>1
  <2>. QED  BY <1>1, <2>1 DEF GivenSince
<1>3. /\ flag \in fired =>
           /\ c.notifies /\ c.subscription # None
           /\ c.subscription \in UNION { Ended(trail[k]) : k \in 1..n }
      /\ \A i \in 1..n :
           /\ c.notifies /\ c.subscription # None
           /\ c.subscription \in Ended(trail[i])
           /\ Cardinality(UNION { Ended(trail[k]) : k \in i..n }) <= SESSION_LIST_LIMIT
           => flag \in fired
  <2>1. 1 \in 1..n
    BY <1>1
  <2>. QED  BY <1>1, <1>2, <2>1 DEF NotifyOf
<1>. QED  BY <1>1, <1>3 DEF NotifyAfterUnsubscribeCaught, Traced, InReach, Since, At, Now, Part, Ended

LEMMA EndingsStep ==
  ASSUME HistoryOK, EndingsOK, NEW c \in CallsOf, Scores(c), theme' = theme
  PROVE  EndingsOK' /\ NotifyOf(trail', fired')
<1>. DEFINE n == Len(trail)
            list == recent_unsubscribed_ids
            more == Endings(trail')
            flag == "notify_after_unsubscribe"
<1>1. /\ n \in Nat /\ Len(trail') = n + 1
      /\ \A i \in 1..n : trail'[i] = trail[i]
      /\ trail'[n + 1] = c
  BY HistoryGrows DEF Grown, HistoryOK
<1>2. /\ flag \in fired' <=> c.notifies /\ c.subscription # None /\ Among(c.subscription, list')
      /\ list' = IF UnsubscribesReplayed(c) THEN Remember(list, c.subscription) ELSE list
  BY FlagMeans DEF Scores, LifecycleStep, RememberIf, NotifiesUnsubscribed, Contains, Among
<1>3. /\ \A k \in 1..(n + 1) : more[k] = Ended(trail'[k])
      /\ \A k \in 1..n : more[k] = Endings(trail)[k]
      /\ more[n + 1] = Ended(c)
  BY <1>1 DEF Endings
<1>4. Tells(list, Subscriptions, Endings(trail), n) /\ c.subscription \in Subscriptions
  BY DEF EndingsOK, Subscriptions
<1>. HIDE DEF more
<1>5. Tells(list', Subscriptions, more, n + 1)
  <2>1. CASE UnsubscribesReplayed(c)
    BY <1>1, <1>2, <1>3, <1>4, <2>1, GivenOne DEF Ended
  <2>2. CASE ~UnsubscribesReplayed(c)
    BY <1>1, <1>2, <1>3, <1>4, <2>2, GivenNone DEF Ended
  <2>. QED  BY <2>1, <2>2
<1>6. NotifyOf(trail', fired')
  <2>1. n + 1 \in Nat \ {0} /\ 1 \in 1..(n + 1)
    BY <1>1
  <2>2. /\ Among(c.subscription, list') => c.subscription \in GivenSince(more, n + 1, 1)
        /\ \A i \in 1..(n + 1) :
             /\ c.subscription \in more[i]
             /\ Cardinality(GivenSince(more, n + 1, i)) <= SESSION_LIST_LIMIT
             => Among(c.subscription, list')
    BY <1>5, <2>1, Found
  <2>3. Len(trail') = n + 1 /\ trail'[Len(trail')] = c /\ more = Endings(trail')
    BY <1>1 DEF more
  <2>. QED  BY <1>2, <1>3, <2>1, <2>2, <2>3 DEF NotifyOf
<1>. QED  BY <1>1, <1>5, <1>6 DEF EndingsOK, more
-----------------------------------------------------------------------------
(* The files written, call by call.                                        *)
Writes(c) == c.writes /\ c.path # None

Written(c) == IF Writes(c) THEN {c.path} ELSE {}

Writings(calls) == [k \in 1..Len(calls) |-> Written(calls[k])]

Paths == { c.path : c \in CallsOf }

WritingsOK == Tells(recent_written_artifacts, Paths, Writings(trail), Len(trail))

(* What the last call's flag says of the calls so far.                     *)
RunOf(calls, flags) ==
  LET n == Len(calls)
      c == calls[n]
      flag == "capability_chain_privilege_escalation"
  IN  n > 0 =>
        /\ flag \in flags =>
             /\ c.runs /\ c.path \notin ApprovedPaths \cup {None}
             /\ c.path \in GivenSince(Writings(calls), n, 1)
        /\ \A i \in 1..n :
             /\ c.runs /\ c.path \notin ApprovedPaths \cup {None}
             /\ c.path \in Writings(calls)[i]
             /\ Cardinality(GivenSince(Writings(calls), n, i)) <= SESSION_LIST_LIMIT
             => flag \in flags

LEMMA RunSays ==
  ASSUME HistoryOK, RunOf(trail, fired)
  PROVE  WrittenThenRunCaught
<1>. DEFINE n == Len(trail)
            c == trail[n]
            flag == "capability_chain_privilege_escalation"
<1>. SUFFICES ASSUME n > 0 PROVE WrittenThenRunCaught
  BY Zenon DEF WrittenThenRunCaught, Traced, Now
<1>1. n \in Nat /\ \A k \in 1..n : Writings(trail)[k] = Written(trail[k])
  BY DEF HistoryOK, IsList, Writings
<1>2. \A i \in 1..n : GivenSince(Writings(trail), n, i) = UNION { Written(trail[k]) : k \in i..n }
  <2>1. \A i \in 1..n : \A k \in i..n : k \in 1..n
    BY <1>1
  <2>. QED  BY <1>1, <2>1 DEF GivenSince
<1>3. /\ flag \in fired =>
           /\ c.runs /\ c.path \notin ApprovedPaths \cup {None}
           /\ c.path \in UNION { Written(trail[k]) : k \in 1..n }
      /\ \A i \in 1..n :
           /\ c.runs /\ c.path \notin ApprovedPaths \cup {None}
           /\ c.path \in Written(trail[i])
           /\ Cardinality(UNION { Written(trail[k]) : k \in i..n }) <= SESSION_LIST_LIMIT
           => flag \in fired
  <2>1. 1 \in 1..n
    BY <1>1
  <2>. QED  BY <1>1, <1>2, <2>1 DEF RunOf
<1>. QED  BY <1>1, <1>3 DEF WrittenThenRunCaught, Traced, InReach, Since, At, Now, Part, Written, Writes

LEMMA WritingsStep ==
  ASSUME HistoryOK, WritingsOK, NEW c \in CallsOf, Scores(c), theme' = theme
  PROVE  WritingsOK' /\ RunOf(trail', fired')
<1>. DEFINE n == Len(trail)
            list == recent_written_artifacts
            more == Writings(trail')
            flag == "capability_chain_privilege_escalation"
<1>1. /\ n \in Nat /\ Len(trail') = n + 1
      /\ \A i \in 1..n : trail'[i] = trail[i]
      /\ trail'[n + 1] = c
  BY HistoryGrows DEF Grown, HistoryOK
<1>2. /\ flag \in fired' <=> c.runs /\ c.path \notin ApprovedPaths \cup {None} /\ Among(c.path, list')
      /\ list' = IF Writes(c) THEN Remember(list, c.path) ELSE list
  BY FlagMeans DEF Scores, TaintStep, RememberIf, RunsWritten, Writes, Contains, Among
<1>3. /\ \A k \in 1..(n + 1) : more[k] = Written(trail'[k])
      /\ \A k \in 1..n : more[k] = Writings(trail)[k]
      /\ more[n + 1] = Written(c)
  BY <1>1 DEF Writings
<1>4. Tells(list, Paths, Writings(trail), n) /\ c.path \in Paths
  BY DEF WritingsOK, Paths
<1>. HIDE DEF more
<1>5. Tells(list', Paths, more, n + 1)
  <2>1. CASE Writes(c)
    BY <1>1, <1>2, <1>3, <1>4, <2>1, GivenOne DEF Written
  <2>2. CASE ~Writes(c)
    BY <1>1, <1>2, <1>3, <1>4, <2>2, GivenNone DEF Written
  <2>. QED  BY <2>1, <2>2
<1>6. RunOf(trail', fired')
  <2>1. n + 1 \in Nat \ {0} /\ 1 \in 1..(n + 1)
    BY <1>1
  <2>2. /\ Among(c.path, list') => c.path \in GivenSince(more, n + 1, 1)
        /\ \A i \in 1..(n + 1) :
             /\ c.path \in more[i]
             /\ Cardinality(GivenSince(more, n + 1, i)) <= SESSION_LIST_LIMIT
             => Among(c.path, list')
    BY <1>5, <2>1, Found
  <2>3. Len(trail') = n + 1 /\ trail'[Len(trail')] = c /\ more = Writings(trail')
    BY <1>1 DEF more
  <2>. QED  BY <1>2, <1>3, <2>1, <2>2, <2>3 DEF RunOf
<1>. QED  BY <1>1, <1>5, <1>6 DEF WritingsOK, more
-----------------------------------------------------------------------------
(* What a call's flag says of the values that it looked for, when the list *)
(* it looked on tells what the calls gave.                                 *)
TracedOf(flag, flags, gifts, n, sought) ==
  /\ flag \in flags => \E value \in sought : value \in GivenSince(gifts, n, 1)
  /\ \A value \in sought : \A i \in 1..n :
       /\ value \in gifts[i]
       /\ Cardinality(GivenSince(gifts, n, i)) <= SESSION_LIST_LIMIT
       => flag \in flags

LEMMA TracedOnList ==
  ASSUME NEW S, NEW n \in Nat \ {0}, NEW gifts, NEW list, Tells(list, S, gifts, n),
         NEW flag, NEW flags, NEW sought,
         flag \in flags <=> \E value \in sought : Among(value, list)
  PROVE  TracedOf(flag, flags, gifts, n, sought)
<1>1. \A value : Among(value, list) => value \in GivenSince(gifts, n, 1)
  BY Found
<1>2. \A value : \A i \in 1..n :
        /\ value \in gifts[i]
        /\ Cardinality(GivenSince(gifts, n, i)) <= SESSION_LIST_LIMIT
        => Among(value, list)
  BY Found
<1>. QED  BY <1>1, <1>2 DEF TracedOf

(* The tools that untrusted texts called for, call by call.                *)
Directions(calls) == [k \in 1..Len(calls) |-> ToSet(calls[k].directed)]

Bridges(calls) == [k \in 1..Len(calls) |-> ToSet(calls[k].bridged)]

DirectedOK ==
  /\ Tells(recent_untrusted_plan_directives, STRING, Directions(trail), Len(trail))
  /\ Tells(recent_cross_protocol_directives, STRING, Bridges(trail), Len(trail))

DirectedOf(calls, flags) ==
  LET n == Len(calls)
      tool == Part(calls[n], "tool")
  IN  n > 0 =>
        /\ TracedOf("poisoned_observation_to_action", flags, Directions(calls), n, tool)
        /\ TracedOf("cross_protocol_semantic_bridge", flags, Bridges(calls), n, tool)

LEMMA DirectedSays ==
  ASSUME HistoryOK, DirectedOf(trail, fired)
  PROVE  DirectedToolCaught
<1>. DEFINE n == Len(trail)
<1>. SUFFICES ASSUME n > 0 PROVE DirectedToolCaught
  BY Zenon DEF DirectedToolCaught, Traced, Now
<1>1. n \in Nat /\ 1 \in 1..n /\ \A i \in 1..n : \A k \in i..n : k \in 1..n
  BY DEF HistoryOK, IsList
<1>2. \A i \in 1..n : GivenSince(Directions(trail), n, i) = UNION { ToSet(trail[k].directed) : k \in i..n }
  <2>1. \A k \in 1..n : Directions(trail)[k] = ToSet(trail[k].directed)
    BY <1>1 DEF Directions
  <2>. QED  BY <1>1, <2>1 DEF GivenSince
<1>3. \A i \in 1..n : GivenSince(Bridges(trail), n, i) = UNION { ToSet(trail[k].bridged) : k \in i..n }
  <2>1. \A k \in 1..n : Bridges(trail)[k] = ToSet(trail[k].bridged)
    BY <1>1 DEF Bridges
  <2>. QED  BY <1>1, <2>1 DEF GivenSince
<1>4. /\ "poisoned_observation_to_action" \in fired =>
           Part(trail[n], "tool") \cap UNION { ToSet(trail[k].directed) : k \in 1..n } # {}
      /\ (\E value \in Part(trail[n], "tool"), i \in 1..n :
             /\ value \in ToSet(trail[i].directed)
             /\ Cardinality(UNION { ToSet(trail[k].directed) : k \in i..n }) <= SESSION_LIST_LIMIT)
         => "poisoned_observation_to_action" \in fired
  <2>. DEFINE gifts == Directions(trail)
              sought == Part(trail[n], "tool")
  <2>1. \A k \in 1..n : gifts[k] = ToSet(trail[k].directed)
    BY <1>1 DEF Directions
  <2>2. TracedOf("poisoned_observation_to_action", fired, gifts, n, sought)
    BY DEF DirectedOf
  <2>. HIDE DEF gifts, sought
  <2>3. /\ "poisoned_observation_to_action" \in fired => \E value \in sought : value \in GivenSince(gifts, n, 1)
        /\ \A value \in sought : \A i \in 1..n :
             /\ value \in gifts[i]
             /\ Cardinality(GivenSince(gifts, n, i)) <= SESSION_LIST_LIMIT
             => "poisoned_observation_to_action" \in fired
    BY <2>2, Zenon DEF TracedOf
  <2>. DEFINE since(i) == UNION { ToSet(trail[k].directed) : k \in i..n }
  <2>4. \A i \in 1..n : GivenSince(gifts, n, i) = since(i)
    BY <1>2 DEF gifts
  <2>. HIDE DEF since
  <2>5. /\ "poisoned_observation_to_action" \in fired => sought \cap since(1) # {}
        /\ (\E value \in sought, i \in 1..n :
               value \in ToSet(trail[i].directed) /\ Cardinality(since(i)) <= SESSION_LIST_LIMIT)
           => "poisoned_observation_to_action" \in fired
    BY <1>1, <2>1, <2>3, <2>4
  <2>. QED  BY <2>5 DEF sought, since
<1>5. /\ "cross_protocol_semantic_bridge" \in fired =>
           Part(trail[n], "tool") \cap UNION { ToSet(trail[k].bridged) : k \in 1..n } # {}
      /\ (\E value \in Part(trail[n], "tool"), i \in 1..n :
             /\ value \in ToSet(trail[i].bridged)
             /\ Cardinality(UNION { ToSet(trail[k].bridged) : k \in i..n }) <= SESSION_LIST_LIMIT)
         => "cross_protocol_semantic_bridge" \in fired
  <2>. DEFINE gifts == Bridges(trail)
              sought == Part(trail[n], "tool")
  <2>1. \A k \in 1..n : gifts[k] = ToSet(trail[k].bridged)
    BY <1>1 DEF Bridges
  <2>2. TracedOf("cross_protocol_semantic_bridge", fired, gifts, n, sought)
    BY DEF DirectedOf
  <2>. HIDE DEF gifts, sought
  <2>3. /\ "cross_protocol_semantic_bridge" \in fired => \E value \in sought : value \in GivenSince(gifts, n, 1)
        /\ \A value \in sought : \A i \in 1..n :
             /\ value \in gifts[i]
             /\ Cardinality(GivenSince(gifts, n, i)) <= SESSION_LIST_LIMIT
             => "cross_protocol_semantic_bridge" \in fired
    BY <2>2, Zenon DEF TracedOf
  <2>. DEFINE since(i) == UNION { ToSet(trail[k].bridged) : k \in i..n }
  <2>4. \A i \in 1..n : GivenSince(gifts, n, i) = since(i)
    BY <1>3 DEF gifts
  <2>. HIDE DEF since
  <2>5. /\ "cross_protocol_semantic_bridge" \in fired => sought \cap since(1) # {}
        /\ (\E value \in sought, i \in 1..n :
               value \in ToSet(trail[i].bridged) /\ Cardinality(since(i)) <= SESSION_LIST_LIMIT)
           => "cross_protocol_semantic_bridge" \in fired
    BY <1>1, <2>1, <2>3, <2>4
  <2>. QED  BY <2>5 DEF sought, since
<1>. QED  BY <1>1, <1>4, <1>5 DEF DirectedToolCaught, Traced, InReach, Since, At, Now

LEMMA DirectedStep ==
  ASSUME HistoryOK, DirectedOK, NEW c \in CallsOf, Scores(c), theme' = theme
  PROVE  DirectedOK' /\ DirectedOf(trail', fired')
<1>. DEFINE n == Len(trail)
            directions == Directions(trail')
            bridges == Bridges(trail')
            tool == Part(c, "tool")
<1>1. /\ n \in Nat /\ Len(trail') = n + 1
      /\ \A i \in 1..n : trail'[i] = trail[i]
      /\ trail'[n + 1] = c
  BY HistoryGrows DEF Grown, HistoryOK
<1>2. /\ recent_untrusted_plan_directives' =
           RememberAll(recent_untrusted_plan_directives, c.directed)
      /\ recent_cross_protocol_directives' =
           RememberAll(recent_cross_protocol_directives, c.bridged)
      /\ fired' = Flags(c)
  BY DEF Scores, IntentStep
<1>3. c.directed \in Seq(STRING) /\ c.bridged \in Seq(STRING)
  BY CatalogueAssumption DEF CallsOf, IsTrailCall
<1>4. /\ \A k \in 1..n : directions[k] = Directions(trail)[k] /\ bridges[k] = Bridges(trail)[k]
      /\ directions[n + 1] = ToSet(c.directed) /\ bridges[n + 1] = ToSet(c.bridged)
  BY <1>1 DEF Directions, Bridges
<1>. HIDE DEF directions, bridges
<1>5. Tells(recent_untrusted_plan_directives', STRING, directions, n + 1)
  BY <1>1, <1>2, <1>3, <1>4, GivenAll DEF DirectedOK
<1>6. Tells(recent_cross_protocol_directives', STRING, bridges, n + 1)
  BY <1>1, <1>2, <1>3, <1>4, GivenAll DEF DirectedOK
<1>7. /\ "poisoned_observation_to_action" \in fired' <=>
           \E value \in tool : Among(value, recent_untrusted_plan_directives')
      /\ "cross_protocol_semantic_bridge" \in fired' <=>
           \E value \in tool : Among(value, recent_cross_protocol_directives')
  BY <1>2, FlagMeans DEF FollowsDirective, CrossesProtocols, Contains, Among, Part
<1>. HIDE DEF tool
<1>8. n + 1 \in Nat \ {0}
  BY <1>1
<1>9. /\ TracedOf("poisoned_observation_to_action", fired', directions, n + 1, tool)
      /\ TracedOf("cross_protocol_semantic_bridge", fired', bridges, n + 1, tool)
  BY <1>5, <1>6, <1>7, <1>8, TracedOnList
<1>10. Len(trail') = n + 1 /\ trail'[Len(trail')] = c
  BY <1>1
<1>11. DirectedOf(trail', fired')
  BY <1>9, <1>10 DEF DirectedOf, directions, bridges, tool
<1>. QED  BY <1>1, <1>5, <1>6, <1>11 DEF DirectedOK, directions, bridges
-----------------------------------------------------------------------------
(* The markers of the results, call by call, and those that a call takes   *)
(* out in public, in a link or in a draft.                                 *)
MarkersOf(calls) == [k \in 1..Len(calls) |-> ToSet(calls[k].result_markers)]

MarkersOK == Tells(recent_sensitive_markers, STRING, MarkersOf(trail), Len(trail))

TakenOut(c) == IF "public" \in c.sinks \/ Exfiltrates(c) THEN CurrentMarkers(c) ELSE {}

Drafted(c) == IF "draft" \in c.sinks THEN CurrentMarkers(c) ELSE {}

LeakOf(calls, flags) ==
  LET n == Len(calls)
  IN  n > 0 =>
        /\ TracedOf("multi_tool_exfiltration_chain", flags, MarkersOf(calls), n, TakenOut(calls[n]))
        /\ TracedOf("cross_tool_scope_leakage", flags, MarkersOf(calls), n, Drafted(calls[n]))

LEMMA LeakSays ==
  ASSUME HistoryOK, LeakOf(trail, fired)
  PROVE  ExfiltrationCaught
<1>. DEFINE n == Len(trail)
<1>. SUFFICES ASSUME n > 0 PROVE ExfiltrationCaught
  BY Zenon DEF ExfiltrationCaught, Traced, Now
<1>1. n \in Nat /\ 1 \in 1..n /\ \A i \in 1..n : \A k \in i..n : k \in 1..n
  BY DEF HistoryOK, IsList
<1>2. \A i \in 1..n : GivenSince(MarkersOf(trail), n, i) = UNION { ToSet(trail[k].result_markers) : k \in i..n }
  <2>1. \A k \in 1..n : MarkersOf(trail)[k] = ToSet(trail[k].result_markers)
    BY <1>1 DEF MarkersOf
  <2>. QED  BY <1>1, <2>1 DEF GivenSince
<1>3. /\ "multi_tool_exfiltration_chain" \in fired =>
           TakenOut(trail[n]) \cap UNION { ToSet(trail[k].result_markers) : k \in 1..n } # {}
      /\ (\E value \in TakenOut(trail[n]), i \in 1..n :
             /\ value \in ToSet(trail[i].result_markers)
             /\ Cardinality(UNION { ToSet(trail[k].result_markers) : k \in i..n }) <= SESSION_LIST_LIMIT)
         => "multi_tool_exfiltration_chain" \in fired
  <2>. DEFINE gifts == MarkersOf(trail)
              sought == TakenOut(trail[n])
  <2>1. \A k \in 1..n : gifts[k] = ToSet(trail[k].result_markers)
    BY <1>1 DEF MarkersOf
  <2>2. TracedOf("multi_tool_exfiltration_chain", fired, gifts, n, sought)
    BY DEF LeakOf
  <2>. HIDE DEF gifts, sought
  <2>3. /\ "multi_tool_exfiltration_chain" \in fired => \E value \in sought : value \in GivenSince(gifts, n, 1)
        /\ \A value \in sought : \A i \in 1..n :
             /\ value \in gifts[i]
             /\ Cardinality(GivenSince(gifts, n, i)) <= SESSION_LIST_LIMIT
             => "multi_tool_exfiltration_chain" \in fired
    BY <2>2, Zenon DEF TracedOf
  <2>. DEFINE since(i) == UNION { ToSet(trail[k].result_markers) : k \in i..n }
  <2>4. \A i \in 1..n : GivenSince(gifts, n, i) = since(i)
    BY <1>2 DEF gifts
  <2>. HIDE DEF since
  <2>5. /\ "multi_tool_exfiltration_chain" \in fired => sought \cap since(1) # {}
        /\ (\E value \in sought, i \in 1..n :
               value \in ToSet(trail[i].result_markers) /\ Cardinality(since(i)) <= SESSION_LIST_LIMIT)
           => "multi_tool_exfiltration_chain" \in fired
    BY <1>1, <2>1, <2>3, <2>4
  <2>. QED  BY <2>5 DEF sought, since
<1>4. /\ "cross_tool_scope_leakage" \in fired =>
           Drafted(trail[n]) \cap UNION { ToSet(trail[k].result_markers) : k \in 1..n } # {}
      /\ (\E value \in Drafted(trail[n]), i \in 1..n :
             /\ value \in ToSet(trail[i].result_markers)
             /\ Cardinality(UNION { ToSet(trail[k].result_markers) : k \in i..n }) <= SESSION_LIST_LIMIT)
         => "cross_tool_scope_leakage" \in fired
  <2>. DEFINE gifts == MarkersOf(trail)
              sought == Drafted(trail[n])
  <2>1. \A k \in 1..n : gifts[k] = ToSet(trail[k].result_markers)
    BY <1>1 DEF MarkersOf
  <2>2. TracedOf("cross_tool_scope_leakage", fired, gifts, n, sought)
    BY DEF LeakOf
  <2>. HIDE DEF gifts, sought
  <2>3. /\ "cross_tool_scope_leakage" \in fired => \E value \in sought : value \in GivenSince(gifts, n, 1)
        /\ \A value \in sought : \A i \in 1..n :
             /\ value \in gifts[i]
             /\ Cardinality(GivenSince(gifts, n, i)) <= SESSION_LIST_LIMIT
             => "cross_tool_scope_leakage" \in fired
    BY <2>2, Zenon DEF TracedOf
  <2>. DEFINE since(i) == UNION { ToSet(trail[k].result_markers) : k \in i..n }
  <2>4. \A i \in 1..n : GivenSince(gifts, n, i) = since(i)
    BY <1>2 DEF gifts
  <2>. HIDE DEF since
  <2>5. /\ "cross_tool_scope_leakage" \in fired => sought \cap since(1) # {}
        /\ (\E value \in sought, i \in 1..n :
               value \in ToSet(trail[i].result_markers) /\ Cardinality(since(i)) <= SESSION_LIST_LIMIT)
           => "cross_tool_scope_leakage" \in fired
    BY <1>1, <2>1, <2>3, <2>4
  <2>. QED  BY <2>5 DEF sought, since
<1>. QED  BY <1>1, <1>3, <1>4 DEF ExfiltrationCaught, Traced, InReach, Since, At, Now, TakenOut, Drafted

LEMMA LeakStep ==
  ASSUME HistoryOK, MarkersOK, NEW c \in CallsOf, Scores(c), theme' = theme
  PROVE  MarkersOK' /\ LeakOf(trail', fired')
<1>. DEFINE n == Len(trail)
            list == recent_sensitive_markers
            more == MarkersOf(trail')
            out == TakenOut(c)
            drafted == Drafted(c)
<1>1. /\ n \in Nat /\ Len(trail') = n + 1
      /\ \A i \in 1..n : trail'[i] = trail[i]
      /\ trail'[n + 1] = c
  BY HistoryGrows DEF Grown, HistoryOK
<1>2. list' = RememberAll(list, c.result_markers) /\ fired' = Flags(c)
  BY DEF Scores, TaintStep
<1>3. c.result_markers \in Seq(STRING)
  BY CatalogueAssumption DEF CallsOf, IsTrailCall
<1>4. /\ \A k \in 1..n : more[k] = MarkersOf(trail)[k]
      /\ more[n + 1] = ToSet(c.result_markers)
  BY <1>1 DEF MarkersOf
<1>. HIDE DEF more
<1>5. Tells(list', STRING, more, n + 1)
  BY <1>1, <1>2, <1>3, <1>4, GivenAll DEF MarkersOK
<1>6. \A value : Among(value, list') <=> value \in ToSet(list')
  <2>. DEFINE new == list'
  <2>1. new \in Seq(STRING)
    BY <1>5 DEF Tells, Listed
  <2>. HIDE DEF new
  <2>2. DOMAIN new = 1..Len(new)
    BY <2>1, LenProperties
  <2>3. \A value : Among(value, new) <=> value \in ToSet(new)
    BY <2>2 DEF Among, ToSet
  <2>. QED  BY <2>3 DEF new
<1>7. /\ "multi_tool_exfiltration_chain" \in fired' <=> \E value \in out : Among(value, list')
      /\ "cross_tool_scope_leakage" \in fired' <=> \E value \in drafted : Among(value, list')
  <2>1. Carries(c, list') <=> \E value \in CurrentMarkers(c) : Among(value, list')
    BY <1>6 DEF Carries
  <2>. QED  BY <1>2, <2>1, FlagMeans DEF SendsOut, DraftsOut, TakenOut, Drafted
<1>. HIDE DEF out, drafted
<1>8. n + 1 \in Nat \ {0}
  BY <1>1
<1>9. /\ TracedOf("multi_tool_exfiltration_chain", fired', more, n + 1, out)
      /\ TracedOf("cross_tool_scope_leakage", fired', more, n + 1, drafted)
  BY <1>5, <1>7, <1>8, TracedOnList
<1>10. Len(trail') = n + 1 /\ trail'[Len(trail')] = c
  BY <1>1
<1>11. LeakOf(trail', fired')
  BY <1>9, <1>10 DEF LeakOf, more, out, drafted
<1>. QED  BY <1>1, <1>5, <1>11 DEF MarkersOK, more
-----------------------------------------------------------------------------
(* Of the values given from a call on, as many are of a kind as the list   *)
(* holds of it, up to what it can hold.                                    *)
LEMMA Variants ==
  ASSUME NEW S, NEW n \in Nat \ {0}, NEW gifts, NEW list, Tells(list, S, gifts, n),
         NEW K, NEW enough \in Nat
  PROVE  /\ Cardinality(ToSet(list) \cap K) \in Nat
         /\ Cardinality(ToSet(list) \cap K) >= enough =>
              Cardinality(GivenSince(gifts, n, 1) \cap K) >= enough
         /\ \A i \in 1..n :
              /\ Cardinality(GivenSince(gifts, n, i)) <= SESSION_LIST_LIMIT
              /\ Cardinality(GivenSince(gifts, n, i) \cap K) >= enough
              => Cardinality(ToSet(list) \cap K) >= enough
<1>. DEFINE T == ToSet(list)
            D(i) == GivenSince(gifts, n, i)
<1>1. \A value : value \in T <=> Among(value, list)
  BY LenProperties DEF Tells, Listed, Among, ToSet
<1>2. 1 \in 1..n /\ \A i \in 1..n : IsFiniteSet(D(i))
  BY DEF Tells, Knows
<1>3. T \subseteq D(1)
  BY <1>1 DEF Tells
<1>4. ASSUME NEW i \in 1..n, Cardinality(D(i)) <= SESSION_LIST_LIMIT
      PROVE  D(i) \subseteq T
  <2>1. Cardinality(D(i)) \in Nat /\ SESSION_LIST_LIMIT \in Nat
    BY <1>2, FS_CardinalityType, ListLimitAssumption
  <2>2. (\A x \in D(i) : Among(x, list)) \/ Cardinality(D(i)) > SESSION_LIST_LIMIT
    BY DEF Tells, Knows
  <2>. HIDE DEF D
  <2>. QED  BY <1>1, <1>4, <2>1, <2>2
<1>. HIDE DEF T, D
<1>5. IsFiniteSet(T) /\ IsFiniteSet(T \cap K)
  BY <1>2, <1>3, FS_Subset
<1>6. Cardinality(T \cap K) \in Nat
  BY <1>5, FS_CardinalityType
<1>7. ASSUME Cardinality(T \cap K) >= enough PROVE Cardinality(D(1) \cap K) >= enough
  <2>1. T \cap K \subseteq D(1) \cap K /\ IsFiniteSet(D(1) \cap K)
    BY <1>2, <1>3, FS_Subset
  <2>2. Cardinality(T \cap K) <= Cardinality(D(1) \cap K) /\ Cardinality(D(1) \cap K) \in Nat
    BY <2>1, FS_Subset, FS_CardinalityType
  <2>. QED  BY <1>6, <1>7, <2>2
<1>8. ASSUME NEW i \in 1..n, Cardinality(D(i)) <= SESSION_LIST_LIMIT,
             Cardinality(D(i) \cap K) >= enough
      PROVE  Cardinality(T \cap K) >= enough
  <2>1. D(i) \cap K \subseteq T \cap K /\ IsFiniteSet(D(i) \cap K)
    BY <1>2, <1>4, <1>8, FS_Subset
  <2>2. Cardinality(D(i) \cap K) <= Cardinality(T \cap K) /\ Cardinality(D(i) \cap K) \in Nat
    BY <1>5, <2>1, FS_Subset, FS_CardinalityType
  <2>. QED  BY <1>6, <1>8, <2>2
<1>. QED  BY <1>6, <1>7, <1>8 DEF T, D

(* A count rises above nothing only on enough variants, and reaches them.  *)
LEMMA CountAfterMeans ==
  ASSUME NEW count \in Nat, NEW variants \in Nat, NEW enough \in Nat \ {0}
  PROVE  /\ CountAfter(count, variants, enough) \in Nat
         /\ variants >= enough => CountAfter(count, variants, enough) >= enough
         /\ CountAfter(count, variants, enough) > 0 => variants >= enough \/ count > 0
BY DEF CountAfter

(* The probes of the calls, and whether enough of them are on one profile. *)
Payments(calls) == [k \in 1..Len(calls) |-> { p \in calls[k].payment : ~Blank(p) }]

Queries(calls) == [k \in 1..Len(calls) |-> calls[k].oracle]

AllPayments == UNION { c.payment : c \in CallsOf }

AllQueries == UNION { c.oracle : c \in CallsOf }

EnoughCards(given) ==
  \E probe \in given : Cardinality({ v \in given : SameCard(v, probe) }) >= PAYMENT_VARIANTS

EnoughFragments(given) ==
  \E probe \in given : Cardinality({ v \in given : SameFragment(v, probe) }) >= ORACLE_VARIANTS

ProbesOK ==
  /\ Tells(recent_payment_attempt_signatures, AllPayments, Payments(trail), Len(trail))
  /\ payment_verification_attempt_count \in Nat
  /\ payment_verification_attempt_count > 0 =>
       EnoughCards(GivenSince(Payments(trail), Len(trail), 1))
  /\ Tells(recent_oracle_signatures, AllQueries, Queries(trail), Len(trail))
  /\ oracle_iteration_count \in Nat
  /\ oracle_iteration_count > 0 =>
       EnoughFragments(GivenSince(Queries(trail), Len(trail), 1))

PaymentsOf(calls, flags) ==
  LET n == Len(calls)
      gifts == Payments(calls)
      flag == "payment_verification_bruteforce"
  IN  n > 0 =>
        /\ flag \in flags => EnoughCards(GivenSince(gifts, n, 1))
        /\ \A probe \in gifts[n], i \in 1..n :
             /\ Cardinality(GivenSince(gifts, n, i)) <= SESSION_LIST_LIMIT
             /\ Cardinality({ v \in GivenSince(gifts, n, i) : SameCard(v, probe) })
                  >= PAYMENT_VARIANTS
             => flag \in flags

QueriesOf(calls, flags) ==
  LET n == Len(calls)
      gifts == Queries(calls)
      flag == "tool_oracle_iteration_risk"
  IN  n > 0 =>
        /\ flag \in flags => EnoughFragments(GivenSince(gifts, n, 1))
        /\ \A probe \in gifts[n], i \in 1..n :
             /\ Cardinality(GivenSince(gifts, n, i)) <= SESSION_LIST_LIMIT
             /\ Cardinality({ v \in GivenSince(gifts, n, i) : SameFragment(v, probe) })
                  >= ORACLE_VARIANTS
             => flag \in flags

LEMMA EnoughCardsStay ==
  ASSUME NEW A, NEW B, A \subseteq B, IsFiniteSet(B), EnoughCards(A)
  PROVE  EnoughCards(B)
<1>1. PICK probe \in A : Cardinality({ v \in A : SameCard(v, probe) }) >= PAYMENT_VARIANTS
  BY DEF EnoughCards
<1>. DEFINE small == { v \in A : SameCard(v, probe) }
            large == { v \in B : SameCard(v, probe) }
<1>2. small \subseteq large /\ large \subseteq B
  OBVIOUS
<1>. HIDE DEF small, large
<1>3. IsFiniteSet(large) /\ IsFiniteSet(small) /\ Cardinality(small) <= Cardinality(large)
  BY <1>2, FS_Subset
<1>4. Cardinality(small) \in Nat /\ Cardinality(large) \in Nat /\ PAYMENT_VARIANTS \in Nat
  BY <1>3, FS_CardinalityType, VariantsAssumption
<1>5. Cardinality(large) >= PAYMENT_VARIANTS
  BY <1>1, <1>3, <1>4 DEF small
<1>. QED  BY <1>5 DEF EnoughCards, large

LEMMA EnoughFragmentsStay ==
  ASSUME NEW A, NEW B, A \subseteq B, IsFiniteSet(B), EnoughFragments(A)
  PROVE  EnoughFragments(B)
<1>1. PICK probe \in A : Cardinality({ v \in A : SameFragment(v, probe) }) >= ORACLE_VARIANTS
  BY DEF EnoughFragments
<1>. DEFINE small == { v \in A : SameFragment(v, probe) }
            large == { v \in B : SameFragment(v, probe) }
<1>2. small \subseteq large /\ large \subseteq B
  OBVIOUS
<1>. HIDE DEF small, large
<1>3. IsFiniteSet(large) /\ IsFiniteSet(small) /\ Cardinality(small) <= Cardinality(large)
  BY <1>2, FS_Subset
<1>4. Cardinality(small) \in Nat /\ Cardinality(large) \in Nat /\ ORACLE_VARIANTS \in Nat
  BY <1>3, FS_CardinalityType, VariantsAssumption
<1>5. Cardinality(large) >= ORACLE_VARIANTS
  BY <1>1, <1>3, <1>4 DEF small
<1>. QED  BY <1>5 DEF EnoughFragments, large

LEMMA PaymentStepKeeps ==
  ASSUME HistoryOK, ProbesOK, NEW c \in CallsOf, Scores(c), theme' = theme
  PROVE  /\ Tells(recent_payment_attempt_signatures', AllPayments, Payments(trail'), Len(trail'))
         /\ payment_verification_attempt_count' \in Nat
         /\ payment_verification_attempt_count' > 0 =>
              EnoughCards(GivenSince(Payments(trail'), Len(trail'), 1))
         /\ PaymentsOf(trail', fired')
<1>. DEFINE n == Len(trail)
            m == n + 1
            list == recent_payment_attempt_signatures
            count == payment_verification_attempt_count
            gifts == Payments(trail)
            more == Payments(trail')
            given == GivenSince(more, m, 1)
            probes == { p \in c.payment : ~Blank(p) }
            flag == "payment_verification_bruteforce"
            same(probe) == { v \in given : SameCard(v, probe) }
<1>1. /\ n \in Nat /\ m \in Nat \ {0} /\ Len(trail') = m
      /\ \A i \in 1..n : trail'[i] = trail[i]
      /\ trail'[m] = c
  BY HistoryGrows DEF Grown, HistoryOK
<1>2. \A k \in 1..n : more[k] = gifts[k]
  BY <1>1 DEF Payments
<1>3. more[m] = probes
  BY <1>1 DEF Payments
<1>4. /\ Tells(list, AllPayments, gifts, n) /\ count \in Nat
      /\ count > 0 => EnoughCards(GivenSince(gifts, n, 1))
      /\ probes \subseteq AllPayments
  BY DEF ProbesOK, AllPayments
<1>5. PAYMENT_VARIANTS \in Nat \ {0}
  BY VariantsAssumption
<1>6. /\ flag \in fired' <=> c.payment # {} /\ count' >= 1
      /\ PaymentStep(c)
  BY FlagMeans DEF Scores, ProbeStep
<1>. HIDE DEF more, gifts
<1>7. given = GivenSince(gifts, n, 1) \cup probes
  <2>1. GivenSince(more, n + 1, 1) = GivenSince(gifts, n, 1) \cup more[n + 1]
    BY <1>1, <1>2, GivenMore
  <2>. QED  BY <1>3, <2>1
<1>. HIDE DEF probes, m
<1>8. CASE probes = {}
  <2>1. list' = list /\ count' = count
    BY <1>6, <1>8 DEF PaymentStep, probes
  <2>2. Tells(list', AllPayments, more, m)
    BY <1>1, <1>2, <1>3, <1>4, <1>8, <2>1, GivenNone DEF m
  <2>3. EnoughCards(GivenSince(gifts, n, 1)) => EnoughCards(given)
    <3>1. given = GivenSince(gifts, n, 1)
      BY <1>7, <1>8
    <3>. HIDE DEF given
    <3>. QED  BY <3>1
  <2>4. flag \in fired' => EnoughCards(given)
    BY <1>4, <1>5, <1>6, <2>1, <2>3
  <2>5. PaymentsOf(trail', fired')
    BY <1>1, <1>3, <1>8, <2>4, Zenon DEF PaymentsOf, more
  <2>. QED  BY <1>1, <1>4, <2>1, <2>2, <2>3, <2>5 DEF more
<1>9. ASSUME NEW p \in probes
      PROVE  /\ Tells(list', AllPayments, more, m)
             /\ count' \in Nat
             /\ count' > 0 => EnoughCards(given)
             /\ PaymentsOf(trail', fired')
  <2>. DEFINE variants == CardVariants(list', p)
  <2>1. \A q \in probes : q = p
    BY CatalogueAssumption DEF CallsOf, IsTrailCall, probes
  <2>2. /\ list' = Remember(list, p)
        /\ count' = CountAfter(count, variants, PAYMENT_VARIANTS)
    BY <1>6, <2>1 DEF PaymentStep, probes
  <2>3. more[m] = {p} /\ p \in AllPayments /\ p \in given
    BY <1>3, <1>4, <1>7, <2>1
  <2>4. Tells(list', AllPayments, more, m)
    BY <1>1, <1>2, <1>4, <2>2, <2>3, GivenOne DEF m
  <2>5. given \in SUBSET given /\ IsFiniteSet(given) /\ ToSet(list') \subseteq given
        /\ \A i \in 1..m : GivenSince(more, m, i) \subseteq given
    <3>1. 1 \in 1..m /\ \A i \in 1..m : \A k \in i..m : k \in 1..m
      BY <1>1
    <3>2. \A i \in 1..m : GivenSince(more, m, i) \subseteq given
      BY <3>1 DEF GivenSince
    <3>3. IsFiniteSet(given) /\ \A x : Among(x, list') => x \in given
      BY <2>4, <3>1 DEF Tells, Knows
    <3>. DEFINE new == list'
    <3>4. new \in Seq(AllPayments)
      BY <2>4 DEF Tells, Listed
    <3>. HIDE DEF new
    <3>5. ToSet(new) = { new[i] : i \in 1..Len(new) }
      BY <3>4, LenProperties DEF ToSet
    <3>. QED  BY <3>2, <3>3, <3>5 DEF Among, new
  <2>. DEFINE K == same(p)
  <2>6. /\ variants = Cardinality(ToSet(list') \cap K)
        /\ given \cap K = { v \in given : SameCard(v, p) }
        /\ \A i \in 1..m : GivenSince(more, m, i) \cap K
                           = { v \in GivenSince(more, m, i) : SameCard(v, p) }
    <3>1. ToSet(list') \cap K = { v \in ToSet(list') : SameCard(v, p) }
      BY <2>5
    <3>2. \A i \in 1..m : GivenSince(more, m, i) \cap K
                           = { v \in GivenSince(more, m, i) : SameCard(v, p) }
      BY <2>5
    <3>. QED  BY <3>1, <3>2 DEF CardVariants
  <2>. HIDE DEF K, given, same, variants
  <2>7. /\ variants \in Nat
        /\ variants >= PAYMENT_VARIANTS => Cardinality(given \cap K) >= PAYMENT_VARIANTS
        /\ \A i \in 1..m :
             /\ Cardinality(GivenSince(more, m, i)) <= SESSION_LIST_LIMIT
             /\ Cardinality(GivenSince(more, m, i) \cap K) >= PAYMENT_VARIANTS
             => variants >= PAYMENT_VARIANTS
    <3>1. /\ Cardinality(ToSet(list') \cap K) \in Nat
          /\ Cardinality(ToSet(list') \cap K) >= PAYMENT_VARIANTS =>
               Cardinality(GivenSince(more, m, 1) \cap K) >= PAYMENT_VARIANTS
          /\ \A i \in 1..m :
               /\ Cardinality(GivenSince(more, m, i)) <= SESSION_LIST_LIMIT
               /\ Cardinality(GivenSince(more, m, i) \cap K) >= PAYMENT_VARIANTS
               => Cardinality(ToSet(list') \cap K) >= PAYMENT_VARIANTS
      BY <1>1, <1>5, <2>4, Variants
    <3>. QED  BY <2>6, <3>1 DEF given
  <2>8. /\ count' \in Nat
        /\ variants >= PAYMENT_VARIANTS => count' >= PAYMENT_VARIANTS
        /\ count' > 0 => variants >= PAYMENT_VARIANTS \/ count > 0
    BY <1>4, <1>5, <2>2, <2>7, CountAfterMeans
  <2>9. count' > 0 => EnoughCards(given)
    <3>1. variants >= PAYMENT_VARIANTS => EnoughCards(given)
      BY <2>3, <2>6, <2>7 DEF EnoughCards
    <3>2. count > 0 => EnoughCards(given)
      BY <1>4, <1>7, <2>5, EnoughCardsStay
    <3>. QED  BY <2>8, <3>1, <3>2
  <2>10. flag \in fired' => EnoughCards(given)
    BY <1>5, <1>6, <2>8, <2>9
  <2>11. variants >= PAYMENT_VARIANTS => flag \in fired'
    BY <1>5, <1>6, <2>8 DEF probes
  <2>12. PaymentsOf(trail', fired')
    <3>1. \A probe \in more[m], i \in 1..m :
            /\ Cardinality(GivenSince(more, m, i)) <= SESSION_LIST_LIMIT
            /\ Cardinality({ v \in GivenSince(more, m, i) : SameCard(v, probe) }) >= PAYMENT_VARIANTS
            => flag \in fired'
      <4>. SUFFICES ASSUME NEW i \in 1..m,
                      Cardinality(GivenSince(more, m, i)) <= SESSION_LIST_LIMIT,
                      Cardinality({ v \in GivenSince(more, m, i) : SameCard(v, p) }) >= PAYMENT_VARIANTS
                    PROVE  flag \in fired'
        BY <2>3
      <4>1. Cardinality(GivenSince(more, m, i) \cap K) >= PAYMENT_VARIANTS
        BY <2>6
      <4>. QED  BY <2>7, <2>11, <4>1
    <3>. QED  BY <1>1, <2>10, <3>1, Zenon DEF PaymentsOf, more, given
  <2>. QED  BY <2>4, <2>8, <2>9, <2>12
<1>. QED  BY <1>1, <1>8, <1>9 DEF more

LEMMA OracleStepKeeps ==
  ASSUME HistoryOK, ProbesOK, NEW c \in CallsOf, Scores(c), theme' = theme
  PROVE  /\ Tells(recent_oracle_signatures', AllQueries, Queries(trail'), Len(trail'))
         /\ oracle_iteration_count' \in Nat
         /\ oracle_iteration_count' > 0 =>
              EnoughFragments(GivenSince(Queries(trail'), Len(trail'), 1))
         /\ QueriesOf(trail', fired')
<1>. DEFINE n == Len(trail)
            m == n + 1
            list == recent_oracle_signatures
            count == oracle_iteration_count
            gifts == Queries(trail)
            more == Queries(trail')
            given == GivenSince(more, m, 1)
            probes == c.oracle
            flag == "tool_oracle_iteration_risk"
            same(probe) == { v \in given : SameFragment(v, probe) }
<1>1. /\ n \in Nat /\ m \in Nat \ {0} /\ Len(trail') = m
      /\ \A i \in 1..n : trail'[i] = trail[i]
      /\ trail'[m] = c
  BY HistoryGrows DEF Grown, HistoryOK
<1>2. \A k \in 1..n : more[k] = gifts[k]
  BY <1>1 DEF Queries
<1>3. more[m] = probes
  BY <1>1 DEF Queries
<1>4. /\ Tells(list, AllQueries, gifts, n) /\ count \in Nat
      /\ count > 0 => EnoughFragments(GivenSince(gifts, n, 1))
      /\ probes \subseteq AllQueries
  BY DEF ProbesOK, AllQueries
<1>5. ORACLE_VARIANTS \in Nat \ {0}
  BY VariantsAssumption
<1>6. /\ flag \in fired' <=> count' >= ORACLE_VARIANTS
      /\ OracleStep(c)
  BY FlagMeans DEF Scores, ProbeStep
<1>. HIDE DEF more, gifts
<1>7. given = GivenSince(gifts, n, 1) \cup probes
  <2>1. GivenSince(more, n + 1, 1) = GivenSince(gifts, n, 1) \cup more[n + 1]
    BY <1>1, <1>2, GivenMore
  <2>. QED  BY <1>3, <2>1
<1>. HIDE DEF probes, m
<1>8. CASE probes = {}
  <2>1. list' = list /\ count' = count
    BY <1>6, <1>8 DEF OracleStep, probes
  <2>2. Tells(list', AllQueries, more, m)
    BY <1>1, <1>2, <1>3, <1>4, <1>8, <2>1, GivenNone DEF m
  <2>3. EnoughFragments(GivenSince(gifts, n, 1)) => EnoughFragments(given)
    <3>1. given = GivenSince(gifts, n, 1)
      BY <1>7, <1>8
    <3>. HIDE DEF given
    <3>. QED  BY <3>1
  <2>4. flag \in fired' => EnoughFragments(given)
    BY <1>4, <1>5, <1>6, <2>1, <2>3
  <2>5. QueriesOf(trail', fired')
    BY <1>1, <1>3, <1>8, <2>4, Zenon DEF QueriesOf, more
  <2>. QED  BY <1>1, <1>4, <2>1, <2>2, <2>3, <2>5 DEF more
<1>9. ASSUME NEW p \in probes
      PROVE  /\ Tells(list', AllQueries, more, m)
             /\ count' \in Nat
             /\ count' > 0 => EnoughFragments(given)
             /\ QueriesOf(trail', fired')
  <2>. DEFINE variants == FragmentVariants(list', p)
  <2>1. \A q \in probes : q = p
    BY CatalogueAssumption DEF CallsOf, IsTrailCall, probes
  <2>2. /\ list' = Remember(list, p)
        /\ count' = CountAfter(count, variants, ORACLE_VARIANTS)
    BY <1>6, <2>1 DEF OracleStep, probes
  <2>3. more[m] = {p} /\ p \in AllQueries /\ p \in given
    BY <1>3, <1>4, <1>7, <2>1
  <2>4. Tells(list', AllQueries, more, m)
    BY <1>1, <1>2, <1>4, <2>2, <2>3, GivenOne DEF m
  <2>5. given \in SUBSET given /\ IsFiniteSet(given) /\ ToSet(list') \subseteq given
        /\ \A i \in 1..m : GivenSince(more, m, i) \subseteq given
    <3>1. 1 \in 1..m /\ \A i \in 1..m : \A k \in i..m : k \in 1..m
      BY <1>1
    <3>2. \A i \in 1..m : GivenSince(more, m, i) \subseteq given
      BY <3>1 DEF GivenSince
    <3>3. IsFiniteSet(given) /\ \A x : Among(x, list') => x \in given
      BY <2>4, <3>1 DEF Tells, Knows
    <3>. DEFINE new == list'
    <3>4. new \in Seq(AllQueries)
      BY <2>4 DEF Tells, Listed
    <3>. HIDE DEF new
    <3>5. ToSet(new) = { new[i] : i \in 1..Len(new) }
      BY <3>4, LenProperties DEF ToSet
    <3>. QED  BY <3>2, <3>3, <3>5 DEF Among, new
  <2>. DEFINE K == same(p)
  <2>6. /\ variants = Cardinality(ToSet(list') \cap K)
        /\ given \cap K = { v \in given : SameFragment(v, p) }
        /\ \A i \in 1..m : GivenSince(more, m, i) \cap K
                           = { v \in GivenSince(more, m, i) : SameFragment(v, p) }
    <3>1. ToSet(list') \cap K = { v \in ToSet(list') : SameFragment(v, p) }
      BY <2>5
    <3>2. \A i \in 1..m : GivenSince(more, m, i) \cap K
                           = { v \in GivenSince(more, m, i) : SameFragment(v, p) }
      BY <2>5
    <3>. QED  BY <3>1, <3>2 DEF FragmentVariants
  <2>. HIDE DEF K, given, same, variants
  <2>7. /\ variants \in Nat
        /\ variants >= ORACLE_VARIANTS => Cardinality(given \cap K) >= ORACLE_VARIANTS
        /\ \A i \in 1..m :
             /\ Cardinality(GivenSince(more, m, i)) <= SESSION_LIST_LIMIT
             /\ Cardinality(GivenSince(more, m, i) \cap K) >= ORACLE_VARIANTS
             => variants >= ORACLE_VARIANTS
    <3>1. /\ Cardinality(ToSet(list') \cap K) \in Nat
          /\ Cardinality(ToSet(list') \cap K) >= ORACLE_VARIANTS =>
               Cardinality(GivenSince(more, m, 1) \cap K) >= ORACLE_VARIANTS
          /\ \A i \in 1..m :
               /\ Cardinality(GivenSince(more, m, i)) <= SESSION_LIST_LIMIT
               /\ Cardinality(GivenSince(more, m, i) \cap K) >= ORACLE_VARIANTS
               => Cardinality(ToSet(list') \cap K) >= ORACLE_VARIANTS
      BY <1>1, <1>5, <2>4, Variants
    <3>. QED  BY <2>6, <3>1 DEF given
  <2>8. /\ count' \in Nat
        /\ variants >= ORACLE_VARIANTS => count' >= ORACLE_VARIANTS
        /\ count' > 0 => variants >= ORACLE_VARIANTS \/ count > 0
    BY <1>4, <1>5, <2>2, <2>7, CountAfterMeans
  <2>9. count' > 0 => EnoughFragments(given)
    <3>1. variants >= ORACLE_VARIANTS => EnoughFragments(given)
      BY <2>3, <2>6, <2>7 DEF EnoughFragments
    <3>2. count > 0 => EnoughFragments(given)
      BY <1>4, <1>7, <2>5, EnoughFragmentsStay
    <3>. QED  BY <2>8, <3>1, <3>2
  <2>10. flag \in fired' => EnoughFragments(given)
    BY <1>5, <1>6, <2>8, <2>9
  <2>11. variants >= ORACLE_VARIANTS => flag \in fired'
    BY <1>5, <1>6, <2>8 DEF probes
  <2>12. QueriesOf(trail', fired')
    <3>1. \A probe \in more[m], i \in 1..m :
            /\ Cardinality(GivenSince(more, m, i)) <= SESSION_LIST_LIMIT
            /\ Cardinality({ v \in GivenSince(more, m, i) : SameFragment(v, probe) }) >= ORACLE_VARIANTS
            => flag \in fired'
      <4>. SUFFICES ASSUME NEW i \in 1..m,
                      Cardinality(GivenSince(more, m, i)) <= SESSION_LIST_LIMIT,
                      Cardinality({ v \in GivenSince(more, m, i) : SameFragment(v, p) }) >= ORACLE_VARIANTS
                    PROVE  flag \in fired'
        BY <2>3
      <4>1. Cardinality(GivenSince(more, m, i) \cap K) >= ORACLE_VARIANTS
        BY <2>6
      <4>. QED  BY <2>7, <2>11, <4>1
    <3>. QED  BY <1>1, <2>10, <3>1, Zenon DEF QueriesOf, more, given
  <2>. QED  BY <2>4, <2>8, <2>9, <2>12
<1>. QED  BY <1>1, <1>8, <1>9 DEF more

LEMMA ProbesSay ==
  ASSUME HistoryOK, PaymentsOf(trail, fired), QueriesOf(trail, fired)
  PROVE  ProbesCaught
<1>. DEFINE n == Len(trail)
            c == trail[n]
            payment == "payment_verification_bruteforce"
            oracle == "tool_oracle_iteration_risk"
            paid(i) == UNION { { p \in trail[k].payment : ~Blank(p) } : k \in i..n }
            asked(i) == UNION { trail[k].oracle : k \in i..n }
<1>. SUFFICES ASSUME n > 0 PROVE ProbesCaught
  BY Zenon DEF ProbesCaught, Probed, Now
<1>1. n \in Nat /\ 1 \in 1..n /\ n \in 1..n /\ \A i \in 1..n : \A k \in i..n : k \in 1..n
  BY DEF HistoryOK, IsList
<1>2. /\ \A i \in 1..n : GivenSince(Payments(trail), n, i) = paid(i)
      /\ Payments(trail)[n] = { p \in c.payment : ~Blank(p) }
  <2>1. \A k \in 1..n : Payments(trail)[k] = { p \in trail[k].payment : ~Blank(p) }
    BY <1>1 DEF Payments
  <2>. QED  BY <1>1, <2>1 DEF GivenSince
<1>3. /\ \A i \in 1..n : GivenSince(Queries(trail), n, i) = asked(i)
      /\ Queries(trail)[n] = c.oracle
  <2>1. \A k \in 1..n : Queries(trail)[k] = trail[k].oracle
    BY <1>1 DEF Queries
  <2>. QED  BY <1>1, <2>1 DEF GivenSince
<1>. HIDE DEF paid, asked
<1>4. /\ payment \in fired =>
           \E probe \in paid(1) : Cardinality({ v \in paid(1) : SameCard(v, probe) })
                                    >= PAYMENT_VARIANTS
      /\ \A probe \in { p \in c.payment : ~Blank(p) }, i \in 1..n :
           /\ Cardinality(paid(i)) <= SESSION_LIST_LIMIT
           /\ Cardinality({ v \in paid(i) : SameCard(v, probe) }) >= PAYMENT_VARIANTS
           => payment \in fired
  BY <1>1, <1>2 DEF PaymentsOf, EnoughCards
<1>5. /\ oracle \in fired =>
           \E probe \in asked(1) : Cardinality({ v \in asked(1) : SameFragment(v, probe) })
                                     >= ORACLE_VARIANTS
      /\ \A probe \in c.oracle, i \in 1..n :
           /\ Cardinality(asked(i)) <= SESSION_LIST_LIMIT
           /\ Cardinality({ v \in asked(i) : SameFragment(v, probe) }) >= ORACLE_VARIANTS
           => oracle \in fired
  BY <1>1, <1>3 DEF QueriesOf, EnoughFragments
<1>. QED  BY <1>4, <1>5, Zenon DEF ProbesCaught, Probed, Since, At, Now, paid, asked
-----------------------------------------------------------------------------
(* Every version a call of the session named is at most the last one,      *)
(* unless a call since was flagged or named none.                          *)
Stepdown(calls, flags, i, flag) == \E j \in i+1..Len(calls) : flag \in flags[j]

Unversioned(calls, i) ==
  \E j \in i..Len(calls) : \E init \in calls[j].initialize : init.major = {}

VersionOf(calls, flags, last) ==
  /\ last \subseteq Nat
  /\ \A i \in 1..Len(calls) : \A old \in calls[i].initialize : \A x \in old.major :
       \/ Stepdown(calls, flags, i, "protocol_version_regression")
       \/ Unversioned(calls, i)
       \/ last # {} /\ \A v \in last : v >= x

(* A session that had security capabilities still has them, unless a call  *)
(* since was flagged.                                                      *)
SecurityOf(calls, flags, last) ==
  \A i \in 1..Len(calls) : \A old \in calls[i].initialize :
    old.security => \/ last
                    \/ Stepdown(calls, flags, i, "security_capability_stripping")

DowngradeOK ==
  /\ VersionOf(trail, alarms, last_protocol_version)
  /\ SecurityOf(trail, alarms, last_protocol_capabilities_had_security)

(* What the last initialization says of those before.                      *)
SilentOf(calls, flags) ==
  LET n == Len(calls)
  IN  n > 0 =>
        \A new \in calls[n].initialize : \A i \in 1..n-1 : \A old \in calls[i].initialize :
          /\ ~Stepdown(calls, flags, i, "protocol_version_regression") =>
               \/ \A x \in old.major, y \in new.major : y >= x
               \/ Unversioned(calls, i)
          /\ ~Stepdown(calls, flags, i, "security_capability_stripping") =>
               (old.security => new.security)

LEMMA SilentSays == SilentOf(trail, alarms) => DowngradeNeverSilent
BY Zenon DEF SilentOf, Stepdown, Unversioned, DowngradeNeverSilent, At, Now

LEMMA Later ==
  ASSUME HistoryOK, NEW c \in CallsOf, Scores(c), theme' = theme
  PROVE  \A i \in 1..Len(trail) :
           /\ \A flag : Stepdown(trail', alarms', i, flag) <=>
                         Stepdown(trail, alarms, i, flag) \/ flag \in Flags(c)
           /\ Unversioned(trail', i) <=>
                Unversioned(trail, i) \/ \E init \in c.initialize : init.major = {}
<1>. DEFINE n == Len(trail)
<1>1. /\ n \in Nat /\ Len(trail') = n + 1 /\ Len(alarms) = n
      /\ \A i \in 1..n : trail'[i] = trail[i] /\ alarms'[i] = alarms[i]
      /\ trail'[n + 1] = c /\ alarms'[n + 1] = Flags(c)
  BY HistoryGrows DEF Grown, HistoryOK
<1>. SUFFICES ASSUME NEW i \in 1..n
              PROVE  /\ \A flag : Stepdown(trail', alarms', i, flag) <=>
                                   Stepdown(trail, alarms, i, flag) \/ flag \in Flags(c)
                     /\ Unversioned(trail', i) <=>
                          Unversioned(trail, i) \/ \E init \in c.initialize : init.major = {}
  OBVIOUS
<1>2. /\ i + 1..(n + 1) = (i + 1..n) \cup {n + 1} /\ \A k \in i + 1..n : k \in 1..n
      /\ i..(n + 1) = i..n \cup {n + 1} /\ \A k \in i..n : k \in 1..n
  BY <1>1
<1>. QED  BY <1>1, <1>2 DEF Stepdown, Unversioned

LEMMA DowngradeStep ==
  ASSUME HistoryOK, DowngradeOK, NEW c \in CallsOf, Scores(c), theme' = theme
  PROVE  DowngradeOK' /\ SilentOf(trail', alarms')
<1>. DEFINE n == Len(trail)
            last == last_protocol_version
            had == last_protocol_capabilities_had_security
            reg == "protocol_version_regression"
            strip == "security_capability_stripping"
            majors == UNION { init.major : init \in c.initialize }
<1>1. /\ n \in Nat /\ Len(trail') = n + 1 /\ Len(alarms) = n
      /\ \A i \in 1..n : trail'[i] = trail[i] /\ alarms'[i] = alarms[i]
      /\ trail'[n + 1] = c /\ alarms'[n + 1] = Flags(c)
  BY HistoryGrows DEF Grown, HistoryOK
<1>2. /\ reg \in Flags(c) <=> \E now \in majors, before \in last : now < before
      /\ strip \in Flags(c) <=> had /\ ~had'
      /\ last' = IF c.initialize # {} THEN majors ELSE last
      /\ had' = IF c.initialize # {} THEN \E init \in c.initialize : init.security ELSE had
  BY FlagMeans DEF Scores, LifecycleStep, Regresses, VersionAfter, SecurityAfter, Initializes
<1>3. /\ \A init, other \in c.initialize : init = other
      /\ \A init \in c.initialize :
           init.major \subseteq Nat /\ \A v, w \in init.major : v = w
  BY CatalogueAssumption DEF CallsOf, IsTrailCall
<1>4. majors \subseteq Nat /\ \A v, w \in majors : v = w
  BY <1>3
<1>5. \A i \in 1..n :
        /\ \A flag : Stepdown(trail', alarms', i, flag) <=>
                      Stepdown(trail, alarms, i, flag) \/ flag \in Flags(c)
        /\ Unversioned(trail', i) <=>
             Unversioned(trail, i) \/ \E init \in c.initialize : init.major = {}
  BY Later
<1>6. \A i \in 1..(n + 1) : i \in 1..n \/ i = n + 1
  BY <1>1
<1>7. VersionOf(trail', alarms', last')
  <2>1. last' \subseteq Nat
    BY <1>2, <1>4 DEF DowngradeOK, VersionOf
  <2>2. ASSUME NEW i \in 1..n, NEW old \in trail'[i].initialize, NEW x \in old.major,
               ~Stepdown(trail', alarms', i, reg), ~Unversioned(trail', i)
        PROVE  last' # {} /\ \A v \in last' : v >= x
    <3>1. /\ reg \notin Flags(c) /\ ~Stepdown(trail, alarms, i, reg)
          /\ ~Unversioned(trail, i) /\ \A init \in c.initialize : init.major # {}
      BY <1>5, <2>2
    <3>2. last \subseteq Nat /\ last # {} /\ \A v \in last : v >= x
      BY <1>1, <2>2, <3>1 DEF DowngradeOK, VersionOf
    <3>3. x \in Nat
      <4>1. trail[i] \in CallsOf /\ old \in trail[i].initialize
        BY <1>1, <2>2 DEF HistoryOK
      <4>2. old.major \subseteq Nat
        BY <4>1, CatalogueAssumption DEF CallsOf, IsTrailCall
      <4>. QED  BY <4>2
    <3>4. CASE c.initialize = {}
      BY <1>2, <3>2, <3>4
    <3>5. CASE c.initialize # {}
      <4>1. last' = majors /\ majors # {}
        BY <1>2, <3>1, <3>5
      <4>2. ASSUME NEW v \in majors PROVE v >= x
        <5>1. PICK before \in last : TRUE
          BY <3>2
        <5>2. ~(v < before)
          BY <1>2, <3>1
        <5>3. v \in Nat /\ before \in Nat /\ before >= x
          BY <1>4, <3>2
        <5>. QED  BY <3>3, <5>2, <5>3
      <4>. QED  BY <4>1, <4>2
    <3>. QED  BY <3>4, <3>5
  <2>3. ASSUME NEW old \in c.initialize, NEW x \in old.major
        PROVE  last' # {} /\ \A v \in last' : v >= x
    <3>1. last' = majors /\ x \in majors
      BY <1>2, <2>3
    <3>. QED  BY <1>4, <3>1
  <2>. QED  BY <1>1, <1>6, <2>1, <2>2, <2>3 DEF VersionOf
<1>8. SecurityOf(trail', alarms', had')
  <2>1. ASSUME NEW i \in 1..n, NEW old \in trail'[i].initialize, old.security,
               ~Stepdown(trail', alarms', i, strip)
        PROVE  had'
    <3>1. strip \notin Flags(c) /\ ~Stepdown(trail, alarms, i, strip)
      BY <1>5, <2>1
    <3>2. had
      BY <1>1, <2>1, <3>1 DEF DowngradeOK, SecurityOf
    <3>. QED  BY <1>2, <3>1, <3>2
  <2>2. ASSUME NEW old \in c.initialize, old.security PROVE had'
    BY <1>2, <2>2
  <2>. QED  BY <1>1, <1>6, <2>1, <2>2 DEF SecurityOf
<1>9. ASSUME NEW new \in c.initialize, NEW i \in 1..n, NEW old \in trail'[i].initialize
      PROVE  /\ ~Stepdown(trail', alarms', i, reg) =>
                   \/ \A x \in old.major, y \in new.major : y >= x
                   \/ Unversioned(trail', i)
             /\ ~Stepdown(trail', alarms', i, strip) => (old.security => new.security)
  <2>1. i \in 1..Len(trail')
    BY <1>1
  <2>2. new.major \subseteq last' /\ (had' => new.security)
    <3>1. new.major \subseteq majors /\ last' = majors
      BY <1>2, <1>9
    <3>2. had' => new.security
      BY <1>2, <1>3, <1>9
    <3>. QED  BY <3>1, <3>2
  <2>3. ASSUME ~Stepdown(trail', alarms', i, reg), ~Unversioned(trail', i),
               NEW x \in old.major, NEW y \in new.major
        PROVE  y >= x
    BY <1>7, <1>9, <2>1, <2>2, <2>3 DEF VersionOf
  <2>4. ASSUME ~Stepdown(trail', alarms', i, strip), old.security
        PROVE  new.security
    BY <1>8, <1>9, <2>1, <2>2, <2>4 DEF SecurityOf
  <2>. QED  BY <2>3, <2>4
<1>10. SilentOf(trail', alarms')
  <2>1. Len(trail') - 1 = n /\ trail'[Len(trail')] = c
    BY <1>1
  <2>. QED  BY <1>9, <2>1 DEF SilentOf
<1>. QED  BY <1>7, <1>8, <1>10 DEF DowngradeOK
-----------------------------------------------------------------------------
(* The requests and results of the binding.                                *)
LEMMA TraceParts ==
  ASSUME NEW t \in Traces
  PROVE  Expected(t) \in Signatures /\ Observed(t) \in Signatures
BY DEF Traces, Signatures, Expected, Observed

LEMMA WithKeyKept ==
  ASSUME NEW list, Listed(list, Signatures), NEW t
  PROVE  /\ Listed(WithKey(list, t), Signatures)
         /\ \A sig : Among(sig, WithKey(list, t)) <=> Among(sig, list) /\ HasKey(sig, t)
         /\ WithKey(list, t) # << >> <=> \E sig : Among(sig, list) /\ HasKey(sig, t)
<1>. DEFINE kept  == { sig \in ToSet(list) : HasKey(sig, t) }
            those == Those(list, kept)
<1>1. Listed(those, Signatures) /\ ToSet(those) = ToSet(list) \cap kept
  <2>. HIDE DEF kept
  <2>. QED  BY ThoseProperties
<1>2. those = WithKey(list, t)
  BY DEF WithKey
<1>3. \A sig : sig \in ToSet(those) <=> sig \in ToSet(list) /\ HasKey(sig, t)
  BY <1>1
<1>. HIDE DEF those, kept
<1>4. /\ \A sig : Among(sig, those) <=> sig \in ToSet(those)
      /\ \A sig : Among(sig, list) <=> sig \in ToSet(list)
      /\ those = << >> <=> ToSet(those) = {}
  BY <1>1, AmongToSet, EmptyToSet DEF Listed
<1>. QED  BY <1>1, <1>2, <1>3, <1>4

BindingOK ==
  /\ Listed(pending_mcp_request_signatures, Signatures)
  /\ Listed(canceled_mcp_request_signatures, Signatures)

Hits(t, sig) ==
  /\ HasKey(sig, t)
  /\ t.request_state = "canceled" \/ (IsResultTrace(t) /\ Observed(t) = sig)

(* What one trace takes off the pending requests, and what it puts on the  *)
(* canceled ones.                                                          *)
LEMMA TraceTaken ==
  ASSUME BindingOK, NEW t \in Traces, BindTrace(t)
  PROVE  LET before == pending_mcp_request_signatures
             filed  == PendingOnceFiled(t, before)
             after  == pending_mcp_request_signatures'
         IN  /\ BindingOK'
             /\ \A x, y : Before(x, y, after) => Before(x, y, filed)
             /\ \A sig : Among(sig, after) => Among(sig, filed)
             /\ \A sig : Among(sig, filed) /\ ~Hits(t, sig) => Among(sig, after)
             /\ Cancels(t, before) => \A sig : Among(sig, after) => ~HasKey(sig, t)
             /\ canceled_mcp_request_signatures' =
                  CanceledAfter(t, before, canceled_mcp_request_signatures)
<1>. DEFINE before  == pending_mcp_request_signatures
            filed   == PendingOnceFiled(t, before)
            unkeyed == { sig \in ToSet(filed) : ~HasKey(sig, t) }
            pending == PendingAfterCancel(t, before, filed)
            after   == pending_mcp_request_signatures'
            gone    == Observed(t)
<1>1. /\ after = IF Accepts(t, pending) /\ ~SelfContained(t) THEN Without(pending, gone) ELSE pending
      /\ canceled_mcp_request_signatures' =
           CanceledAfter(t, before, canceled_mcp_request_signatures)
  BY DEF BindTrace, Binding
<1>2. Expected(t) \in Signatures /\ gone \in Signatures /\ Listed(before, Signatures)
  BY TraceParts DEF BindingOK
<1>3. Listed(filed, Signatures)
  <2>1. Listed(Remember(before, Expected(t)), Signatures)
    BY <1>2, RememberedOne
  <2>. QED  BY <1>2, <2>1 DEF PendingOnceFiled, RememberIf
<1>4. pending = IF Cancels(t, before) THEN Those(filed, unkeyed) ELSE filed
  BY DEF PendingAfterCancel
<1>. HIDE DEF filed, pending, gone
<1>5. /\ Listed(pending, Signatures)
      /\ \A x, y : Before(x, y, pending) => Before(x, y, filed)
      /\ \A sig : Among(sig, pending) <=>
           Among(sig, filed) /\ ~(Cancels(t, before) /\ HasKey(sig, t))
  <2>1. CASE ~Cancels(t, before)
    BY <1>3, <1>4, <2>1
  <2>2. CASE Cancels(t, before)
    <3>. DEFINE rest == Those(filed, unkeyed)
    <3>1. Listed(rest, Signatures) /\ ToSet(rest) = ToSet(filed) \cap unkeyed
      <4>. HIDE DEF unkeyed
      <4>. QED  BY <1>3, ThoseProperties
    <3>2. \A x, y : Before(x, y, rest) => Before(x, y, filed)
      <4>. HIDE DEF unkeyed
      <4>. QED  BY <1>3, ThoseInOrder DEF Listed
    <3>3. \A sig : sig \in ToSet(rest) <=> sig \in ToSet(filed) /\ ~HasKey(sig, t)
      BY <3>1
    <3>. HIDE DEF rest, unkeyed
    <3>4. /\ \A sig : Among(sig, rest) <=> sig \in ToSet(rest)
          /\ \A sig : Among(sig, filed) <=> sig \in ToSet(filed)
      BY <1>3, <3>1, AmongToSet DEF Listed
    <3>5. pending = rest
      BY <1>4, <2>2 DEF rest
    <3>. QED  BY <2>2, <3>1, <3>2, <3>3, <3>4, <3>5
  <2>. QED  BY <2>1, <2>2
<1>6. /\ Listed(after, Signatures)
      /\ \A x, y : Before(x, y, after) => Before(x, y, pending)
      /\ \A sig : Among(sig, after) => Among(sig, pending)
      /\ \A sig : Among(sig, pending) /\ ~Among(sig, after) =>
           IsResultTrace(t) /\ sig = gone /\ HasKey(sig, t)
  <2>1. CASE ~(Accepts(t, pending) /\ ~SelfContained(t))
    <3>1. after = pending
      BY <1>1, <2>1
    <3>. HIDE DEF after
    <3>. QED  BY <1>5, <3>1
  <2>2. CASE Accepts(t, pending) /\ ~SelfContained(t)
    <3>1. after = Without(pending, gone)
      BY <1>1, <2>2
    <3>2. IsResultTrace(t) /\ gone \in ToSet(WithKey(pending, t))
      BY <2>2 DEF Accepts, gone
    <3>3. HasKey(gone, t)
      <4>1. Listed(WithKey(pending, t), Signatures)
        BY <1>5, WithKeyKept
      <4>2. Among(gone, WithKey(pending, t))
        BY <3>2, <4>1, AmongToSet DEF Listed
      <4>. QED  BY <1>5, <4>2, WithKeyKept
    <3>4. /\ \A x : x # gone => (Among(x, Without(pending, gone)) <=> Among(x, pending))
          /\ \A x, y : Before(x, y, Without(pending, gone)) => Before(x, y, pending)
      BY <1>2, <1>5, WithoutKeeps DEF Listed
    <3>5. /\ Listed(Without(pending, gone), Signatures)
          /\ ToSet(Without(pending, gone)) = ToSet(pending) \ {gone}
      BY <1>2, <1>5, WithoutToSet
    <3>6. ~Among(gone, Without(pending, gone))
      BY <3>5, AmongToSet DEF Listed
    <3>. HIDE DEF after
    <3>. QED  BY <3>1, <3>2, <3>3, <3>4, <3>5, <3>6
  <2>. QED  BY <2>1, <2>2
<1>7. Listed(canceled_mcp_request_signatures', Signatures)
  <2>1. WithKey(before, t) \in Seq(Signatures)
    BY <1>2, WithKeyKept DEF Listed
  <2>2. Listed(RememberAll(canceled_mcp_request_signatures, WithKey(before, t)), Signatures)
    BY <2>1, RememberedAll DEF BindingOK
  <2>. QED  BY <1>1, <2>2 DEF CanceledAfter, BindingOK
<1>8. \A sig : Among(sig, filed) /\ ~Hits(t, sig) => Among(sig, after)
  <2>1. Cancels(t, before) => t.request_state = "canceled"
    BY DEF Cancels
  <2>. QED  BY <1>5, <1>6, <2>1 DEF Hits, gone
<1>9. BindingOK'
  BY <1>6, <1>7 DEF BindingOK
<1>. HIDE DEF after
<1>10. /\ \A x, y : Before(x, y, after) => Before(x, y, filed)
       /\ \A sig : Among(sig, after) => Among(sig, filed)
       /\ Cancels(t, before) => \A sig : Among(sig, after) => ~HasKey(sig, t)
  BY <1>5, <1>6
<1>. QED  BY <1>1, <1>8, <1>9, <1>10 DEF after, filed

(* A call carries one trace or none.                                       *)
LEMMA TraceCases ==
  ASSUME NEW c \in CallsOf, Scores(c)
  PROVE  \/ /\ c.trace = {} /\ UNCHANGED bindingVars /\ Files(c) = {}
            /\ \A sig : ~Settles(c, sig)
         \/ \E t \in Traces :
              /\ c.trace = {t} /\ BindTrace(t)
              /\ Files(c) = IF IsPendingTrace(t) THEN {Expected(t)} ELSE {}
              /\ \A sig : Settles(c, sig) <=> Hits(t, sig)
<1>1. c.trace \subseteq Traces /\ \A t, other \in c.trace : t = other
  BY CatalogueAssumption DEF CallsOf, IsTrailCall
<1>2. TraceStep(c)
  BY DEF Scores
<1>3. CASE c.trace = {}
  BY <1>2, <1>3 DEF TraceStep, Files, Settles
<1>4. CASE c.trace # {}
  <2>1. PICK t \in c.trace : BindTrace(t)
    BY <1>2, <1>4 DEF TraceStep
  <2>2. c.trace = {t} /\ t \in Traces
    BY <1>1
  <2>3. Files(c) = IF IsPendingTrace(t) THEN {Expected(t)} ELSE {}
    BY <2>2 DEF Files
  <2>4. \A sig : Settles(c, sig) <=> Hits(t, sig)
    BY <2>2 DEF Settles, Hits
  <2>. QED  BY <2>1, <2>2, <2>3, <2>4
<1>. QED  BY <1>3, <1>4
-----------------------------------------------------------------------------
(* The requests filed from the k-th call to the n-th, and a request that   *)
(* none of these calls has settled.                                        *)
FiledSince(calls, k, n) == UNION { Files(calls[j]) : j \in k..n }

Unsettled(calls, sig, k, n) ==
  sig \in Files(calls[k]) /\ \A j \in k..n : ~Settles(calls[j], sig)

(* It is pending, unless too many others were filed since.                 *)
PendingKept ==
  \A k \in 1..Len(trail) : \A sig :
    Unsettled(trail, sig, k, Len(trail)) =>
      Stays(pending_mcp_request_signatures, sig, FiledSince(trail, k, Len(trail)))

LEMMA FiledPast ==
  ASSUME NEW calls, NEW more, NEW n \in Nat, \A j \in 1..n : more[j] = calls[j],
         NEW k \in 1..n, NEW m \in 1..n
  PROVE  /\ FiledSince(more, k, m) = FiledSince(calls, k, m)
         /\ \A sig : Unsettled(more, sig, k, m) <=> Unsettled(calls, sig, k, m)
<1>1. \A j \in k..m : more[j] = calls[j]
  OBVIOUS
<1>. QED  BY <1>1 DEF FiledSince, Unsettled

LEMMA FiledMore ==
  ASSUME NEW calls, NEW more, NEW c, Grown(calls, more, c), NEW k \in 1..Len(more)
  PROVE  /\ FiledSince(more, k, Len(more)) = FiledSince(calls, k, Len(calls)) \cup Files(c)
         /\ \A sig : k \in 1..Len(calls) /\ Unsettled(more, sig, k, Len(more)) =>
              Unsettled(calls, sig, k, Len(calls)) /\ ~Settles(c, sig)
<1>. DEFINE n == Len(calls)
            m == Len(more)
<1>0. n \in Nat /\ m = n + 1 /\ more[m] = c /\ \A j \in 1..n : more[j] = calls[j]
  BY DEF Grown
<1>. HIDE DEF n, m
<1>k. k \in 1..m
  BY DEF m
<1>1. k..m = k..n \cup {m} /\ \A j \in k..n : j \in k..m /\ more[j] = calls[j]
  BY <1>0, <1>k
<1>2. FiledSince(more, k, m) = FiledSince(calls, k, n) \cup Files(c)
  BY <1>0, <1>1 DEF FiledSince
<1>3. ASSUME NEW sig, k \in 1..n, Unsettled(more, sig, k, m)
      PROVE  Unsettled(calls, sig, k, n) /\ ~Settles(c, sig)
  <2>1. m \in k..m /\ more[k] = calls[k]
    BY <1>0, <1>3
  <2>. QED  BY <1>0, <1>1, <1>3, <2>1 DEF Unsettled
<1>. QED  BY <1>2, <1>3 DEF n, m

LEMMA PendingStep ==
  ASSUME HistoryOK, BindingOK, PendingKept, NEW c \in CallsOf, Scores(c), theme' = theme
  PROVE  BindingOK' /\ PendingKept'
<1>. DEFINE n == Len(trail)
            before == pending_mcp_request_signatures
            after == pending_mcp_request_signatures'
<1>1. /\ n \in Nat /\ Len(trail') = n + 1
      /\ \A i \in 1..n : trail'[i] = trail[i]
      /\ trail'[n + 1] = c
  BY HistoryGrows DEF Grown, HistoryOK
<1>2. /\ \A k \in 1..(n + 1) :
           FiledSince(trail', k, n + 1) = FiledSince(trail, k, n) \cup Files(c)
      /\ \A k \in 1..n : \A sig :
           Unsettled(trail', sig, k, n + 1) => Unsettled(trail, sig, k, n) /\ ~Settles(c, sig)
  <2>1. Grown(trail, trail', c)
    BY HistoryGrows
  <2>2. ASSUME NEW k \in 1..Len(trail')
        PROVE  /\ FiledSince(trail', k, Len(trail')) = FiledSince(trail, k, n) \cup Files(c)
               /\ \A sig : k \in 1..n /\ Unsettled(trail', sig, k, Len(trail')) =>
                    Unsettled(trail, sig, k, n) /\ ~Settles(c, sig)
    BY <2>1, FiledMore
  <2>3. \A k \in 1..n : k \in 1..(n + 1)
    BY <1>1
  <2>. QED  BY <1>1, <2>2, <2>3
<1>3. FiledSince(trail, n + 1, n) = {}
  BY <1>1 DEF FiledSince
<1>4. ASSUME NEW k \in 1..(n + 1), NEW sig, Unsettled(trail', sig, k, n + 1)
      PROVE  /\ k \in 1..n => Stays(before, sig, FiledSince(trail, k, n))
             /\ ~Settles(c, sig)
             /\ k = n + 1 => sig \in Files(c)
  <2>1. CASE k = n + 1
    BY <1>1, <1>4, <2>1 DEF Unsettled
  <2>2. CASE k \in 1..n
    BY <1>1, <1>2, <1>4, <2>2 DEF PendingKept
  <2>. QED  BY <1>1, <2>1, <2>2
<1>5. CASE UNCHANGED bindingVars /\ Files(c) = {}
  <2>1. after = before /\ BindingOK'
    <3>1. /\ pending_mcp_request_signatures' = pending_mcp_request_signatures
          /\ canceled_mcp_request_signatures' = canceled_mcp_request_signatures
      BY <1>5 DEF bindingVars
    <3>2. BindingOK'
      BY <3>1 DEF BindingOK
    <3>. QED  BY <3>1, <3>2
  <2>2. ASSUME NEW k \in 1..(n + 1), NEW sig, Unsettled(trail', sig, k, n + 1)
        PROVE  Stays(after, sig, FiledSince(trail', k, n + 1))
    <3>1. k \in 1..n /\ Stays(before, sig, FiledSince(trail, k, n))
      BY <1>1, <1>4, <1>5, <2>2
    <3>2. FiledSince(trail', k, n + 1) = FiledSince(trail, k, n)
      BY <1>2, <1>5
    <3>. QED  BY <2>1, <3>1, <3>2
  <2>. QED  BY <1>1, <2>1, <2>2 DEF PendingKept
<1>6. ASSUME NEW t \in Traces, BindTrace(t),
             Files(c) = IF IsPendingTrace(t) THEN {Expected(t)} ELSE {},
             \A sig : Settles(c, sig) <=> Hits(t, sig)
      PROVE  BindingOK' /\ PendingKept'
  <2>. DEFINE filed == PendingOnceFiled(t, before)
  <2>1. /\ BindingOK'
        /\ \A x, y : Before(x, y, after) => Before(x, y, filed)
        /\ \A sig : Among(sig, filed) /\ ~Hits(t, sig) => Among(sig, after)
    BY <1>6, TraceTaken
  <2>2. filed = IF IsPendingTrace(t) THEN Remember(before, Expected(t)) ELSE before
    BY DEF PendingOnceFiled, RememberIf
  <2>3. Expected(t) \in Signatures /\ Listed(before, Signatures)
    BY TraceParts DEF BindingOK
  <2>. HIDE DEF filed
  <2>4. ASSUME NEW k \in 1..(n + 1), NEW sig, Unsettled(trail', sig, k, n + 1)
        PROVE  Stays(after, sig, FiledSince(trail', k, n + 1))
    <3>. DEFINE D == FiledSince(trail, k, n)
    <3>1. FiledSince(trail', k, n + 1) = D \cup Files(c)
      BY <1>2
    <3>2. ~Hits(t, sig)
      BY <1>4, <1>6, <2>4
    <3>3. Stays(filed, sig, D \cup Files(c))
      <4>1. CASE k = n + 1
        <5>1. sig = Expected(t) /\ IsPendingTrace(t) /\ Files(c) = {sig}
          BY <1>4, <1>6, <2>4, <4>1
        <5>2. D = {}
          BY <1>3, <4>1
        <5>3. Stays(Remember(before, sig), sig, {sig})
          BY <2>3, <5>1, StaysSince
        <5>4. D \cup Files(c) = {sig}
          BY <5>1, <5>2
        <5>. QED  BY <2>2, <5>1, <5>3, <5>4
      <4>2. CASE k \in 1..n
        <5>1. Stays(before, sig, D)
          BY <1>4, <2>4, <4>2
        <5>. HIDE DEF D
        <5>2. CASE IsPendingTrace(t)
          <6>1. Stays(Remember(before, Expected(t)), sig, D \cup {Expected(t)})
            BY <2>3, <5>1, StaysBefore
          <6>. QED  BY <1>6, <2>2, <5>2, <6>1
        <5>3. CASE ~IsPendingTrace(t)
          <6>1. D \cup Files(c) = D
            BY <1>6, <5>3
          <6>. QED  BY <2>2, <5>1, <5>3, <6>1
        <5>. QED  BY <5>2, <5>3
      <4>. QED  BY <1>1, <4>1, <4>2
    <3>. HIDE DEF D
    <3>4. Stays(after, sig, D \cup Files(c))
      BY <2>1, <3>2, <3>3 DEF Stays
    <3>. QED  BY <3>1, <3>4
  <2>. QED  BY <1>1, <2>1, <2>4 DEF PendingKept
<1>7. CASE \E t \in Traces :
             /\ c.trace = {t} /\ BindTrace(t)
             /\ Files(c) = IF IsPendingTrace(t) THEN {Expected(t)} ELSE {}
             /\ \A sig : Settles(c, sig) <=> Hits(t, sig)
  BY <1>6, <1>7
<1>. QED  BY <1>5, <1>7, TraceCases
-----------------------------------------------------------------------------
(* The i-th call cancels a request that was awaited; and the k-th brings a *)
(* result for one canceled before, none having been filed since.           *)
AwaitedIn(calls, sig, i) ==
  \E k \in 1..i-1 : /\ Unsettled(calls, sig, k, i - 1)
                     /\ Cardinality(FiledSince(calls, k, i - 1)) <= SESSION_LIST_LIMIT

CanceledAt(calls, sig, i) ==
  /\ AwaitedIn(calls, sig, i)
  /\ \E t \in calls[i].trace :
       t.request_state = "canceled" /\ sig = Expected(t) /\ HasKey(sig, t)

NoneFiled(calls, i, k) == \A j \in i+1..k : Files(calls[j]) = {}

LateIn(calls, k) ==
  \E i \in 1..k-1 : \E sig :
    /\ CanceledAt(calls, sig, i) /\ NoneFiled(calls, i, k)
    /\ \E late \in calls[k].trace :
         IsResultTrace(late) /\ ~SelfContained(late) /\ HasKey(sig, late)

(* A canceled request is on the canceled list, and stays there, with all   *)
(* of its id and source gone from the pending ones.                        *)
HeldBack(pending, canceled, sig) ==
  /\ \A one : Among(one, pending) => ~(one.id = sig.id /\ one.source = sig.source)
  /\ \E G : /\ sig \in G /\ Knows(canceled, G)
            /\ Cardinality(G \cup ToSet(pending)) <= SESSION_LIST_LIMIT

CanceledKept ==
  \A i \in 1..Len(trail) : \A sig :
    CanceledAt(trail, sig, i) /\ NoneFiled(trail, i, Len(trail)) =>
      HeldBack(pending_mcp_request_signatures, canceled_mcp_request_signatures, sig)

LEMMA PastStays ==
  ASSUME NEW calls, NEW more, NEW n \in Nat, \A j \in 1..n : more[j] = calls[j]
  PROVE  /\ \A i \in 1..(n + 1) : \A sig : AwaitedIn(more, sig, i) <=> AwaitedIn(calls, sig, i)
         /\ \A i \in 1..n : \A sig : CanceledAt(more, sig, i) <=> CanceledAt(calls, sig, i)
         /\ \A i \in 1..n : \A k \in 1..n : NoneFiled(more, i, k) <=> NoneFiled(calls, i, k)
         /\ \A k \in 1..n : LateIn(more, k) <=> LateIn(calls, k)
<1>1. ASSUME NEW i \in 1..(n + 1), NEW sig
      PROVE  AwaitedIn(more, sig, i) <=> AwaitedIn(calls, sig, i)
  <2>1. ASSUME NEW k \in 1..(i - 1)
        PROVE  /\ FiledSince(more, k, i - 1) = FiledSince(calls, k, i - 1)
               /\ Unsettled(more, sig, k, i - 1) <=> Unsettled(calls, sig, k, i - 1)
    <3>1. k \in 1..n /\ i - 1 \in 1..n
      OBVIOUS
    <3>. QED  BY <3>1, FiledPast
  <2>. QED  BY <2>1 DEF AwaitedIn
<1>2. ASSUME NEW i \in 1..n, NEW sig
      PROVE  CanceledAt(more, sig, i) <=> CanceledAt(calls, sig, i)
  <2>1. i \in 1..(n + 1) /\ more[i] = calls[i]
    OBVIOUS
  <2>. QED  BY <1>1, <2>1 DEF CanceledAt
<1>3. ASSUME NEW i \in 1..n, NEW k \in 1..n
      PROVE  NoneFiled(more, i, k) <=> NoneFiled(calls, i, k)
  <2>1. \A j \in i+1..k : more[j] = calls[j]
    OBVIOUS
  <2>. QED  BY <2>1 DEF NoneFiled
<1>4. ASSUME NEW k \in 1..n PROVE LateIn(more, k) <=> LateIn(calls, k)
  <2>1. more[k] = calls[k] /\ \A i \in 1..(k - 1) : i \in 1..n
    OBVIOUS
  <2>2. \A i \in 1..(k - 1) : \A sig :
          CanceledAt(more, sig, i) /\ NoneFiled(more, i, k) <=>
            CanceledAt(calls, sig, i) /\ NoneFiled(calls, i, k)
    BY <1>2, <1>3, <2>1
  <2>. QED  BY <2>1, <2>2 DEF LateIn
<1>. QED  BY <1>1, <1>2, <1>3, <1>4

(* A trace that files nothing moves requests from the pending list to the  *)
(* canceled one, and adds none.                                            *)
LEMMA HeldBackStays ==
  ASSUME BindingOK, NEW t \in Traces, BindTrace(t), ~IsPendingTrace(t), NEW sig,
         HeldBack(pending_mcp_request_signatures, canceled_mcp_request_signatures, sig)
  PROVE  HeldBack(pending_mcp_request_signatures', canceled_mcp_request_signatures', sig)
<1>. DEFINE before == pending_mcp_request_signatures
            after == pending_mcp_request_signatures'
            put == canceled_mcp_request_signatures
            keyed == WithKey(before, t)
<1>1. /\ BindingOK'
      /\ \A one : Among(one, after) => Among(one, before)
      /\ put' = IF Cancels(t, before) THEN RememberAll(put, keyed) ELSE put
  BY TraceTaken DEF PendingOnceFiled, RememberIf, CanceledAfter
<1>2. /\ Listed(before, Signatures) /\ Listed(put, Signatures) /\ Listed(after, Signatures)
      /\ Listed(keyed, Signatures)
      /\ \A one : Among(one, keyed) => Among(one, before)
  BY <1>1, WithKeyKept DEF BindingOK
<1>3. PICK G : /\ sig \in G /\ Knows(put, G)
               /\ Cardinality(G \cup ToSet(before)) <= SESSION_LIST_LIMIT
  BY DEF HeldBack
<1>4. /\ ToSet(after) \subseteq ToSet(before) /\ ToSet(keyed) \subseteq ToSet(before)
      /\ IsFiniteSet(ToSet(before)) /\ IsFiniteSet(G)
  <2>1. /\ \A x : Among(x, after) <=> x \in ToSet(after)
        /\ \A x : Among(x, keyed) <=> x \in ToSet(keyed)
        /\ \A x : Among(x, before) <=> x \in ToSet(before)
        /\ IsFiniteSet(ToSet(before))
    BY <1>2, AmongToSet DEF Listed
  <2>. QED  BY <1>1, <1>2, <1>3, <2>1 DEF Knows
<1>. DEFINE H == IF Cancels(t, before) THEN G \cup ToSet(keyed) ELSE G
<1>5. Knows(put', H)
  <2>1. Knows(RememberAll(put, keyed), G \cup ToSet(keyed))
    BY <1>2, <1>3, KnowsAll DEF Listed
  <2>. QED  BY <1>1, <1>3, <2>1
<1>6. Cardinality(H \cup ToSet(after)) <= SESSION_LIST_LIMIT
  <2>1. H \cup ToSet(after) \subseteq G \cup ToSet(before)
    BY <1>4
  <2>2. IsFiniteSet(G \cup ToSet(before))
    BY <1>4, FS_Union
  <2>. DEFINE small == H \cup ToSet(after)
              large == G \cup ToSet(before)
  <2>. HIDE DEF small, large
  <2>3. /\ Cardinality(small) <= Cardinality(large)
        /\ Cardinality(small) \in Nat /\ Cardinality(large) \in Nat
    BY <2>1, <2>2, FS_Subset, FS_CardinalityType DEF small, large
  <2>4. Cardinality(small) <= SESSION_LIST_LIMIT
    BY <1>3, <2>3, ListLimitAssumption DEF large
  <2>. QED  BY <2>4 DEF small
<1>7. sig \in H
  BY <1>3
<1>8. \A one : Among(one, after) => ~(one.id = sig.id /\ one.source = sig.source)
  BY <1>1 DEF HeldBack
<1>. HIDE DEF H
<1>. QED  BY <1>5, <1>6, <1>7, <1>8 DEF HeldBack

(* An awaited request that is canceled is held back from then on.          *)
LEMMA HeldBackNow ==
  ASSUME BindingOK, NEW t \in Traces, BindTrace(t), t.request_state = "canceled",
         HasKey(Expected(t), t), Among(Expected(t), pending_mcp_request_signatures)
  PROVE  HeldBack(pending_mcp_request_signatures', canceled_mcp_request_signatures', Expected(t))
<1>. DEFINE sig == Expected(t)
            before == pending_mcp_request_signatures
            after == pending_mcp_request_signatures'
            put == canceled_mcp_request_signatures
            keyed == WithKey(before, t)
<1>1. /\ Listed(before, Signatures) /\ Listed(put, Signatures) /\ Listed(keyed, Signatures)
      /\ \A one : Among(one, keyed) <=> Among(one, before) /\ HasKey(one, t)
      /\ keyed # << >>
  BY WithKeyKept DEF BindingOK
<1>2. Cancels(t, before)
  BY <1>1 DEF Cancels
<1>3. /\ BindingOK'
      /\ \A one : Among(one, after) => Among(one, PendingOnceFiled(t, before)) /\ ~HasKey(one, t)
      /\ put' = RememberAll(put, keyed)
  BY <1>2, TraceTaken DEF CanceledAfter
<1>4. ASSUME NEW one, Among(one, after) PROVE Among(one, before)
  <2>1. CASE IsPendingTrace(t)
    <3>1. Among(one, Remember(before, sig))
      BY <1>3, <1>4, <2>1 DEF PendingOnceFiled, RememberIf
    <3>2. (sig \in Signatures /\ one = sig) \/ Among(one, before)
      <4>1. sig \in Signatures
        BY TraceParts
      <4>2. Knows(before, {})
        BY FS_EmptySet DEF Knows
      <4>3. \A x : Among(x, Remember(before, sig)) => x = sig \/ Among(x, before)
        BY <1>1, <4>1, <4>2, KnowsMore
      <4>. QED  BY <3>1, <4>1, <4>3
    <3>. QED  BY <3>2
  <2>2. CASE ~IsPendingTrace(t)
    BY <1>3, <1>4, <2>2 DEF PendingOnceFiled, RememberIf
  <2>. QED  BY <2>1, <2>2
<1>5. /\ \A x : Among(x, after) <=> x \in ToSet(after)
      /\ \A x : Among(x, keyed) <=> x \in ToSet(keyed)
      /\ \A x : Among(x, before) <=> x \in ToSet(before)
      /\ IsFiniteSet(ToSet(before)) /\ Cardinality(ToSet(before)) <= Len(before)
      /\ Len(before) <= SESSION_LIST_LIMIT /\ Len(before) \in Nat
  BY <1>1, <1>3, AmongToSet, LenProperties DEF Listed, BindingOK
<1>. DEFINE G == ToSet(keyed)
            small == G \cup ToSet(after)
<1>6. sig \in G
  BY <1>1, <1>5
<1>7. Knows(put', G)
  <2>1. Knows(put, {})
    BY FS_EmptySet DEF Knows
  <2>2. Knows(RememberAll(put, keyed), {} \cup G)
    BY <1>1, <2>1, KnowsAll DEF Listed
  <2>3. {} \cup G = G
    OBVIOUS
  <2>. QED  BY <1>3, <2>2, <2>3
<1>8. Cardinality(small) <= SESSION_LIST_LIMIT
  <2>1. small \subseteq ToSet(before)
    BY <1>1, <1>4, <1>5
  <2>. HIDE DEF small
  <2>2. /\ Cardinality(small) <= Cardinality(ToSet(before))
        /\ Cardinality(small) \in Nat /\ Cardinality(ToSet(before)) \in Nat
    BY <1>5, <2>1, FS_Subset, FS_CardinalityType
  <2>. QED  BY <1>5, <2>2, ListLimitAssumption
<1>9. \A one : Among(one, after) => ~(one.id = sig.id /\ one.source = sig.source)
  BY <1>3 DEF HasKey, Expected
<1>. HIDE DEF G
<1>. QED  BY <1>6, <1>7, <1>8, <1>9 DEF HeldBack
-----------------------------------------------------------------------------
LEMMA CanceledStep ==
  ASSUME HistoryOK, BindingOK, PendingKept, CanceledKept, NEW c \in CallsOf, Scores(c),
         theme' = theme
  PROVE  CanceledKept'
<1>. DEFINE n == Len(trail)
            before == pending_mcp_request_signatures
            put == canceled_mcp_request_signatures
<1>1. /\ n \in Nat /\ Len(trail') = n + 1
      /\ \A i \in 1..n : trail'[i] = trail[i]
      /\ trail'[n + 1] = c
  BY HistoryGrows DEF Grown, HistoryOK
<1>2. ASSUME NEW i \in 1..n, NEW sig, CanceledAt(trail', sig, i), NoneFiled(trail', i, n + 1)
      PROVE  HeldBack(before', put', sig)
  <2>1. CanceledAt(trail, sig, i)
    BY <1>1, <1>2, PastStays
  <2>2. NoneFiled(trail, i, n) /\ Files(c) = {}
    <3>1. n + 1 \in i+1..n+1 /\ \A j \in i+1..n : j \in i+1..n+1 /\ trail'[j] = trail[j]
      BY <1>1
    <3>. QED  BY <1>1, <1>2, <3>1 DEF NoneFiled
  <2>3. HeldBack(before, put, sig)
    BY <2>1, <2>2 DEF CanceledKept
  <2>4. CASE UNCHANGED bindingVars
    <3>1. before' = before /\ put' = put
      BY <2>4 DEF bindingVars
    <3>. QED  BY <2>3, <3>1
  <2>5. ASSUME NEW t \in Traces, BindTrace(t),
               Files(c) = IF IsPendingTrace(t) THEN {Expected(t)} ELSE {}
        PROVE  HeldBack(before', put', sig)
    <3>1. ~IsPendingTrace(t)
      BY <2>2, <2>5
    <3>. QED  BY <2>3, <2>5, <3>1, HeldBackStays
  <2>. QED  BY <2>4, <2>5, TraceCases
<1>3. ASSUME NEW sig, CanceledAt(trail', sig, n + 1) PROVE HeldBack(before', put', sig)
  <2>1. PICK t \in c.trace : t.request_state = "canceled" /\ sig = Expected(t) /\ HasKey(sig, t)
    BY <1>1, <1>3 DEF CanceledAt
  <2>2. t \in Traces /\ BindTrace(t)
    BY <2>1, TraceCases
  <2>3. AwaitedIn(trail, sig, n + 1)
    <3>1. AwaitedIn(trail', sig, n + 1)
      BY <1>3 DEF CanceledAt
    <3>2. n + 1 \in 1..(n + 1)
      BY <1>1
    <3>. QED  BY <1>1, <3>1, <3>2, PastStays
  <2>4. PICK k \in 1..n : /\ Unsettled(trail, sig, k, n)
                          /\ Cardinality(FiledSince(trail, k, n)) <= SESSION_LIST_LIMIT
    <3>1. n + 1 - 1 = n
      BY <1>1
    <3>. QED  BY <2>3, <3>1 DEF AwaitedIn
  <2>5. Stays(before, sig, FiledSince(trail, k, n))
    BY <2>4 DEF PendingKept
  <2>6. Among(sig, before)
    <3>1. Cardinality(FiledSince(trail, k, n)) \in Nat
      BY <2>5, FS_CardinalityType DEF Stays
    <3>. QED  BY <2>4, <2>5, <3>1, ListLimitAssumption DEF Stays
  <2>. QED  BY <2>1, <2>2, <2>6, HeldBackNow
<1>4. ASSUME NEW i \in 1..(n + 1), NEW sig, CanceledAt(trail', sig, i), NoneFiled(trail', i, n + 1)
      PROVE  HeldBack(before', put', sig)
  <2>1. i \in 1..n \/ i = n + 1
    BY <1>1
  <2>. QED  BY <1>2, <1>3, <1>4, <2>1
<1>. QED  BY <1>1, <1>4 DEF CanceledKept
-----------------------------------------------------------------------------
(* A late result is bound to nothing, and so taken for foreign.            *)
LEMMA LateIsForeign ==
  ASSUME HistoryOK, BindingOK, CanceledKept, NEW c \in CallsOf, Scores(c), theme' = theme,
         LateIn(trail', Len(trail'))
  PROVE  Foreign(c, TraceFlags(c))
<1>. DEFINE n == Len(trail)
            before == pending_mcp_request_signatures
            put == canceled_mcp_request_signatures
<1>1. /\ n \in Nat /\ Len(trail') = n + 1
      /\ \A i \in 1..n : trail'[i] = trail[i]
      /\ trail'[n + 1] = c
  BY HistoryGrows DEF Grown, HistoryOK
<1>2. PICK i \in 1..n : \E sig :
        /\ CanceledAt(trail', sig, i) /\ NoneFiled(trail', i, n + 1)
        /\ \E late \in c.trace :
             IsResultTrace(late) /\ ~SelfContained(late) /\ HasKey(sig, late)
  <2>1. Len(trail') - 1 = n /\ trail'[Len(trail')] = c
    BY <1>1
  <2>. QED  BY <1>1, <2>1, Zenon DEF LateIn
<1>3. PICK sig : /\ CanceledAt(trail', sig, i) /\ NoneFiled(trail', i, n + 1)
                  /\ \E late \in c.trace :
                       IsResultTrace(late) /\ ~SelfContained(late) /\ HasKey(sig, late)
  BY <1>2, Zenon
<1>4. PICK late \in c.trace : IsResultTrace(late) /\ ~SelfContained(late) /\ HasKey(sig, late)
  BY <1>3, Zenon
<1>5. CanceledAt(trail, sig, i)
  BY <1>1, <1>3, PastStays
<1>6. NoneFiled(trail, i, n) /\ Files(c) = {}
  <2>1. n + 1 \in i+1..n+1 /\ \A j \in i+1..n : j \in i+1..n+1 /\ trail'[j] = trail[j]
    BY <1>1
  <2>. QED  BY <1>1, <1>3, <2>1 DEF NoneFiled
<1>7. HeldBack(before, put, sig)
  BY <1>5, <1>6 DEF CanceledKept
<1>8. late \in Traces /\ c.trace = {late} /\ ~IsPendingTrace(late)
  BY <1>4, <1>6, TraceCases
<1>9. WithKey(before, late) = << >>
  <2>1. \A one : Among(one, before) => ~HasKey(one, late)
    BY <1>4, <1>7 DEF HeldBack, HasKey
  <2>. QED  BY <2>1, WithKeyKept DEF BindingOK
<1>10. WithKey(put, late) # << >>
  <2>1. PICK G : /\ sig \in G /\ Knows(put, G)
                 /\ Cardinality(G \cup ToSet(before)) <= SESSION_LIST_LIMIT
    BY <1>7 DEF HeldBack
  <2>2. IsFiniteSet(G) /\ IsFiniteSet(ToSet(before))
    BY <2>1, AmongToSet DEF Knows, BindingOK, Listed
  <2>. DEFINE both == G \cup ToSet(before)
  <2>3. G \subseteq both /\ IsFiniteSet(both)
    BY <2>2, FS_Union
  <2>. HIDE DEF both
  <2>4. /\ Cardinality(G) <= Cardinality(both)
        /\ Cardinality(G) \in Nat /\ Cardinality(both) \in Nat
    BY <2>3, FS_Subset, FS_CardinalityType
  <2>5. ~(Cardinality(G) > SESSION_LIST_LIMIT)
    BY <2>1, <2>4, ListLimitAssumption DEF both
  <2>6. Among(sig, put)
    BY <2>1, <2>5 DEF Knows
  <2>. QED  BY <1>4, <2>6, WithKeyKept DEF BindingOK
<1>11. "mcp_unbound_tool_result" \in Binding(late).flags
  <2>1. ~Cancels(late, before)
    BY <1>9 DEF Cancels
  <2>2. /\ PendingOnceFiled(late, before) = before
        /\ PendingAfterCancel(late, before, before) = before
        /\ CanceledAfter(late, before, put) = put
    BY <1>8, <2>1 DEF PendingOnceFiled, RememberIf, PendingAfterCancel, CanceledAfter
  <2>3. \A completed : Unbound(late, before, completed, put)
    BY <1>4, <1>9, <1>10 DEF Unbound
  <2>. QED  BY <2>2, <2>3 DEF Binding, When
<1>12. "mcp_unbound_tool_result" \in TraceFlags(c)
  BY <1>8, <1>11 DEF TraceFlags
<1>. QED  BY <1>12 DEF Foreign

(* What came with results taken for foreign is remembered, with all that   *)
(* came with late ones.                                                    *)
ViolationsOf(calls, gifts) ==
  \A k \in 1..Len(calls) :
    /\ gifts[k] \subseteq ToSet(calls[k].result_markers)
    /\ LateIn(calls, k) => gifts[k] = ToSet(calls[k].result_markers)

ViolationsOK ==
  \E gifts : /\ Tells(recent_mcp_trace_violation_markers, STRING, gifts, Len(trail))
            /\ ViolationsOf(trail, gifts)

LateOf(calls, flags) ==
  LET n == Len(calls)
  IN  n > 0 /\ "public" \in calls[n].sinks =>
        \A k \in 1..n :
          /\ LateIn(calls, k)
          /\ ToSet(calls[k].result_markers) \cap CurrentMarkers(calls[n]) # {}
          /\ Cardinality(GivenSince(MarkersOf(calls), n, k)) <= SESSION_LIST_LIMIT
          => "mcp_foreign_tool_result_injection" \in flags

LEMMA ViolationsStep ==
  ASSUME HistoryOK, BindingOK, CanceledKept, ViolationsOK, NEW c \in CallsOf, Scores(c),
         theme' = theme
  PROVE  ViolationsOK'
<1>. DEFINE n == Len(trail)
            list == recent_mcp_trace_violation_markers
            brought == IF Foreign(c, TraceFlags(c)) THEN c.result_markers ELSE << >>
<1>1. /\ n \in Nat /\ Len(trail') = n + 1
      /\ \A i \in 1..n : trail'[i] = trail[i]
      /\ trail'[n + 1] = c
  BY HistoryGrows DEF Grown, HistoryOK
<1>2. PICK gifts : Tells(list, STRING, gifts, n) /\ ViolationsOf(trail, gifts)
  BY DEF ViolationsOK
<1>3. list' = RememberAll(list, brought)
  BY DEF Scores, TaintStep
<1>4. brought \in Seq(STRING) /\ ToSet(brought) \subseteq ToSet(c.result_markers)
  <2>1. c.result_markers \in Seq(STRING)
    BY CatalogueAssumption DEF CallsOf, IsTrailCall
  <2>2. << >> \in Seq(STRING) /\ ToSet(<< >>) = {}
    BY EmptySeq DEF ToSet
  <2>. QED  BY <2>1, <2>2
<1>5. LateIn(trail', n + 1) => brought = c.result_markers
  BY <1>1, LateIsForeign
<1>. HIDE DEF brought
<1>. DEFINE more == [k \in 1..(n + 1) |-> IF k = n + 1 THEN ToSet(brought) ELSE gifts[k]]
<1>6. more[n + 1] = ToSet(brought) /\ \A k \in 1..n : more[k] = gifts[k]
  BY <1>1
<1>. HIDE DEF more
<1>7. Tells(list', STRING, more, n + 1)
  BY <1>1, <1>2, <1>3, <1>4, <1>6, GivenAll
<1>8. ViolationsOf(trail', more)
  <2>1. ASSUME NEW k \in 1..n
        PROVE  /\ more[k] \subseteq ToSet(trail'[k].result_markers)
               /\ LateIn(trail', k) => more[k] = ToSet(trail'[k].result_markers)
    <3>1. LateIn(trail', k) <=> LateIn(trail, k)
      BY <1>1, PastStays
    <3>. QED  BY <1>1, <1>2, <1>6, <3>1 DEF ViolationsOf
  <2>2. /\ more[n + 1] \subseteq ToSet(trail'[n + 1].result_markers)
        /\ LateIn(trail', n + 1) => more[n + 1] = ToSet(trail'[n + 1].result_markers)
    BY <1>1, <1>4, <1>5, <1>6
  <2>3. \A k \in 1..(n + 1) : k \in 1..n \/ k = n + 1
    BY <1>1
  <2>. QED  BY <1>1, <2>1, <2>2, <2>3 DEF ViolationsOf
<1>. QED  BY <1>1, <1>7, <1>8 DEF ViolationsOK

LEMMA LateStep ==
  ASSUME HistoryOK', MarkersOK', ViolationsOK', NEW c \in CallsOf, Scores(c),
         trail'[Len(trail')] = c
  PROVE  LateOf(trail', fired')
<1>. DEFINE n == Len(trail')
            list == recent_mcp_trace_violation_markers'
            marked == MarkersOf(trail')
<1>1. PICK gifts : Tells(list, STRING, gifts, n) /\ ViolationsOf(trail', gifts)
  BY DEF ViolationsOK
<1>2. SUFFICES ASSUME n > 0, "public" \in c.sinks, NEW k \in 1..n, LateIn(trail', k),
                      NEW marker \in ToSet(trail'[k].result_markers), marker \in CurrentMarkers(c),
                      Cardinality(GivenSince(marked, n, k)) <= SESSION_LIST_LIMIT
               PROVE  "mcp_foreign_tool_result_injection" \in fired'
  BY DEF LateOf
<1>3. n \in Nat \ {0}
  BY <1>2 DEF HistoryOK, IsList
<1>4. GivenSince(gifts, n, k) \subseteq GivenSince(marked, n, k)
  <2>1. \A j \in k..n : j \in 1..n
    BY <1>3
  <2>2. \A j \in 1..n : marked[j] = ToSet(trail'[j].result_markers)
    BY DEF MarkersOf
  <2>. QED  BY <1>1, <2>1, <2>2 DEF GivenSince, ViolationsOf
<1>5. IsFiniteSet(GivenSince(marked, n, k))
  BY DEF MarkersOK, Tells, Knows
<1>. HIDE DEF marked
<1>6. Cardinality(GivenSince(gifts, n, k)) <= SESSION_LIST_LIMIT
  <2>. DEFINE small == GivenSince(gifts, n, k)
              large == GivenSince(marked, n, k)
  <2>1. small \subseteq large /\ IsFiniteSet(large) /\ Cardinality(large) <= SESSION_LIST_LIMIT
    BY <1>2, <1>4, <1>5
  <2>. HIDE DEF small, large
  <2>2. /\ Cardinality(small) <= Cardinality(large)
        /\ Cardinality(small) \in Nat /\ Cardinality(large) \in Nat
    BY <2>1, FS_Subset, FS_CardinalityType
  <2>3. Cardinality(small) <= SESSION_LIST_LIMIT
    BY <2>1, <2>2, ListLimitAssumption
  <2>. QED  BY <2>3 DEF small
<1>7. marker \in gifts[k]
  BY <1>1, <1>2 DEF ViolationsOf
<1>. HIDE DEF n, list
<1>8. Among(marker, list)
  BY <1>1, <1>2, <1>3, <1>6, <1>7, Found
<1>9. marker \in ToSet(list)
  BY <1>1, <1>8, AmongToSet DEF Tells, Listed
<1>10. SendsOut(c) /\ Carries(c, list)
  BY <1>2, <1>9 DEF SendsOut, Carries
<1>. QED  BY <1>10, FlagMeans DEF Scores, list

LEMMA LateSays ==
  ASSUME HistoryOK, LateOf(trail, fired)
  PROVE  LateMarkerRecognised
<1>. DEFINE n == Len(trail)
<1>. SUFFICES ASSUME n > 0, "public" \in trail[n].sinks, NEW k \in 1..n, ComesLate(k),
                     ToSet(trail[k].result_markers) \cap CurrentMarkers(trail[n]) # {},
                     Cardinality(UNION { ToSet(trail[j].result_markers) : j \in k..n })
                       <= SESSION_LIST_LIMIT
              PROVE  "mcp_foreign_tool_result_injection" \in fired
  BY DEF LateMarkerRecognised, Since, At, Now
<1>1. GivenSince(MarkersOf(trail), n, k) = UNION { ToSet(trail[j].result_markers) : j \in k..n }
  <2>1. \A j \in k..n : j \in 1..n
    BY DEF HistoryOK, IsList
  <2>2. \A j \in 1..n : MarkersOf(trail)[j] = ToSet(trail[j].result_markers)
    BY DEF MarkersOf
  <2>. QED  BY <2>1, <2>2 DEF GivenSince
<1>2. LateIn(trail, k)
  <2>0. PICK i \in 1..k-1 : \E t \in trail[i].trace, late \in trail[k].trace :
          /\ t.request_state = "canceled" /\ HasKey(Expected(t), t) /\ Awaited(Expected(t), i)
          /\ \A j \in i+1..k : Files(trail[j]) = {}
          /\ IsResultTrace(late) /\ ~SelfContained(late) /\ HasKey(Expected(t), late)
    BY DEF ComesLate, At
  <2>1. PICK t \in trail[i].trace, late \in trail[k].trace :
          /\ t.request_state = "canceled" /\ HasKey(Expected(t), t) /\ Awaited(Expected(t), i)
          /\ \A j \in i+1..k : Files(trail[j]) = {}
          /\ IsResultTrace(late) /\ ~SelfContained(late) /\ HasKey(Expected(t), late)
    BY <2>0
  <2>2. AwaitedIn(trail, Expected(t), i)
    BY <2>1 DEF Awaited, AwaitedIn, Unsettled, FiledSince, At
  <2>3. CanceledAt(trail, Expected(t), i) /\ NoneFiled(trail, i, k)
    BY <2>1, <2>2 DEF CanceledAt, NoneFiled
  <2>. QED  BY <2>1, <2>3 DEF LateIn
<1>. QED  BY <1>1, <1>2 DEF LateOf
-----------------------------------------------------------------------------
(* What the session remembers, told by the whole trail, and what was      *)
(* flagged on the last call.                                               *)
IInv ==
  /\ HistoryOK /\ SeedOK /\ ScopeOK /\ IntentOK /\ PoisonOK /\ FloodOK
  /\ EndingsOK /\ WritingsOK /\ DowngradeOK /\ DirectedOK /\ MarkersOK /\ ProbesOK
  /\ BindingOK /\ PendingKept /\ CanceledKept /\ ViolationsOK
  /\ AmplificationNeedsSeed /\ ScopeBindsUntilReplaced /\ ApprovalBoundToEvent
  /\ PoisonFollowsMarkers /\ FloodExactly
  /\ NotifyOf(trail, fired) /\ RunOf(trail, fired) /\ SilentOf(trail, alarms)
  /\ DirectedOf(trail, fired) /\ LeakOf(trail, fired)
  /\ PaymentsOf(trail, fired) /\ QueriesOf(trail, fired) /\ LateOf(trail, fired)

(* It holds at the start of a session and after every call.               *)
LEMMA InitHolds == TrailInit => IInv
<1>. SUFFICES ASSUME TrailInit PROVE IInv
  OBVIOUS
<1>1. /\ trail = << >> /\ alarms = << >> /\ theme \in Themes /\ fired = {}
      /\ subscription_chain_seed = FALSE
      /\ current_allowed_tool_scope = << >>
      /\ last_trusted_intent_event_id = None /\ trusted_intent_age_steps = 0
      /\ recent_poisoned_memory_keys = << >>
      /\ recent_partial_subscriptions = << >>
      /\ recent_unsubscribed_ids = << >> /\ recent_written_artifacts = << >>
      /\ last_protocol_version = {}
      /\ recent_untrusted_plan_directives = << >> /\ recent_cross_protocol_directives = << >>
      /\ recent_sensitive_markers = << >>
      /\ recent_payment_attempt_signatures = << >> /\ payment_verification_attempt_count = 0
      /\ recent_oracle_signatures = << >> /\ oracle_iteration_count = 0
      /\ pending_mcp_request_signatures = << >> /\ canceled_mcp_request_signatures = << >>
      /\ recent_mcp_trace_violation_markers = << >>
  BY DEF TrailInit, ScorerInit, Init, BindingInit, LifecycleInit, ProbeInit, IntentInit, TaintInit
<1>2. Len(<< >>) = 0 /\ 1..0 = {}
  OBVIOUS
<1>3. HistoryOK
  BY <1>1, <1>2, EmptyIsList DEF HistoryOK
<1>4. SeedOK
  BY <1>1, <1>2 DEF SeedOK, SeedLeft
<1>5. ScopeOK
  BY <1>1, <1>2 DEF ScopeOK, ScopeOf
<1>6. IntentOK
  BY <1>1, <1>2 DEF IntentOK, IntentOf
<1>7. PoisonOK
  BY <1>1, <1>2, EmptySeq DEF PoisonOK, PoisonOf, Distinct
<1>8. FloodOK /\ EndingsOK /\ WritingsOK /\ DirectedOK /\ MarkersOK /\ ProbesOK
  <2>1. \A S, gifts : Tells(<< >>, S, gifts, 0)
    BY NothingGiven
  <2>. QED  BY <1>1, <1>2, <2>1
            DEF FloodOK, EndingsOK, WritingsOK, DirectedOK, MarkersOK, ProbesOK
<1>9. Now = 0
  BY <1>1, <1>2 DEF Now
<1>12. DowngradeOK
  BY <1>1, <1>2 DEF DowngradeOK, VersionOf, SecurityOf
<1>10. /\ AmplificationNeedsSeed /\ ScopeBindsUntilReplaced /\ ApprovalBoundToEvent
       /\ PoisonFollowsMarkers /\ NotifyOf(trail, fired) /\ RunOf(trail, fired)
       /\ SilentOf(trail, alarms) /\ DirectedOf(trail, fired) /\ LeakOf(trail, fired)
       /\ PaymentsOf(trail, fired) /\ QueriesOf(trail, fired)
  <2>1. ~(Now > 0)
    BY <1>9
  <2>. QED  BY <2>1, Zenon
            DEF AmplificationNeedsSeed, ScopeBindsUntilReplaced, ApprovalBoundToEvent,
                PoisonFollowsMarkers, NotifyOf, RunOf, SilentOf, DirectedOf, LeakOf,
                PaymentsOf, QueriesOf, Now
<1>11. FloodExactly
  <2>1. ~(Now > 0) /\ "partial_subscription_flood" \notin fired
    BY <1>1, <1>9
  <2>. QED  BY <2>1, Zenon DEF FloodExactly
<1>13. BindingOK /\ PendingKept /\ CanceledKept
  <2>1. \A S : Listed(<< >>, S)
    BY EmptySeq, ListLimitAssumption DEF Listed, Distinct
  <2>2. \A k \in 1..Len(trail) : FALSE
    BY <1>1, <1>2
  <2>. QED  BY <1>1, <2>1, <2>2, Zenon DEF BindingOK, PendingKept, CanceledKept
<1>14. ViolationsOK /\ LateOf(trail, fired)
  <2>1. \A k \in 1..Len(trail) : FALSE
    BY <1>1, <1>2
  <2>2. Tells(recent_mcp_trace_violation_markers, STRING, << >>, Len(trail))
    BY <1>1, <1>2, NothingGiven
  <2>3. ViolationsOf(trail, << >>)
    BY <2>1, Zenon DEF ViolationsOf
  <2>4. LateOf(trail, fired)
    BY <2>1, Zenon DEF LateOf
  <2>. QED  BY <2>2, <2>3, <2>4 DEF ViolationsOK
<1>. QED  BY <1>3, <1>4, <1>5, <1>6, <1>7, <1>8, <1>10, <1>11, <1>12, <1>13, <1>14 DEF IInv

LEMMA StepHolds == IInv /\ [TrailNext]_trailVars => IInv'
<1>. SUFFICES ASSUME IInv, [TrailNext]_trailVars PROVE IInv'
  OBVIOUS
<1>1. CASE TrailNext
  <2>1. PICK c \in CallsOf : Scores(c) /\ theme' = theme
    BY <1>1, CallScored DEF IInv, HistoryOK
  <2>2. HistoryOK' /\ SeedOK' /\ AmplificationNeedsSeed'
    BY <2>1, HistoryGrows, SeedStep DEF IInv
  <2>3. /\ ScopeOK' /\ ScopeBindsUntilReplaced' /\ IntentOK' /\ ApprovalBoundToEvent'
        /\ PoisonOK' /\ PoisonFollowsMarkers'
    BY <2>1, ScopeStep, IntentStepKeeps, PoisonStep DEF IInv
  <2>4. /\ FloodOK' /\ FloodExactly' /\ EndingsOK' /\ NotifyOf(trail', fired')
        /\ WritingsOK' /\ RunOf(trail', fired') /\ DowngradeOK' /\ SilentOf(trail', alarms')
    BY <2>1, FloodStep, EndingsStep, WritingsStep, DowngradeStep DEF IInv
  <2>5. /\ DirectedOK' /\ DirectedOf(trail', fired') /\ MarkersOK' /\ LeakOf(trail', fired')
    BY <2>1, DirectedStep, LeakStep DEF IInv
  <2>6. ProbesOK' /\ PaymentsOf(trail', fired') /\ QueriesOf(trail', fired')
    BY <2>1, PaymentStepKeeps, OracleStepKeeps DEF IInv, ProbesOK
  <2>7. BindingOK' /\ PendingKept' /\ CanceledKept' /\ ViolationsOK'
    BY <2>1, PendingStep, CanceledStep, ViolationsStep DEF IInv
  <2>8. LateOf(trail', fired')
    <3>1. trail'[Len(trail')] = c
      BY <2>1, HistoryGrows DEF IInv, Grown, HistoryOK
    <3>. QED  BY <2>1, <2>2, <2>5, <2>7, <3>1, LateStep
  <2>. QED  BY <2>2, <2>3, <2>4, <2>5, <2>6, <2>7, <2>8 DEF IInv
<1>2. CASE UNCHANGED trailVars
  <2>1. /\ trail' = trail /\ alarms' = alarms /\ theme' = theme /\ fired' = fired
        /\ subscription_chain_seed' = subscription_chain_seed
        /\ current_allowed_tool_scope' = current_allowed_tool_scope
        /\ last_trusted_intent_event_id' = last_trusted_intent_event_id
        /\ trusted_intent_age_steps' = trusted_intent_age_steps
        /\ recent_poisoned_memory_keys' = recent_poisoned_memory_keys
        /\ recent_partial_subscriptions' = recent_partial_subscriptions
        /\ recent_unsubscribed_ids' = recent_unsubscribed_ids
        /\ recent_written_artifacts' = recent_written_artifacts
        /\ last_protocol_version' = last_protocol_version
        /\ last_protocol_capabilities_had_security' = last_protocol_capabilities_had_security
        /\ recent_untrusted_plan_directives' = recent_untrusted_plan_directives
        /\ recent_cross_protocol_directives' = recent_cross_protocol_directives
        /\ recent_sensitive_markers' = recent_sensitive_markers
        /\ recent_payment_attempt_signatures' = recent_payment_attempt_signatures
        /\ payment_verification_attempt_count' = payment_verification_attempt_count
        /\ recent_oracle_signatures' = recent_oracle_signatures
        /\ oracle_iteration_count' = oracle_iteration_count
        /\ pending_mcp_request_signatures' = pending_mcp_request_signatures
        /\ canceled_mcp_request_signatures' = canceled_mcp_request_signatures
        /\ recent_mcp_trace_violation_markers' = recent_mcp_trace_violation_markers
    BY <1>2 DEF trailVars, scorerVars, vars, bindingVars, lifecycleVars, probeVars, intentVars,
                taintVars
  <2>2. HistoryOK' /\ SeedOK' /\ ScopeOK' /\ IntentOK' /\ PoisonOK' /\ FloodOK'
        /\ EndingsOK' /\ WritingsOK' /\ DowngradeOK' /\ DirectedOK' /\ MarkersOK' /\ ProbesOK'
    BY <2>1 DEF IInv, HistoryOK, SeedOK, ScopeOK, IntentOK, PoisonOK, FloodOK, EndingsOK,
                WritingsOK, DowngradeOK, DirectedOK, MarkersOK, ProbesOK
  <2>3. /\ AmplificationNeedsSeed' /\ ScopeBindsUntilReplaced'
    BY <2>1 DEF IInv, AmplificationNeedsSeed, ScopeBindsUntilReplaced, At, Now
  <2>4. ApprovalBoundToEvent' /\ PoisonFollowsMarkers' /\ FloodExactly'
    BY <2>1 DEF IInv, ApprovalBoundToEvent, LastIntent, PoisonFollowsMarkers, FloodExactly, Since,
                At, Now
  <2>5. /\ NotifyOf(trail', fired') /\ RunOf(trail', fired') /\ SilentOf(trail', alarms')
        /\ DirectedOf(trail', fired') /\ LeakOf(trail', fired')
        /\ PaymentsOf(trail', fired') /\ QueriesOf(trail', fired') /\ LateOf(trail', fired')
    BY <2>1 DEF IInv
  <2>6. BindingOK' /\ PendingKept' /\ CanceledKept' /\ ViolationsOK'
    BY <2>1 DEF IInv, BindingOK, PendingKept, CanceledKept, ViolationsOK
  <2>. QED  BY <2>2, <2>3, <2>4, <2>5, <2>6 DEF IInv
<1>. QED  BY <1>1, <1>2

(* Every state of a session fits its whole trail.                          *)
THEOREM TrailFits == TrailSpec => []IInv
BY InitHolds, StepHolds, PTL DEF TrailSpec

(* A recursive root subscription is an amplification exactly when one      *)
(* amplified subscription is still to be answered for (the seed of         *)
(* CERBERScorer.score), in a session of any calls and any length.          *)
THEOREM SeedAnswersOnce == TrailSpec => []AmplificationNeedsSeed
<1>1. IInv => AmplificationNeedsSeed
  BY DEF IInv
<1>. QED  BY <1>1, TrailFits, PTL

(* The tools allowed by a trusted user, by their own name or by the one    *)
(* with underscores, bind the session until tools are allowed again,       *)
(* however long ago that was.                                              *)
THEOREM ScopeBinds == TrailSpec => []ScopeBindsUntilReplaced
<1>1. IInv => ScopeBindsUntilReplaced
  BY DEF IInv
<1>. QED  BY <1>1, TrailFits, PTL

(* A prior approval counts for its own event only, and for INTENT_LIFE     *)
(* calls.                                                                  *)
THEOREM ApprovalBound == TrailSpec => []ApprovalBoundToEvent
<1>1. IInv => ApprovalBoundToEvent
  BY DEF IInv
<1>. QED  BY <1>1, TrailFits, PTL

(* After one poisoned memory key every marker that leaves is put down to   *)
(* it, for the rest of the session, whatever is remembered later.          *)
THEOREM PoisonFollows == TrailSpec => []PoisonFollowsMarkers
<1>1. IInv => PoisonFollowsMarkers
  BY DEF IInv
<1>. QED  BY <1>1, TrailFits, PTL

(* A bounded list counts the resources subscribed to without bound: the    *)
(* flood is reported exactly from the PARTIAL_FLOOD-th on.                 *)
THEOREM FloodCountsAll == TrailSpec => []FloodExactly
<1>1. IInv => FloodExactly
  BY DEF IInv
<1>. QED  BY <1>1, TrailFits, PTL

(* A notification is flagged only after its subscription was ended with a  *)
(* replayed token, and always unless the endings since fill the list.      *)
THEOREM EndedIsNoticed == TrailSpec => []NotifyAfterUnsubscribeCaught
<1>1. IInv => NotifyAfterUnsubscribeCaught
  BY NotifySays DEF IInv
<1>. QED  BY <1>1, TrailFits, PTL

(* An unapproved file is flagged when it is run only if the session wrote  *)
(* it, and always unless the files written since fill the list.            *)
THEOREM WrittenIsNoticed == TrailSpec => []WrittenThenRunCaught
<1>1. IInv => WrittenThenRunCaught
  BY RunSays DEF IInv
<1>. QED  BY <1>1, TrailFits, PTL

(* However many initializations a session makes, none takes it to a lower  *)
(* version or away from its security capabilities without a flag on the    *)
(* way, as long as every one in between names a version.                   *)
THEOREM DowngradeIsNoticed == TrailSpec => []DowngradeNeverSilent
<1>1. IInv => DowngradeNeverSilent
  BY SilentSays DEF IInv
<1>. QED  BY <1>1, TrailFits, PTL

(* A tool that an untrusted text called for is flagged when it is called,  *)
(* however much later, while the calls since named no more tools than the  *)
(* session lists; and only such a tool is.                                 *)
THEOREM DirectedIsNoticed == TrailSpec => []DirectedToolCaught
<1>1. IInv => DirectedToolCaught
  BY DirectedSays DEF IInv
<1>. QED  BY <1>1, TrailFits, PTL

(* A marker seen in a tool result is flagged when it leaves in public, in  *)
(* a link or in a draft, while too few others were seen since to push it   *)
(* out; and only such a marker is.                                         *)
THEOREM LeakIsNoticed == TrailSpec => []ExfiltrationCaught
<1>1. IInv => ExfiltrationCaught
  BY LeakSays DEF IInv
<1>. QED  BY <1>1, TrailFits, PTL

(* Different codes tried on one card or one fragment raise the alarm once  *)
(* there are enough of them, if the probes in between fit the list; and    *)
(* neither alarm is ever raised before enough were tried on profiles that  *)
(* begin with that of one probe, which is what startswith counts.          *)
THEOREM ProbesAreCounted == TrailSpec => []ProbesCaught
<1>1. IInv => ProbesCaught
  BY ProbesSay DEF IInv
<1>. QED  BY <1>1, TrailFits, PTL

(* A result that comes for a request canceled while the session awaited it *)
(* is taken for foreign, so that a marker it brought is flagged when it is *)
(* sent out in public, while too few others came since to push it out.     *)
THEOREM LateIsRecognised == TrailSpec => []LateMarkerRecognised
<1>1. IInv => LateMarkerRecognised
  BY LateSays DEF IInv
<1>. QED  BY <1>1, TrailFits, PTL
-----------------------------------------------------------------------------
(* The whole scorer: the flags are ones the risk knows, so what is proved  *)
(* of the risk of any session holds of the sessions of the catalogue.      *)
LEMMA FlagsKnown ==
  ASSUME NEW c
  PROVE  Flags(c) \subseteq DetectorFlags
<1>1. When(mcp_chain_hit', "mcp_chain_hit") \subseteq DetectorFlags
  BY DEF When, DetectorFlags, Detectors, Boost3000
<1>2. TraceFlags(c) \subseteq DetectorFlags
  BY TraceFlagNames DEF DetectorFlags, Detectors, Boost4200, Boost5400
<1>3. LifecycleFlags(c) \subseteq DetectorFlags
  BY LifecycleFlagNames DEF DetectorFlags, Detectors, Boost3600, Boost4200, Boost5400, Boost6000
<1>4. ProbeFlags(c) \subseteq DetectorFlags
  BY ProbeFlagNames DEF DetectorFlags, Detectors, Boost5400
<1>5. IntentFlags(c) \subseteq DetectorFlags
  BY IntentFlagNames DEF DetectorFlags, Detectors, Boost4200, Boost4800, Boost5400
<1>6. TaintFlags(c) \subseteq DetectorFlags
  BY TaintFlagNames DEF DetectorFlags, Detectors, Boost4800, Boost5400, Boost6000
<1>. QED  BY <1>1, <1>2, <1>3, <1>4, <1>5, <1>6, Zenon DEF Flags

(* What the risk is scored from.                                           *)
Scored(c) == [prelim |-> c.prelim, sensitive |-> c.sensitive, fired |-> Flags(c)]

LEMMA ScoredIsCall ==
  ASSUME NEW c \in CallsOf
  PROVE  IsCall(Scored(c))
<1>1. IsCall([prelim |-> c.prelim, sensitive |-> c.sensitive, fired |-> {}])
  BY CatalogueAssumption DEF CallsOf, IsTrailCall
<1>2. Flags(c) \subseteq DetectorFlags
  BY FlagsKnown
<1>. QED  BY <1>1, <1>2 DEF IsCall, Scored

LEMMA TrailScores ==
  ASSUME theme \in Themes, TrailNext
  PROVE  \E c \in CallsOf : ScoreCall(c) /\ Scores(c) /\ theme' = theme
<1>1. PICK name \in theme : \E c \in {Catalogue[name]} :
        ScoreCall(c) /\ trail' = Append(trail, c) /\ alarms' = Append(alarms, fired')
  BY DEF TrailNext
<1>. DEFINE c == Catalogue[name]
<1>2. c \in CallsOf
  BY ThemesAssumption DEF CallsOf
<1>3. ScoreCall(c) /\ trail' = Append(trail, c) /\ alarms' = Append(alarms, fired')
  BY <1>1
<1>. HIDE DEF c
<1>4. fired' = Flags(c)
  BY <1>3 DEF ScoreCall, ScoreAndUpgrade
<1>5. Scores(c)
  BY <1>3, <1>4 DEF ScoreCall, Scores
<1>. QED  BY <1>2, <1>3, <1>5 DEF TrailNext

LEMMA ScoreUpgrades ==
  ASSUME NEW c, ScoreCall(c)
  PROVE  ScoreAndUpgrade(Scored(c))
BY DEF ScoreCall, Scored

(* A plain call speaks to no detector; the oracle count alone is looked at *)
(* on it too, and stays.                                                   *)
LEMMA PlainFlags ==
  ASSUME ScoreCall(PlainCall)
  PROVE  /\ Flags(PlainCall) = When(oracle_iteration_count' >= ORACLE_VARIANTS,
                                   "tool_oracle_iteration_risk")
         /\ oracle_iteration_count' = oracle_iteration_count
<1>. DEFINE p == PlainCall
<1>1. /\ p.rules = {} /\ p.completes = FALSE /\ p.trace = {} /\ p.notifies = FALSE
      /\ p.initialize = {} /\ p.payment = {} /\ p.oracle = {} /\ p.tool = None
      /\ p.event = None /\ p.delegation = None /\ p.runs = FALSE /\ p.link = None /\ p.sinks = {}
  BY DEF PlainCall
<1>2. mcp_chain_hit' = FALSE
  <2>1. Chain(p).rules = {} /\ Chain(p).completes = FALSE
    BY <1>1 DEF Chain
  <2>2. Hijack!Step(Chain(p))
    BY DEF ScoreCall
  <2>. HIDE DEF p
  <2>. QED  BY <2>1, <2>2 DEF Hijack!Step, Hijack!PartialHandshake, Hijack!TakeOverSubscription,
                              Hijack!CompleteHandshake, Hijack!CorruptSubscription, Hijack!OtherCall
<1>3. LifecycleStep(p) /\ ProbeStep(p)
  BY DEF ScoreCall
<1>. HIDE DEF p
<1>4. TraceFlags(p) = {}
  BY <1>1 DEF TraceFlags
<1>5. LifecycleFlags(p) = {}
  <2>1. ~Floods(p) /\ ~NotifiesUnsubscribed(p) /\ ~Regresses(p) /\ ~Amplifies(p)
    BY <1>1 DEF Floods, SubscribesPartially, NotifiesUnsubscribed, Regresses, Amplifies
  <2>2. ~(last_protocol_capabilities_had_security /\ ~SecurityAfter(p))
    BY <1>1 DEF SecurityAfter, Initializes
  <2>. QED  BY <2>1, <2>2 DEF LifecycleFlags, When
<1>6. IntentFlags(p) = {}
  BY <1>1, ConfinedToolsAssumption
  DEF IntentFlags, CrossesEvents, LeavesScope, FollowsDirective, CrossesProtocols, When
<1>7. TaintFlags(p) = {}
  BY <1>1 DEF TaintFlags, DelegatesRiskily, RunsWritten, SendsOut, DraftsOut, IsSensitiveSink,
              Exfiltrates, When
<1>8. ProbeFlags(p) = When(oracle_iteration_count' >= ORACLE_VARIANTS, "tool_oracle_iteration_risk")
  BY <1>1 DEF ProbeFlags, When
<1>9. oracle_iteration_count' = oracle_iteration_count
  BY <1>1, <1>3 DEF ProbeStep, OracleStep
<1>10. When(mcp_chain_hit', "mcp_chain_hit") = {}
  BY <1>2 DEF When
<1>11. Flags(p) = When(oracle_iteration_count' >= ORACLE_VARIANTS, "tool_oracle_iteration_risk")
  BY <1>4, <1>5, <1>6, <1>7, <1>8, <1>10, Zenon DEF Flags
<1>. QED  BY <1>9, <1>11 DEF p

(* On a plain call the oracle count decides what fires; and the plain      *)
(* calls at the end of the trail are calm ones, if nothing fires on them.  *)
PlainRun(calls, k) == \A j \in k..Len(calls) : calls[j] = PlainCall

PlainSpeaks(calls, flags, count) ==
  Len(calls) > 0 /\ calls[Len(calls)] = PlainCall
    => flags = When(count >= ORACLE_VARIANTS, "tool_oracle_iteration_risk")

PlainCalm(calls, flags, n) ==
  flags = {} => \A k \in 1..Len(calls) : PlainRun(calls, k) => n >= Len(calls) - k + 1

PlainOK ==
  /\ PlainSpeaks(trail, fired, oracle_iteration_count)
  /\ PlainCalm(trail, fired, calm)

ScorerOK == HistoryOK /\ RiskOK /\ PlainOK

LEMMA PlainStep ==
  ASSUME ScorerOK, NEW c \in CallsOf, ScoreCall(c), Grown(trail, trail', c)
  PROVE  PlainOK'
<1>. DEFINE n == Len(trail)
            flag(count) == When(count >= ORACLE_VARIANTS, "tool_oracle_iteration_risk")
<1>1. /\ n \in Nat /\ Len(trail') = n + 1 /\ trail'[n + 1] = c
      /\ \A i \in 1..n : trail'[i] = trail[i]
  BY DEF Grown
<1>2. fired' = Flags(c) /\ calm' = IF IsCalm(c.prelim, fired') THEN calm + 1 ELSE 0
  BY ScoreUpgrades DEF ScoreAndUpgrade, Scored
<1>3. c = PlainCall => fired' = flag(oracle_iteration_count')
                       /\ oracle_iteration_count' = oracle_iteration_count
  BY <1>2, PlainFlags
<1>4. calm \in Nat
  BY MaxCallsAssumption, SMT DEF ScorerOK, RiskOK, TypeOK
<1>5. PlainSpeaks(trail', fired', oracle_iteration_count')
  BY <1>1, <1>3 DEF PlainSpeaks
<1>6. ASSUME fired' = {}, NEW k \in 1..Len(trail'), PlainRun(trail', k)
      PROVE  calm' >= Len(trail') - k + 1
  <2>1. c = PlainCall
    BY <1>1, <1>6, SMT DEF PlainRun
  <2>2. calm' = calm + 1
    BY <1>2, <1>6, <2>1 DEF IsCalm, PlainCall
  <2>3. CASE k = n + 1
    BY <1>1, <1>4, <2>2, <2>3, SMT
  <2>4. CASE k \in 1..n
    <3>1. PlainRun(trail, k)
      BY <1>1, <1>6, <2>4, SMT DEF PlainRun
    <3>2. trail[n] = PlainCall
      BY <1>1, <2>4, <3>1, SMT DEF PlainRun
    <3>3. fired = flag(oracle_iteration_count)
      BY <1>1, <2>4, <3>2, SMT DEF ScorerOK, PlainOK, PlainSpeaks
    <3>4. fired = {}
      BY <1>3, <1>6, <2>1, <3>3
    <3>5. calm >= n - k + 1
      BY <2>4, <3>1, <3>4 DEF ScorerOK, PlainOK, PlainCalm
    <3>. QED  BY <1>1, <1>4, <2>2, <2>4, <3>5, SMT
  <2>. QED  BY <1>1, <2>3, <2>4, SMT
<1>7. PlainCalm(trail', fired', calm')
  BY <1>6 DEF PlainCalm
<1>. QED  BY <1>5, <1>7 DEF PlainOK

LEMMA ScorerInitHolds == TrailInit => ScorerOK
<1>. SUFFICES ASSUME TrailInit PROVE ScorerOK
  OBVIOUS
<1>1. IInv
  BY InitHolds
<1>2. RiskOK
  BY InitRisk DEF TrailInit, ScorerInit
<1>3. trail = << >>
  BY DEF TrailInit
<1>4. PlainOK
  BY <1>3 DEF PlainOK, PlainSpeaks, PlainCalm
<1>. QED  BY <1>1, <1>2, <1>4 DEF ScorerOK, IInv

LEMMA ScorerStepHolds == ScorerOK /\ [TrailNext]_trailVars => ScorerOK'
<1>. SUFFICES ASSUME ScorerOK, [TrailNext]_trailVars PROVE ScorerOK'
  OBVIOUS
<1>1. CASE TrailNext
  <2>1. PICK c \in CallsOf : ScoreCall(c) /\ Scores(c) /\ theme' = theme
    BY <1>1, TrailScores DEF ScorerOK, HistoryOK
  <2>2. HistoryOK' /\ Grown(trail, trail', c)
    BY <2>1, HistoryGrows DEF ScorerOK
  <2>3. RiskOK'
    BY <2>1, ScoredIsCall, ScoreUpgrades, StepOne DEF ScorerOK
  <2>4. PlainOK'
    BY <2>1, <2>2, PlainStep
  <2>. QED  BY <2>2, <2>3, <2>4 DEF ScorerOK
<1>2. CASE UNCHANGED trailVars
  <2>1. UNCHANGED << vars, theme, trail, alarms, oracle_iteration_count >>
    BY <1>2 DEF trailVars, scorerVars, probeVars
  <2>2. HistoryOK' /\ PlainOK'
    BY <2>1 DEF ScorerOK, HistoryOK, PlainOK, vars
  <2>3. RiskOK'
    BY <2>1, StepRisk DEF ScorerOK
  <2>. QED  BY <2>2, <2>3 DEF ScorerOK
<1>. QED  BY <1>1, <1>2

(* What TrajectoryUpgrade proves of any flags holds of the detectors' own: *)
(* a signal escalates, an allowed call is of low risk, and a session       *)
(* recovers by calm calls.                                                 *)
THEOREM WholeScorer ==
  TrailSpec => [](TypeOK /\ SignalEscalates /\ NoAllowAboveThreshold /\ CalmRecovers)
<1>1. ScorerOK => TypeOK /\ SignalEscalates /\ NoAllowAboveThreshold /\ CalmRecovers
  BY EscalatesNow, AllowIsLowRiskNow, RecoversNow DEF ScorerOK, RiskOK
<1>. QED  BY <1>1, ScorerInitHolds, ScorerStepHolds, PTL DEF TrailSpec

(* After three plain calls in a row nothing but the oracle count holds one *)
(* for approval: no other memory of the session stops a plain call for     *)
(* ever.                                                                   *)
THEOREM OracleAloneHolds == TrailSpec => []PlainCallHeldByOracleOnly
<1>1. ASSUME ScorerOK PROVE PlainCallHeldByOracleOnly
  <2>. SUFFICES ASSUME Now >= 3, \A k \in Now-2..Now : At(k) = PlainCall,
                       Rank(result.decision) >= Rank("require_approval")
                PROVE  fired = {"tool_oracle_iteration_risk"}
    BY DEF PlainCallHeldByOracleOnly
  <2>1. Now \in Nat
    BY <1>1 DEF ScorerOK, HistoryOK, IsList, Now
  <2>2. PlainRun(trail, Now - 2) /\ trail[Now] = PlainCall /\ Now - 2 \in 1..Now
    BY <2>1, SMT DEF PlainRun, At, Now
  <2>3. ASSUME fired = {} PROVE FALSE
    <3>1. calm >= Now - (Now - 2) + 1
      BY <1>1, <2>2, <2>3 DEF ScorerOK, PlainOK, PlainCalm, Now
    <3>2. calm >= 3
      BY <2>1, <3>1, SMT
    <3>3. Rank(result.decision) < Rank("require_approval")
      BY <1>1, <3>2, RecoversNow DEF ScorerOK, CalmRecovers
    <3>4. result.decision \in Decisions
      BY <1>1 DEF ScorerOK, RiskOK, TypeOK
    <3>. QED  BY <3>3, <3>4, SMT DEF Rank, Decisions
  <2>4. fired = When(oracle_iteration_count >= ORACLE_VARIANTS, "tool_oracle_iteration_risk")
    BY <1>1, <2>1, <2>2, SMT DEF ScorerOK, PlainOK, PlainSpeaks, Now
  <2>. QED  BY <2>3, <2>4 DEF When
<1>. QED  BY <1>1, ScorerInitHolds, ScorerStepHolds, PTL DEF TrailSpec
-----------------------------------------------------------------------------
(* A call of the catalogue counts as what the risk is scored from.         *)
LEMMA ScoredAlike ==
  ASSUME NEW c \in CallsOf, ScoreCall(c)
  PROVE  /\ ScoreAndUpgrade(Scored(c))
         /\ Scored(c).fired \subseteq DetectorFlags
         /\ Scored(c).prelim.codes \in Seq(STRING)
         /\ Scored(c).prelim = c.prelim /\ Scored(c).sensitive = c.sensitive
<1>1. IsCall(Scored(c)) /\ ScoreAndUpgrade(Scored(c))
  BY ScoredIsCall, ScoreUpgrades
<1>2. Scored(c).prelim = c.prelim /\ Scored(c).sensitive = c.sensitive
  BY DEF Scored
<1>. QED  BY <1>1, <1>2 DEF IsCall

LEMMA SessionCounts ==
  TrailSpec => []( HistoryOK /\ CountersOK /\ MemoryOK )
<1>. DEFINE Inv == HistoryOK /\ CountersOK /\ MemoryOK
<1>1. TrailInit => Inv
  <2>. SUFFICES ASSUME TrailInit PROVE Inv
    OBVIOUS
  <2>1. HistoryOK
    BY ScorerInitHolds DEF ScorerOK
  <2>2. Init /\ trail = << >>
    BY DEF TrailInit, ScorerInit
  <2>. QED  BY <2>1, <2>2, NothingCounted, NothingRemembered
<1>2. Inv /\ [TrailNext]_trailVars => Inv'
  <2>. SUFFICES ASSUME Inv, [TrailNext]_trailVars PROVE Inv'
    OBVIOUS
  <2>1. CASE TrailNext
    <3>1. PICK c \in CallsOf : ScoreCall(c) /\ Scores(c) /\ theme' = theme
      BY <2>1, TrailScores DEF HistoryOK
    <3>2. HistoryOK'
      BY <3>1, HistoryGrows
    <3>3. trail' = Append(trail, c)
      BY <3>1 DEF Scores
    <3>4. CountersOK'
      BY <3>1, <3>3, ScoredAlike, CountersStep, Zenon
    <3>5. MemoryOK'
      BY <3>1, ScoredAlike, MemoryStep, Zenon
    <3>. QED  BY <3>2, <3>4, <3>5
  <2>2. CASE UNCHANGED trailVars
    <3>1. UNCHANGED << vars, theme, trail, alarms >>
      BY <2>2 DEF trailVars, scorerVars
    <3>2. UNCHANGED << recent_reason_codes, blocked_count_10m, sensitive_actions_10m, reported >>
      BY <3>1 DEF vars, sessionVars
    <3>. QED  BY <3>1, <3>2 DEF HistoryOK, CountersOK, SecurityHit, MemoryOK
  <2>. QED  BY <2>1, <2>2
<1>. QED  BY <1>1, <1>2, PTL DEF TrailSpec

(* The counters and the remembered codes mean of the whole scorer's calls  *)
(* what they mean of any: no detector's list or last value disturbs them   *)
(* (scorer.py:456-492, 1002-1004).                                         *)
THEOREM WholeScorerCounts ==
  TrailSpec => [](RepeatedBlocksReported /\ SensitiveSequenceReported) /\ MemoryHoldsNewest
<1>1. CountersOK => RepeatedBlocksReported /\ SensitiveSequenceReported
  BY BlocksReportedNow, SensitiveReportedNow
<1>2. HistoryOK /\ MemoryOK /\ [TrailNext]_trailVars => [HoldsNewest]_memoryVars
  <2>. SUFFICES ASSUME HistoryOK, MemoryOK, [TrailNext]_trailVars PROVE [HoldsNewest]_memoryVars
    OBVIOUS
  <2>1. CASE TrailNext
    <3>1. PICK c \in CallsOf : ScoreCall(c) /\ Scores(c) /\ theme' = theme
      BY <2>1, TrailScores DEF HistoryOK
    <3>. QED  BY <3>1, ScoredAlike, MemoryStep, Zenon
  <2>2. CASE UNCHANGED trailVars
    BY <2>2 DEF trailVars, scorerVars, memoryVars
  <2>. QED  BY <2>1, <2>2
<1>. QED  BY <1>1, <1>2, SessionCounts, PTL DEF TrailSpec, MemoryHoldsNewest, HoldsNewest
=============================================================================
