--------------------------- MODULE SessionMemory ----------------------------
(***************************************************************************)
(* The session's counters and remembered reason codes against the calls    *)
(* they stand for.  The code keeps no history: a block adds one, anything  *)
(* else takes one away, never below zero.  Here the trail of the scored    *)
(* calls is kept beside the state, to say what the numbers mean.           *)
(***************************************************************************)
EXTENDS TrajectoryUpgrade

VARIABLE trail   \* history: the calls scored so far

memoryVars == << vars, trail >>

MemoryInit == Init /\ trail = << >>

MemoryNext ==
  \E call \in Calls : ScoreAndUpgrade(call) /\ trail' = Append(trail, call)

MemorySpec == MemoryInit /\ [][MemoryNext]_memoryVars
-----------------------------------------------------------------------------
(* By how much the calls that pass the test outnumber the others, from the *)
(* k-th call of the trail on.                                              *)
Surplus(Test(_), k) ==
  LET hits == { i \in k..Len(trail) : Test(trail[i]) }
  IN  2 * Cardinality(hits) - (Len(trail) - k + 1)

(* Repeated blocks are reported exactly when, over some stretch of calls   *)
(* up to now, the blocked ones outnumber the others by two: old blocks are *)
(* outweighed by what was let through since, and calm before the first     *)
(* block buys nothing.                                                     *)
RepeatedBlocksReported ==
  "repeated_blocked_attempts" \in reported <=>
    \E k \in DOMAIN trail : Surplus(LAMBDA c : c.prelim.decision = "block", k) >= 2

(* Likewise for the sensitive tools, and only while a security code is     *)
(* remembered: the two need not come from the same calls.                  *)
SensitiveSequenceReported ==
  "sensitive_tool_sequence" \in reported <=>
    /\ \E k \in DOMAIN trail : Surplus(LAMBDA c : c.sensitive, k) >= 2
    /\ SecurityHit(recent_reason_codes)

(* A code that is new to the session is remembered, the latest first when  *)
(* there is no room for all; and a code is forgotten only to make room.    *)
MemoryHoldsNewest ==
  [][ LET old == ToSet(recent_reason_codes)
          now == ToSet(recent_reason_codes')
          new == Those(preliminary'.codes,
                       ToSet(preliminary'.codes) \ (LOW_IMPACT_REASON_CODES \cup old))
      IN  /\ ToSet(LastN(new, RECENT_REASON_CODES_LIMIT)) \subseteq now
          /\ old \subseteq now \/ Len(recent_reason_codes') = RECENT_REASON_CODES_LIMIT
          /\ now \cap LOW_IMPACT_REASON_CODES = {} ]_memoryVars

(* test_prompt_injection_block_raises_risk: a block for a security code is *)
(* reported as a recent prompt injection.                                  *)
CurrentInjectionReported ==
  preliminary.decision = "block" /\ SecurityHit(preliminary.codes) =>
    "recent_prompt_injection" \in reported
=============================================================================
