---------------------------- MODULE HijackChain -----------------------------
(***************************************************************************)
(* The hijack chain detector of CERBERScorer.score.  The session keeps the *)
(* stage the chain has reached, who started it and on what, and how many   *)
(* calls ago it last advanced; after MCP_CHAIN_TTL_STEPS calls without     *)
(* progress it is dropped.                                                 *)
(***************************************************************************)
EXTENDS Integers, Sequences

CONSTANTS Users, Uris, Unnamed,
          MCP_CHAIN_TTL_STEPS

ASSUME TTLAssumption == MCP_CHAIN_TTL_STEPS \in Nat
ASSUME UnnamedAssumption == Unnamed \notin Users \cup Uris

VARIABLES mcp_chain_stage, mcp_chain_user_id, mcp_chain_uri, mcp_chain_age_steps,
          mcp_chain_hit,   \* whether the last call completed the chain
          call             \* the last call

vars == << mcp_chain_stage, mcp_chain_user_id, mcp_chain_uri,
           mcp_chain_age_steps, mcp_chain_hit, call >>

(* What the monitor watches, as the session keeps it.                      *)
Watch ==
  IF mcp_chain_stage = 0
    THEN [open |-> FALSE]
    ELSE [open |-> TRUE, by |-> mcp_chain_user_id, on |-> mcp_chain_uri,
          taken |-> mcp_chain_stage >= 2]

Monitor == INSTANCE HijackMonitor WITH alarm <- mcp_chain_hit, watch <- Watch

ChainCalls == Monitor!ChainCalls

Dropped == [stage |-> 0, user |-> Unnamed, uri |-> Unnamed, age |-> 0]

Kept(age) ==
  [stage |-> mcp_chain_stage, user |-> mcp_chain_user_id, uri |-> mcp_chain_uri, age |-> age]

HeldTooLong ==    \* mutant: the chain lives one call longer
  IF mcp_chain_age_steps > MCP_CHAIN_TTL_STEPS THEN Dropped ELSE Kept(mcp_chain_age_steps + 1)

(* The chain as the call finds it: a call older, or dropped.               *)
Held ==
  IF mcp_chain_age_steps + 1 > MCP_CHAIN_TTL_STEPS THEN Dropped
                                                   ELSE Kept(mcp_chain_age_steps + 1)

SameActor(c) == Held.user = Unnamed \/ Held.user = c.user
SameUri(c) == Held.uri = Unnamed \/ Held.uri = c.uri

Become(chain) ==
  /\ mcp_chain_stage' = chain.stage
  /\ mcp_chain_user_id' = chain.user
  /\ mcp_chain_uri' = chain.uri
  /\ mcp_chain_age_steps' = chain.age

Advance(stage) == Become([Held EXCEPT !.stage = stage, !.age = 0])

PartialHandshake(c) ==
  /\ "partial_handshake" \in c.rules
  /\ Become([stage |-> 1, user |-> c.user, uri |-> c.uri, age |-> 0])
  /\ mcp_chain_hit' = FALSE

TakeOverSubscription(c) ==
  /\ "partial_handshake" \notin c.rules
  /\ "takeover_pending_subscription" \in c.rules
  /\ IF Held.stage >= 1 /\ SameActor(c) /\ SameUri(c) THEN Advance(2) ELSE Become(Held)
  /\ mcp_chain_hit' = FALSE

CompleteHandshake(c) ==
  /\ c.rules \cap {"partial_handshake", "takeover_pending_subscription"} = {}
  /\ c.completes
  /\ IF Held.stage >= 2 /\ SameActor(c) THEN Advance(3) ELSE Become(Held)
  /\ mcp_chain_hit' = FALSE

(* Mutant: the takeover is not waited for.                                 *)
CorruptAtOnce(c) ==
  /\ c.rules = {"subscription_state_corruption"}
  /\ ~c.completes
  /\ mcp_chain_hit' = (Held.stage >= 1 /\ SameActor(c))
  /\ IF mcp_chain_hit' THEN Advance(4) ELSE Become(Held)

CorruptSubscription(c) ==
  /\ c.rules = {"subscription_state_corruption"}
  /\ ~c.completes
  /\ mcp_chain_hit' = (Held.stage >= 2 /\ SameActor(c))
  /\ IF mcp_chain_hit' THEN Advance(4) ELSE Become(Held)

OtherCall(c) ==
  /\ c.rules = {}
  /\ ~c.completes
  /\ Become(Held)
  /\ mcp_chain_hit' = FALSE

Step(c) ==
  /\ call' = c
  /\ \/ PartialHandshake(c)
     \/ TakeOverSubscription(c)
     \/ CompleteHandshake(c)
     \/ CorruptSubscription(c)
     \/ OtherCall(c)

Init ==
  /\ mcp_chain_stage = 0
  /\ mcp_chain_user_id = Unnamed
  /\ mcp_chain_uri = Unnamed
  /\ mcp_chain_age_steps = 0
  /\ mcp_chain_hit = FALSE
  /\ call \in ChainCalls

Next == \E c \in ChainCalls : Step(c)

Spec == Init /\ [][Next]_vars
-----------------------------------------------------------------------------
TypeOK ==
  /\ mcp_chain_stage \in 0..4
  /\ mcp_chain_user_id \in Users \cup {Unnamed}
  /\ mcp_chain_uri \in Uris \cup {Unnamed}
  /\ mcp_chain_age_steps \in 0..MCP_CHAIN_TTL_STEPS
  /\ mcp_chain_hit \in BOOLEAN
  /\ call \in ChainCalls

(* The chain implements the monitor: a hit needs a takeover of what was    *)
(* started, by the actor who started it.                                   *)
ImplementsMonitor == Monitor!MonitorSpec
=============================================================================
