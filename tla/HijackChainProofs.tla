------------------------- MODULE HijackChainProofs --------------------------
(***************************************************************************)
(* The hijack chain detector implements the monitor, and its hits are the  *)
(* ones read off the log of all calls, for every set of users and uris and *)
(* every life of the chain.                                                *)
(***************************************************************************)
EXTENDS HijackHistory, SequenceTheorems, TLAPS

Stages == mcp_chain_stage \in 0..4 /\ mcp_chain_age_steps \in 0..MCP_CHAIN_TTL_STEPS

(* What a call finds is the chain of before, or nothing.                   *)
LEMMA HeldCases ==
  ASSUME Stages
  PROVE  \/ Held = Dropped
         \/ /\ Held.stage = mcp_chain_stage
            /\ Held.user = mcp_chain_user_id
            /\ Held.uri = mcp_chain_uri
            /\ Held.age = mcp_chain_age_steps + 1
            /\ Held.age \in 0..MCP_CHAIN_TTL_STEPS
  BY TTLAssumption, SMT DEF Held, Dropped, Kept, Stages

LEMMA HeldType ==
  ASSUME TypeOK
  PROVE  /\ Held \in [stage : 0..4, user : Users \cup {Unnamed},
                      uri : Uris \cup {Unnamed}, age : 0..MCP_CHAIN_TTL_STEPS]
  BY TTLAssumption, SMT DEF Held, Dropped, Kept, TypeOK

(* Advancing a chain keeps whose it is; becoming what was held keeps all.  *)
LEMMA AdvanceFields ==
  ASSUME NEW stage \in 0..4, TypeOK, Advance(stage)
  PROVE  /\ mcp_chain_stage' = stage
         /\ mcp_chain_user_id' = Held.user
         /\ mcp_chain_uri' = Held.uri
         /\ mcp_chain_age_steps' = 0
<1>. DEFINE h == Held
<1>1. h \in [stage : 0..4, user : Users \cup {Unnamed},
             uri : Uris \cup {Unnamed}, age : 0..MCP_CHAIN_TTL_STEPS]
  BY HeldType
<1>2. Become([h EXCEPT !.stage = stage, !.age = 0])
  BY DEF Advance
<1>. HIDE DEF h
<1>3. /\ mcp_chain_stage' = stage
      /\ mcp_chain_user_id' = h.user
      /\ mcp_chain_uri' = h.uri
      /\ mcp_chain_age_steps' = 0
  BY <1>1, <1>2 DEF Become
<1>. QED  BY <1>3 DEF h
-----------------------------------------------------------------------------
LEMMA InitTypeOK == Init => TypeOK
<1>. SUFFICES ASSUME Init PROVE TypeOK
  OBVIOUS
<1>1. mcp_chain_stage \in 0..4 /\ mcp_chain_age_steps \in 0..MCP_CHAIN_TTL_STEPS
  BY TTLAssumption DEF Init
<1>2. mcp_chain_user_id \in Users \cup {Unnamed} /\ mcp_chain_uri \in Uris \cup {Unnamed}
  BY DEF Init
<1>3. mcp_chain_hit \in BOOLEAN /\ call \in ChainCalls
  BY DEF Init
<1>. QED  BY <1>1, <1>2, <1>3 DEF TypeOK

LEMMA StepTypeOK ==
  ASSUME TypeOK, NEW c \in ChainCalls, Step(c)
  PROVE  TypeOK'
<1>1. /\ Held.stage \in 0..4 /\ Held.user \in Users \cup {Unnamed}
      /\ Held.uri \in Uris \cup {Unnamed} /\ Held.age \in 0..MCP_CHAIN_TTL_STEPS
  BY HeldType
<1>2. c.user \in Users \cup {Unnamed} /\ c.uri \in Uris \cup {Unnamed}
  BY DEF ChainCalls, Monitor!ChainCalls
<1>3. call' \in ChainCalls
  BY DEF Step
<1>4. ASSUME Become(Held)
      PROVE  /\ mcp_chain_stage' \in 0..4
             /\ mcp_chain_user_id' \in Users \cup {Unnamed}
             /\ mcp_chain_uri' \in Uris \cup {Unnamed}
             /\ mcp_chain_age_steps' \in 0..MCP_CHAIN_TTL_STEPS
  BY <1>1, <1>4 DEF Become
<1>5. ASSUME NEW stage \in 0..4, Advance(stage)
      PROVE  /\ mcp_chain_stage' \in 0..4
             /\ mcp_chain_user_id' \in Users \cup {Unnamed}
             /\ mcp_chain_uri' \in Uris \cup {Unnamed}
             /\ mcp_chain_age_steps' \in 0..MCP_CHAIN_TTL_STEPS
  <2>1. 0 \in 0..MCP_CHAIN_TTL_STEPS
    BY TTLAssumption
  <2>. QED  BY <1>1, <1>5, <2>1, AdvanceFields
<1>6. /\ Advance(2) \/ Advance(3) \/ Advance(4) \/ Become(Held)
           => /\ mcp_chain_stage' \in 0..4
              /\ mcp_chain_user_id' \in Users \cup {Unnamed}
              /\ mcp_chain_uri' \in Uris \cup {Unnamed}
              /\ mcp_chain_age_steps' \in 0..MCP_CHAIN_TTL_STEPS
  <2>1. 2 \in 0..4 /\ 3 \in 0..4 /\ 4 \in 0..4
    OBVIOUS
  <2>. QED  BY <1>4, <1>5, <2>1
<1>7. CASE PartialHandshake(c)
  <2>1. /\ mcp_chain_stage' = 1 /\ mcp_chain_user_id' = c.user
        /\ mcp_chain_uri' = c.uri /\ mcp_chain_age_steps' = 0
    BY <1>7 DEF PartialHandshake, Become
  <2>2. mcp_chain_stage' \in 0..4 /\ mcp_chain_age_steps' \in 0..MCP_CHAIN_TTL_STEPS
    BY <2>1, TTLAssumption
  <2>3. mcp_chain_hit' \in BOOLEAN
    BY <1>7 DEF PartialHandshake
  <2>. QED  BY <1>2, <1>3, <2>1, <2>2, <2>3 DEF TypeOK
<1>8. CASE TakeOverSubscription(c)
  BY <1>3, <1>6, <1>8 DEF TakeOverSubscription, TypeOK
<1>9. CASE CompleteHandshake(c)
  BY <1>3, <1>6, <1>9 DEF CompleteHandshake, TypeOK
<1>10. CASE CorruptSubscription(c)
  BY <1>3, <1>6, <1>10 DEF CorruptSubscription, TypeOK
<1>11. CASE OtherCall(c)
  BY <1>3, <1>6, <1>11 DEF OtherCall, TypeOK
<1>. QED  BY <1>7, <1>8, <1>9, <1>10, <1>11 DEF Step

(* Every state of the detector is well typed: the age of a chain never     *)
(* outgrows its life, and the stage stays within the chain.                *)
THEOREM TypeCorrect == Spec => []TypeOK
<1>1. TypeOK /\ [Next]_vars => TypeOK'
  <2>. SUFFICES ASSUME TypeOK, [Next]_vars PROVE TypeOK'
    OBVIOUS
  <2>1. ASSUME NEW c \in ChainCalls, Step(c) PROVE TypeOK'
    BY <2>1, StepTypeOK
  <2>2. CASE UNCHANGED vars
    BY <2>2 DEF TypeOK, vars
  <2>. QED  BY <2>1, <2>2 DEF Next
<1>. QED  BY <1>1, InitTypeOK, PTL DEF Spec
-----------------------------------------------------------------------------
(* A step of the detector is a step of the monitor: a call that drops the  *)
(* chain forgets, one that advances it opens, seizes or raises, and any    *)
(* other leaves the watch alone.                                           *)
LEMMA StepImplements ==
  ASSUME TypeOK, NEW c \in ChainCalls, Step(c)
  PROVE  Monitor!MonitorNext
<1>1. call' = c /\ call' \in Monitor!ChainCalls
  BY DEF Step, ChainCalls
<1>2. mcp_chain_stage \in 0..4
  BY DEF TypeOK
<1>3. \/ Held = Dropped
      \/ /\ Held.stage = mcp_chain_stage
         /\ Held.user = mcp_chain_user_id
         /\ Held.uri = mcp_chain_uri
  BY HeldCases DEF TypeOK, Stages
<1>4. Dropped.stage = 0
  BY DEF Dropped
<1>5. mcp_chain_stage >= 1 =>
         Watch.open /\ Watch.by = mcp_chain_user_id /\ Watch.on = mcp_chain_uri
  BY <1>2, SMT DEF Watch
<1>6. ASSUME mcp_chain_stage >= 2
       PROVE  Watch = [open |-> TRUE, by |-> mcp_chain_user_id, on |-> mcp_chain_uri,
                       taken |-> TRUE]
  <2>1. mcp_chain_stage # 0 /\ (mcp_chain_stage >= 2) = TRUE
    BY <1>2, <1>6
  <2>. QED  BY <2>1, Zenon DEF Watch
<1>7. ASSUME mcp_chain_stage' = 1
       PROVE  Watch' = [open |-> TRUE, by |-> mcp_chain_user_id', on |-> mcp_chain_uri',
                        taken |-> FALSE]
  <2>1. mcp_chain_stage' # 0 /\ (mcp_chain_stage' >= 2) = FALSE
    BY <1>7
  <2>. QED  BY <2>1, Zenon DEF Watch
<1>8. ASSUME mcp_chain_stage' \in {2, 3, 4}
       PROVE  Watch' = [open |-> TRUE, by |-> mcp_chain_user_id', on |-> mcp_chain_uri',
                        taken |-> TRUE]
  <2>1. mcp_chain_stage' # 0 /\ (mcp_chain_stage' >= 2) = TRUE
    BY <1>8
  <2>. QED  BY <2>1, Zenon DEF Watch
(* A call that changes nothing of the chain it finds.                      *)
<1>9. ASSUME Become(Held), mcp_chain_hit' = FALSE
      PROVE  Monitor!Forget \/ Monitor!Ignore
  <2>1. /\ mcp_chain_stage' = Held.stage
        /\ mcp_chain_user_id' = Held.user
        /\ mcp_chain_uri' = Held.uri
    BY <1>9 DEF Become
  <2>2. CASE Held = Dropped
    BY <1>4, <1>9, <2>1, <2>2 DEF Monitor!Forget, Monitor!Nothing, Watch
  <2>3. CASE /\ Held.stage = mcp_chain_stage
             /\ Held.user = mcp_chain_user_id
             /\ Held.uri = mcp_chain_uri
    BY <1>9, <2>1, <2>3 DEF Monitor!Ignore, Watch
  <2>. QED  BY <1>3, <2>2, <2>3
(* A call that advances it: the chain was not dropped.                     *)
<1>10. ASSUME NEW stage \in 0..4, stage >= 2, Held.stage >= 1, Advance(stage)
      PROVE  /\ mcp_chain_stage >= 1
             /\ Held.stage = mcp_chain_stage
             /\ Held.user = mcp_chain_user_id
             /\ Held.uri = mcp_chain_uri
             /\ mcp_chain_stage' = stage
             /\ mcp_chain_user_id' = mcp_chain_user_id
             /\ mcp_chain_uri' = mcp_chain_uri
  <2>1. Held # Dropped
    BY <1>4, <1>10
  <2>. QED  BY <1>3, <1>10, <2>1, AdvanceFields
<1>11. CASE PartialHandshake(c)
  <2>1. /\ mcp_chain_stage' = 1
        /\ mcp_chain_user_id' = c.user
        /\ mcp_chain_uri' = c.uri
    BY <1>11 DEF PartialHandshake, Become
  <2>2. mcp_chain_hit' = FALSE /\ "partial_handshake" \in c.rules
    BY <1>11 DEF PartialHandshake
  <2>3. Monitor!Open
    BY <1>1, <1>7, <2>1, <2>2 DEF Monitor!Open, Monitor!Opened
  <2>. QED  BY <1>1, <2>3 DEF Monitor!MonitorNext
<1>12. CASE TakeOverSubscription(c)
  <2>1. mcp_chain_hit' = FALSE /\ "takeover_pending_subscription" \in c.rules
    BY <1>12 DEF TakeOverSubscription
  <2>2. CASE Held.stage >= 1 /\ SameActor(c) /\ SameUri(c)
    <3>1. Advance(2)
      BY <1>12, <2>2 DEF TakeOverSubscription
    <3>2. /\ mcp_chain_stage >= 1
          /\ Held.user = mcp_chain_user_id /\ Held.uri = mcp_chain_uri
          /\ mcp_chain_stage' = 2
          /\ mcp_chain_user_id' = mcp_chain_user_id
          /\ mcp_chain_uri' = mcp_chain_uri
      <4>1. 2 \in 0..4 /\ 2 >= 2
        OBVIOUS
      <4>. QED  BY <1>10, <2>2, <3>1, <4>1
    <3>3. /\ mcp_chain_user_id = Unnamed \/ mcp_chain_user_id = call'.user
          /\ mcp_chain_uri = Unnamed \/ mcp_chain_uri = call'.uri
      BY <1>1, <2>2, <3>2 DEF SameActor, SameUri
    <3>4. Monitor!Seize
      BY <1>1, <1>5, <1>8, <2>1, <3>2, <3>3 DEF Monitor!Seize, Monitor!Opened, Monitor!Fits
    <3>. QED  BY <1>1, <3>4 DEF Monitor!MonitorNext
  <2>3. CASE ~(Held.stage >= 1 /\ SameActor(c) /\ SameUri(c))
    <3>1. Become(Held)
      BY <1>12, <2>3 DEF TakeOverSubscription
    <3>. QED  BY <1>1, <1>9, <2>1, <3>1 DEF Monitor!MonitorNext
  <2>. QED  BY <2>2, <2>3
<1>13. CASE CompleteHandshake(c)
  <2>1. mcp_chain_hit' = FALSE
    BY <1>13 DEF CompleteHandshake
  <2>2. CASE Held.stage >= 2 /\ SameActor(c)
    <3>1. Advance(3)
      BY <1>13, <2>2 DEF CompleteHandshake
    <3>2. Held.stage >= 1 /\ 3 \in 0..4 /\ 3 >= 2
      BY <2>2, HeldType
    <3>3. /\ mcp_chain_stage >= 2
          /\ mcp_chain_stage' = 3
          /\ mcp_chain_user_id' = mcp_chain_user_id
          /\ mcp_chain_uri' = mcp_chain_uri
      BY <1>10, <2>2, <3>1, <3>2
    <3>4. Monitor!Ignore
      BY <1>6, <1>8, <2>1, <3>3 DEF Monitor!Ignore
    <3>. QED  BY <1>1, <3>4 DEF Monitor!MonitorNext
  <2>3. CASE ~(Held.stage >= 2 /\ SameActor(c))
    <3>1. Become(Held)
      BY <1>13, <2>3 DEF CompleteHandshake
    <3>. QED  BY <1>1, <1>9, <2>1, <3>1 DEF Monitor!MonitorNext
  <2>. QED  BY <2>2, <2>3
<1>14. CASE CorruptSubscription(c)
  <2>1. /\ "subscription_state_corruption" \in c.rules
        /\ mcp_chain_hit' = (Held.stage >= 2 /\ SameActor(c))
    BY <1>14 DEF CorruptSubscription
  <2>2. CASE Held.stage >= 2 /\ SameActor(c)
    <3>1. Advance(4) /\ mcp_chain_hit' = TRUE
      BY <1>14, <2>1, <2>2 DEF CorruptSubscription
    <3>2. Held.stage >= 1 /\ 4 \in 0..4 /\ 4 >= 2
      BY <2>2, HeldType
    <3>3. /\ mcp_chain_stage >= 2
          /\ Held.user = mcp_chain_user_id
          /\ mcp_chain_stage' = 4
          /\ mcp_chain_user_id' = mcp_chain_user_id
          /\ mcp_chain_uri' = mcp_chain_uri
      BY <1>10, <2>2, <3>1, <3>2
    <3>4. mcp_chain_user_id = Unnamed \/ mcp_chain_user_id = call'.user
      BY <1>1, <2>2, <3>3 DEF SameActor
    <3>6. mcp_chain_stage >= 1
      BY <1>2, <3>3
    <3>5. Monitor!Raise
      <4>2. Watch = [open |-> TRUE, by |-> mcp_chain_user_id, on |-> mcp_chain_uri,
                     taken |-> TRUE]
        BY <1>6, <3>3
      <4>3. Watch' = [open |-> TRUE, by |-> mcp_chain_user_id', on |-> mcp_chain_uri',
                      taken |-> TRUE]
        BY <1>8, <3>3
      <4>1. Watch' = Watch /\ Watch.taken
        BY <3>3, <4>2, <4>3
      <4>. QED  BY <1>1, <1>5, <2>1, <3>1, <3>4, <3>6, <4>1 DEF Monitor!Raise, Monitor!Fits
    <3>. QED  BY <1>1, <3>5 DEF Monitor!MonitorNext
  <2>3. CASE ~(Held.stage >= 2 /\ SameActor(c))
    <3>1. mcp_chain_hit' = FALSE
      BY <2>1, <2>3
    <3>2. Become(Held)
      BY <1>14, <3>1 DEF CorruptSubscription
    <3>. QED  BY <1>1, <1>9, <3>1, <3>2 DEF Monitor!MonitorNext
  <2>. QED  BY <2>2, <2>3
<1>15. CASE OtherCall(c)
  <2>1. Become(Held) /\ mcp_chain_hit' = FALSE
    BY <1>15 DEF OtherCall
  <2>. QED  BY <1>1, <1>9, <2>1 DEF Monitor!MonitorNext
<1>. QED  BY <1>11, <1>12, <1>13, <1>14, <1>15 DEF Step

(* A hit is never raised for a chain that was not opened and taken over by *)
(* the actor it is raised on: the detector implements the monitor.         *)
THEOREM Implements == Spec => ImplementsMonitor
<1>1. Init => Monitor!MonitorInit
  BY DEF Init, ChainCalls, Monitor!MonitorInit, Monitor!Nothing, Watch
<1>2. TypeOK /\ [Next]_vars => [Monitor!MonitorNext]_(Monitor!monitorVars)
  <2>. SUFFICES ASSUME TypeOK, [Next]_vars
                PROVE  [Monitor!MonitorNext]_(Monitor!monitorVars)
    OBVIOUS
  <2>1. ASSUME NEW c \in ChainCalls, Step(c) PROVE Monitor!MonitorNext
    BY <2>1, StepImplements
  <2>2. CASE UNCHANGED vars
    BY <2>2 DEF vars, Monitor!monitorVars, Watch
  <2>. QED  BY <2>1, <2>2 DEF Next
<1>. QED  BY <1>1, <1>2, TypeCorrect, PTL DEF Spec, ImplementsMonitor, Monitor!MonitorSpec
-----------------------------------------------------------------------------
(* What the session keeps of the log: a chain is open exactly when the one *)
(* the last partial handshake started is alive, and then it is its actor,  *)
(* its uri, whether it was taken over, and the calls since it moved.       *)
LastStart(i) ==
  /\ i \in 1..Len(log)
  /\ Starts(i)
  /\ \A k \in i + 1 .. Len(log) : ~Starts(k)

Taken(i) == \E j \in i + 1 .. Len(log) : TakesOver(i, j)

Follows(i) ==
  /\ LastStart(i)
  /\ Alive(i, Len(log))
  /\ mcp_chain_user_id = log[i].user
  /\ mcp_chain_uri = log[i].uri
  /\ mcp_chain_stage >= 2 <=> Taken(i)
  /\ \E m \in Moves(i) : mcp_chain_age_steps = Len(log) - m /\ \A q \in Moves(i) : q <= m

KeepsTrack ==
  /\ mcp_chain_stage = 0 => \A i \in 1..Len(log) : LastStart(i) => ~Alive(i, Len(log))
  /\ mcp_chain_stage # 0 => \E i \in 1..Len(log) : Follows(i)

LogInv == TypeOK /\ log \in Seq(ChainCalls) /\ KeepsTrack /\ HitExactlyWhenChained

LEMMA LogGrows ==
  ASSUME log \in Seq(ChainCalls), NEW c \in ChainCalls, log' = Append(log, c)
  PROVE  /\ Len(log) \in Nat
         /\ log' \in Seq(ChainCalls)
         /\ Len(log') = Len(log) + 1
         /\ log'[Len(log) + 1] = c
         /\ \A k \in 1..Len(log) : log'[k] = log[k]
BY AppendProperties, LenProperties

(* What is said of the earlier calls stays so.                             *)
LEMMA EarlierStay ==
  ASSUME log \in Seq(ChainCalls), NEW c \in ChainCalls, log' = Append(log, c),
         NEW i \in 1..Len(log), NEW k \in 1..Len(log)
  PROVE  /\ Starts(k)' <=> Starts(k)
         /\ TakesOver(i, k)' <=> TakesOver(i, k)
         /\ Proceeds(i, k)' <=> Proceeds(i, k)
BY LogGrows DEF Starts, TakesOver, Proceeds, Fits

(* The call just logged may move the chain started at i.                   *)
MovesOn(i, c) ==
  /\ "partial_handshake" \notin c.rules
  /\ Fits(log[i].user, c.user)
  /\ \/ "takeover_pending_subscription" \in c.rules /\ Fits(log[i].uri, c.uri)
     \/ /\ "takeover_pending_subscription" \notin c.rules
        /\ c.completes \/ "subscription_state_corruption" \in c.rules
        /\ Taken(i)

LEMMA MovesGrow ==
  ASSUME log \in Seq(ChainCalls), NEW c \in ChainCalls, log' = Append(log, c),
         NEW i \in 1..Len(log)
  PROVE  /\ Moves(i) \subseteq i..Len(log) /\ i \in Moves(i)
         /\ MovesOn(i, c) => Moves(i)' = Moves(i) \cup {Len(log) + 1}
         /\ ~MovesOn(i, c) => Moves(i)' = Moves(i)
<1>. PICK n \in Nat : n = Len(log)
  BY LogGrows
<1>1. /\ Len(log') = n + 1 /\ log'[n + 1] = c
      /\ \A k \in 1..n : log'[k] = log[k]
  BY LogGrows
<1>2. \A k \in 1..n : /\ TakesOver(i, k)' <=> TakesOver(i, k)
                      /\ Proceeds(i, k)' <=> Proceeds(i, k)
  BY EarlierStay
<1>3. (TakesOver(i, n + 1)' \/ (Proceeds(i, n + 1)' /\ Taken(i))) <=> MovesOn(i, c)
  <2>1. i \in 1..n /\ log'[i] = log[i]
    BY <1>1
  <2>2. TakesOver(i, n + 1)' <=>
          /\ "partial_handshake" \notin c.rules
          /\ "takeover_pending_subscription" \in c.rules
          /\ Fits(log[i].user, c.user)
          /\ Fits(log[i].uri, c.uri)
    BY <1>1, <2>1, Zenon DEF TakesOver, Starts, Fits
  <2>3. Proceeds(i, n + 1)' <=>
          /\ "partial_handshake" \notin c.rules
          /\ "takeover_pending_subscription" \notin c.rules
          /\ c.completes \/ "subscription_state_corruption" \in c.rules
          /\ Fits(log[i].user, c.user)
    BY <1>1, <2>1, Zenon DEF Proceeds, Starts, Fits
  <2>. QED  BY <2>2, <2>3, Zenon DEF MovesOn
<1>4. Moves(i) = {i} \cup { k \in i + 1 .. n :
              \/ TakesOver(i, k)
              \/ Proceeds(i, k) /\ \E j \in i + 1 .. k - 1 : TakesOver(i, j) }
  BY DEF Moves
<1>5. Moves(i)' = {i} \cup { k \in i + 1 .. n + 1 :
              \/ TakesOver(i, k)'
              \/ Proceeds(i, k)' /\ \E j \in i + 1 .. k - 1 : TakesOver(i, j)' }
  BY <1>1 DEF Moves
<1>6. ASSUME NEW k \in i + 1 .. n
      PROVE  k \in Moves(i)' <=> k \in Moves(i)
  <2>1. k \in 1..n /\ k # i /\ k \in i + 1 .. n + 1 /\ \A j \in i + 1 .. k - 1 : j \in 1..n
    BY <1>1
  <2>. QED  BY <1>2, <1>4, <1>5, <2>1
<1>7. n + 1 \in Moves(i)' <=> MovesOn(i, c)
  <2>1. n + 1 # i /\ n + 1 \in i + 1 .. n + 1 /\ i + 1 .. (n + 1) - 1 = i + 1 .. n
    BY <1>1
  <2>2. (\E j \in i + 1 .. n : TakesOver(i, j)') <=> Taken(i)
    <3>1. \A j \in i + 1 .. n : j \in 1..n
      BY <1>1
    <3>. QED  BY <1>2, <3>1 DEF Taken
  <2>3. n + 1 \in Moves(i)' <=>
           \/ TakesOver(i, n + 1)'
           \/ Proceeds(i, n + 1)' /\ \E j \in i + 1 .. (n + 1) - 1 : TakesOver(i, j)'
    BY <1>5, <2>1, Zenon
  <2>. QED  BY <1>3, <2>1, <2>2, <2>3, Zenon
<1>8. i + 1 .. n + 1 = (i + 1 .. n) \cup {n + 1} /\ n + 1 \notin i..n
  BY <1>1
<1>9. Moves(i) \subseteq {i} \cup (i + 1 .. n) /\ Moves(i)' \subseteq {i} \cup (i + 1 .. n + 1)
      /\ i \in Moves(i) /\ i \in Moves(i)'
  BY <1>4, <1>5
<1>10. {i} \cup (i + 1 .. n) = i..n /\ n + 1 \notin Moves(i)
  BY <1>1, <1>8, <1>9
<1>11. MovesOn(i, c) => Moves(i)' = Moves(i) \cup {n + 1}
  BY <1>6, <1>7, <1>8, <1>9, Zenon
<1>12. ~MovesOn(i, c) => Moves(i)' = Moves(i)
  <2>. SUFFICES ASSUME ~MovesOn(i, c), NEW k PROVE k \in Moves(i)' <=> k \in Moves(i)
    BY Zenon
  <2>1. n + 1 \notin Moves(i)'
    BY <1>7
  <2>. QED  BY <1>6, <1>8, <1>9, <1>10, <2>1, Zenon
<1>. QED  BY <1>9, <1>10, <1>11, <1>12

LEMMA AliveGrows ==
  ASSUME log \in Seq(ChainCalls), NEW c \in ChainCalls, log' = Append(log, c),
         NEW i \in 1..Len(log), MCP_CHAIN_TTL_STEPS \in Nat
  PROVE  Alive(i, Len(log))' <=>
           /\ Alive(i, Len(log))
           /\ \E m \in Moves(i) : (Len(log) + 1) - m <= MCP_CHAIN_TTL_STEPS
<1>. PICK n \in Nat : n = Len(log)
  BY LogGrows
<1>. DEFINE M == Moves(i)
            N == Moves(i)'
<1>1. Len(log') = n + 1 /\ i \in 1..n
  BY LogGrows
<1>2. M \subseteq i..n /\ (N = M \cup {n + 1} \/ N = M)
  BY MovesGrow
<1>3. /\ Alive(i, Len(log))' <=> \A k \in i + 1 .. n + 1 : \E m \in N : m < k /\ k - m <= MCP_CHAIN_TTL_STEPS
      /\ Alive(i, n) <=> \A k \in i + 1 .. n : \E m \in M : m < k /\ k - m <= MCP_CHAIN_TTL_STEPS
  BY <1>1 DEF Alive
<1>. HIDE DEF M, N
<1>4. ASSUME NEW k \in i + 1 .. n + 1
      PROVE  (\E m \in N : m < k /\ k - m <= MCP_CHAIN_TTL_STEPS) <=>
               (\E m \in M : m < k /\ k - m <= MCP_CHAIN_TTL_STEPS)
  <2>1. \A m \in N : m < k => m \in M
    <3>1. ~(n + 1 < k)
      BY <1>1
    <3>. QED  BY <1>2, <3>1, Zenon
  <2>2. \A m \in M : m \in N
    BY <1>2, Zenon
  <2>. QED  BY <2>1, <2>2, Zenon
<1>5. i + 1 .. n + 1 = (i + 1 .. n) \cup {n + 1}
  BY <1>1
<1>6. \A m \in M : m < n + 1
  BY <1>1, <1>2
<1>7. Alive(i, Len(log))' <=>
        \A k \in i + 1 .. n + 1 : \E m \in M : m < k /\ k - m <= MCP_CHAIN_TTL_STEPS
  BY <1>3, <1>4, Zenon
<1>8. Alive(i, Len(log))' <=>
        /\ Alive(i, n)
        /\ \E m \in M : m < n + 1 /\ (n + 1) - m <= MCP_CHAIN_TTL_STEPS
  <2>. DEFINE P(k) == \E m \in M : m < k /\ k - m <= MCP_CHAIN_TTL_STEPS
  <2>1. /\ Alive(i, Len(log))' <=> \A k \in i + 1 .. n + 1 : P(k)
        /\ Alive(i, n) <=> \A k \in i + 1 .. n : P(k)
    BY <1>3, <1>7
  <2>. HIDE DEF P
  <2>2. Alive(i, Len(log))' <=> Alive(i, n) /\ P(n + 1)
    BY <1>5, <2>1, Zenon
  <2>. QED  BY <2>2, Zenon DEF P
<1>. QED  BY <1>6, <1>8, Zenon DEF M

LEMMA LastStartGrows ==
  ASSUME log \in Seq(ChainCalls), NEW c \in ChainCalls, log' = Append(log, c),
         "partial_handshake" \notin c.rules
  PROVE  /\ \A i \in 1..Len(log) : LastStart(i)' <=> LastStart(i)
         /\ \A i \in 1..Len(log') : LastStart(i)' => i \in 1..Len(log)
<1>. PICK n \in Nat : n = Len(log)
  BY LogGrows
<1>1. Len(log') = n + 1 /\ log'[n + 1] = c
  BY LogGrows
<1>2. ~Starts(n + 1)'
  BY <1>1 DEF Starts
<1>3. \A k \in 1..n : Starts(k)' <=> Starts(k)
  BY EarlierStay
<1>4. ASSUME NEW i \in 1..n PROVE LastStart(i)' <=> LastStart(i)
  <2>1. i + 1 .. n + 1 = (i + 1 .. n) \cup {n + 1} /\ \A k \in i + 1 .. n : k \in 1..n
    OBVIOUS
  <2>2. /\ LastStart(i)' <=> Starts(i)' /\ \A k \in i + 1 .. n + 1 : ~Starts(k)'
        /\ LastStart(i) <=> Starts(i) /\ \A k \in i + 1 .. n : ~Starts(k)
    BY <1>1 DEF LastStart
  <2>. QED  BY <1>2, <1>3, <2>1, <2>2, Zenon
<1>5. ASSUME NEW i \in 1..(n + 1), LastStart(i)' PROVE i \in 1..n
  <2>1. i # n + 1
    BY <1>2, <1>5 DEF LastStart
  <2>. QED  BY <2>1
<1>. QED  BY <1>1, <1>4, <1>5

LEMMA TakenGrows ==
  ASSUME log \in Seq(ChainCalls), NEW c \in ChainCalls, log' = Append(log, c),
         NEW i \in 1..Len(log), "partial_handshake" \notin c.rules
  PROVE  Taken(i)' <=>
           \/ Taken(i)
           \/ /\ "takeover_pending_subscription" \in c.rules
              /\ Fits(log[i].user, c.user)
              /\ Fits(log[i].uri, c.uri)
<1>. PICK n \in Nat : n = Len(log)
  BY LogGrows
<1>1. Len(log') = n + 1 /\ log'[n + 1] = c /\ i \in 1..n /\ log'[i] = log[i]
  BY LogGrows
<1>2. \A k \in 1..n : TakesOver(i, k)' <=> TakesOver(i, k)
  BY EarlierStay
<1>3. TakesOver(i, n + 1)' <=>
        /\ "takeover_pending_subscription" \in c.rules
        /\ Fits(log[i].user, c.user)
        /\ Fits(log[i].uri, c.uri)
  BY <1>1, Zenon DEF TakesOver, Starts, Fits
<1>4. i + 1 .. n + 1 = (i + 1 .. n) \cup {n + 1} /\ \A k \in i + 1 .. n : k \in 1..n
  OBVIOUS
<1>5. /\ Taken(i)' <=> \E j \in i + 1 .. n + 1 : TakesOver(i, j)'
      /\ Taken(i) <=> \E j \in i + 1 .. n : TakesOver(i, j)
  BY <1>1 DEF Taken
<1>. QED  BY <1>2, <1>3, <1>4, <1>5, Zenon

(* Whether the call just logged is a hit, in terms of the chain it meets.  *)
LEMMA HitGrows ==
  ASSUME log \in Seq(ChainCalls), NEW c \in ChainCalls, log' = Append(log, c),
         MCP_CHAIN_TTL_STEPS \in Nat
  PROVE  HitExactlyWhenChained' <=>
           (mcp_chain_hit' <=>
              \E i \in 1..Len(log) :
                /\ LastStart(i) /\ "partial_handshake" \notin c.rules
                /\ Taken(i)
                /\ MovesOn(i, c)
                /\ ~c.completes
                /\ "takeover_pending_subscription" \notin c.rules
                /\ Alive(i, Len(log))'  )
<1>. PICK n \in Nat : n = Len(log)
  BY LogGrows
<1>1. Len(log') = n + 1 /\ log'[n + 1] = c /\ (n + 1) - 1 = n
  BY LogGrows
<1>2. HitExactlyWhenChained' <=>
        (mcp_chain_hit' <=>
           \E i \in 1 .. n :
             /\ Starts(i)'
             /\ \A k \in i + 1 .. n + 1 : ~Starts(k)'
             /\ \E j \in i + 1 .. n : TakesOver(i, j)'
             /\ n + 1 \in Moves(i)'
             /\ ~c.completes
             /\ "takeover_pending_subscription" \notin c.rules
             /\ Alive(i, Len(log))' )
  BY <1>1, Zenon DEF HitExactlyWhenChained
<1>3. ASSUME NEW i \in 1..n
      PROVE  /\ Starts(i)' /\ (\A k \in i + 1 .. n + 1 : ~Starts(k)')
                  <=> LastStart(i) /\ "partial_handshake" \notin c.rules
             /\ (\E j \in i + 1 .. n : TakesOver(i, j)') <=> Taken(i)
             /\ n + 1 \in Moves(i)' <=> MovesOn(i, c)
  <2>1. \A k \in 1..n : (Starts(k)' <=> Starts(k)) /\ (TakesOver(i, k)' <=> TakesOver(i, k))
    BY EarlierStay
  <2>2. i + 1 .. n + 1 = (i + 1 .. n) \cup {n + 1} /\ \A k \in i + 1 .. n : k \in 1..n
    OBVIOUS
  <2>3. (\E j \in i + 1 .. n : TakesOver(i, j)') <=> Taken(i)
    BY <2>1, <2>2, Zenon DEF Taken
  <2>4. Starts(n + 1)' <=> "partial_handshake" \in c.rules
    BY <1>1, Zenon DEF Starts
  <2>5. n + 1 \in Moves(i)' <=> MovesOn(i, c)
    <3>1. Moves(i) \subseteq i..n /\ n + 1 \notin i..n
      BY MovesGrow
    <3>. QED  BY <3>1, MovesGrow, Zenon
  <2>6. LastStart(i) <=> Starts(i) /\ \A k \in i + 1 .. n : ~Starts(k)
    BY DEF LastStart
  <2>. QED  BY <2>1, <2>2, <2>3, <2>4, <2>5, <2>6, Zenon
<1>. QED  BY <1>2, <1>3, Zenon

(* The last partial handshake is one call.                                 *)
LEMMA LastStartUnique ==
  ASSUME log \in Seq(ChainCalls), NEW i \in 1..Len(log), NEW j \in 1..Len(log),
         LastStart(i), LastStart(j)
  PROVE  i = j
<1>1. Len(log) \in Nat
  BY LenProperties
<1>2. ASSUME NEW a \in 1..Len(log), NEW b \in 1..Len(log), LastStart(a), LastStart(b)
      PROVE  ~(a < b)
  <2>1. a < b => b \in a + 1 .. Len(log)
    BY <1>1
  <2>. QED  BY <1>2, <2>1 DEF LastStart
<1>. QED  BY <1>1, <1>2

(* A partial handshake starts a chain anew.                                *)
LEMMA StartKeepsTrack ==
  ASSUME LogInv, NEW c \in ChainCalls, log' = Append(log, c), PartialHandshake(c)
  PROVE  KeepsTrack' /\ HitExactlyWhenChained'
<1>. PICK n \in Nat : n = Len(log)
  BY LogGrows DEF LogInv
<1>1. Len(log') = n + 1 /\ log'[n + 1] = c
  BY LogGrows DEF LogInv
<1>2. /\ mcp_chain_stage' = 1 /\ mcp_chain_user_id' = c.user
      /\ mcp_chain_uri' = c.uri /\ mcp_chain_age_steps' = 0
      /\ mcp_chain_hit' = FALSE /\ "partial_handshake" \in c.rules
  BY DEF PartialHandshake, Become
<1>3. (n + 1) + 1 .. n + 1 = {} /\ n + 1 \in 1..(n + 1)
  OBVIOUS
<1>4. LastStart(n + 1)'
  BY <1>1, <1>2, <1>3, Zenon DEF LastStart, Starts
<1>5. ~Taken(n + 1)' /\ Moves(n + 1)' = {n + 1} /\ Alive(n + 1, Len(log))'
  BY <1>1, <1>3, Zenon DEF Taken, Moves, Alive
<1>6. Follows(n + 1)'
  <2>1. /\ n + 1 \in Moves(n + 1)' /\ mcp_chain_age_steps' = Len(log') - (n + 1)
        /\ \A q \in Moves(n + 1)' : q <= n + 1
    BY <1>1, <1>2, <1>5
  <2>2. ~(mcp_chain_stage' >= 2)
    BY <1>2
  <2>. QED  BY <1>1, <1>2, <1>4, <1>5, <2>1, <2>2, Zenon DEF Follows
<1>7. KeepsTrack'
  BY <1>1, <1>2, <1>3, <1>6 DEF KeepsTrack
<1>8. HitExactlyWhenChained'
  BY <1>2, HitGrows, TTLAssumption DEF LogInv
<1>. QED  BY <1>7, <1>8

(* A call that finds no chain leaves none, and is no hit.                  *)
LEMMA NothingKeepsTrack ==
  ASSUME LogInv, NEW c \in ChainCalls, log' = Append(log, c),
         Step(c), "partial_handshake" \notin c.rules, Held.stage = 0
  PROVE  KeepsTrack' /\ HitExactlyWhenChained'
<1>. PICK n \in Nat : n = Len(log)
  BY LogGrows DEF LogInv
<1>1. mcp_chain_stage' = 0 /\ mcp_chain_hit' = FALSE
  <2>1. ~(Held.stage >= 1) /\ ~(Held.stage >= 2)
    OBVIOUS
  <2>2. Become(Held) => mcp_chain_stage' = 0
    BY DEF Become
  <2>3. CASE CorruptSubscription(c)
    <3>1. mcp_chain_hit' = FALSE
      BY <2>1, <2>3 DEF CorruptSubscription
    <3>. QED  BY <2>2, <2>3, <3>1 DEF CorruptSubscription
  <2>. QED  BY <2>1, <2>2, <2>3, Zenon DEF Step, PartialHandshake, TakeOverSubscription,
                                           CompleteHandshake, OtherCall
<1>2. ASSUME NEW i \in 1..n, LastStart(i) PROVE ~Alive(i, Len(log))'
  <2>1. CASE mcp_chain_stage = 0
    <3>1. ~Alive(i, Len(log))
      BY <1>2, <2>1 DEF LogInv, KeepsTrack
    <3>. QED  BY <3>1, AliveGrows, TTLAssumption DEF LogInv
  <2>2. CASE mcp_chain_stage # 0
    <3>1. PICK j \in 1..n : Follows(j)
      BY <2>2 DEF LogInv, KeepsTrack
    <3>2. i = j
      BY <1>2, <3>1, LastStartUnique DEF LogInv, Follows
    <3>3. mcp_chain_age_steps + 1 > MCP_CHAIN_TTL_STEPS
      BY <2>2 DEF Held, Kept
    <3>4. PICK m \in Moves(i) : mcp_chain_age_steps = n - m /\ \A q \in Moves(i) : q <= m
      BY <3>1, <3>2 DEF Follows
    <3>5. Moves(i) \subseteq i..n
      BY MovesGrow DEF LogInv
    <3>6. ~\E q \in Moves(i) : (n + 1) - q <= MCP_CHAIN_TTL_STEPS
      BY <3>3, <3>4, <3>5, TTLAssumption
    <3>. QED  BY <3>6, AliveGrows, TTLAssumption DEF LogInv
  <2>. QED  BY <2>1, <2>2
<1>3. KeepsTrack'
  <2>1. /\ \A i \in 1..n : LastStart(i)' <=> LastStart(i)
        /\ \A i \in 1..Len(log') : LastStart(i)' => i \in 1..n
    BY LastStartGrows DEF LogInv
  <2>. QED  BY <1>1, <1>2, <2>1 DEF KeepsTrack
<1>4. HitExactlyWhenChained'
  BY <1>1, <1>2, HitGrows, TTLAssumption DEF LogInv
<1>. QED  BY <1>3, <1>4

(* A call that finds a chain moves it, or leaves it as it is.              *)
LEMMA ChainKeepsTrack ==
  ASSUME LogInv, NEW c \in ChainCalls, log' = Append(log, c),
         Step(c), "partial_handshake" \notin c.rules, Held.stage # 0
  PROVE  KeepsTrack' /\ HitExactlyWhenChained'
<1>. PICK n \in Nat : n = Len(log)
  BY LogGrows DEF LogInv
<1>1. Len(log') = n + 1 /\ log'[n + 1] = c
  BY LogGrows DEF LogInv
<1>2. Held # Dropped
  BY DEF Dropped
<1>3. /\ mcp_chain_age_steps + 1 <= MCP_CHAIN_TTL_STEPS
      /\ Held = Kept(mcp_chain_age_steps + 1)
      /\ mcp_chain_age_steps \in Nat
      /\ mcp_chain_stage \in 0..4
  BY <1>2, TTLAssumption DEF LogInv, TypeOK, Held
<1>4. /\ Held.stage = mcp_chain_stage
      /\ Held.user = mcp_chain_user_id
      /\ Held.uri = mcp_chain_uri
      /\ Held.age = mcp_chain_age_steps + 1
  BY <1>3 DEF Kept
<1>5. mcp_chain_stage # 0
  BY <1>4
<1>6. PICK i \in 1..n : Follows(i)
  BY <1>5 DEF LogInv, KeepsTrack
<1>7. PICK m \in Moves(i) : mcp_chain_age_steps = n - m /\ \A q \in Moves(i) : q <= m
  BY <1>6 DEF Follows
<1>8. Moves(i) \subseteq i..n
  BY MovesGrow DEF LogInv
<1>9. Alive(i, Len(log))'
  <2>1. (n + 1) - m <= MCP_CHAIN_TTL_STEPS
    BY <1>3, <1>7, <1>8
  <2>. QED  BY <1>6, <1>7, <2>1, AliveGrows, TTLAssumption DEF LogInv, Follows
<1>10. /\ LastStart(i) /\ LastStart(i)' /\ log'[i] = log[i]
       /\ i \in 1..(n + 1)
  BY <1>6, LogGrows, LastStartGrows DEF LogInv, Follows
<1>11. /\ SameActor(c) <=> Fits(log[i].user, c.user)
       /\ SameUri(c) <=> Fits(log[i].uri, c.uri)
       /\ mcp_chain_user_id = log[i].user
       /\ mcp_chain_uri = log[i].uri
       /\ mcp_chain_stage >= 2 <=> Taken(i)
       /\ mcp_chain_stage >= 1
  BY <1>3, <1>4, <1>5, <1>6 DEF Follows, SameActor, SameUri, Fits
(* What the actions do, in terms of whether the call moves the chain.      *)
<1>12. /\ MovesOn(i, c) =>
             /\ \E stage \in 2..4 : Advance(stage)
             /\ Taken(i)'
       /\ ~MovesOn(i, c) => Become(Held) /\ (Taken(i)' <=> Taken(i))
       /\ mcp_chain_hit' <=> /\ Taken(i) /\ MovesOn(i, c) /\ ~c.completes
                            /\ "takeover_pending_subscription" \notin c.rules
  <2>1. Taken(i)' <=> \/ Taken(i)
                      \/ /\ "takeover_pending_subscription" \in c.rules
                         /\ SameActor(c) /\ SameUri(c)
    BY <1>11, TakenGrows DEF LogInv
  <2>2. MovesOn(i, c) <=>
          /\ SameActor(c)
          /\ \/ "takeover_pending_subscription" \in c.rules /\ SameUri(c)
             \/ /\ "takeover_pending_subscription" \notin c.rules
                /\ c.completes \/ "subscription_state_corruption" \in c.rules
                /\ Taken(i)
    BY <1>11, Zenon DEF MovesOn
  <2>3. Held.stage >= 1 /\ (Held.stage >= 2 <=> Taken(i))
    BY <1>4, <1>11
  <2>4. 2 \in 2..4 /\ 3 \in 2..4 /\ 4 \in 2..4
    OBVIOUS
  <2>5. CASE TakeOverSubscription(c)
    BY <2>1, <2>2, <2>3, <2>4, <2>5, Zenon DEF TakeOverSubscription
  <2>6. CASE CompleteHandshake(c)
    <3>1. c.completes /\ "takeover_pending_subscription" \notin c.rules
      BY <2>6 DEF CompleteHandshake
    <3>. QED  BY <2>1, <2>2, <2>3, <2>4, <2>6, <3>1, Zenon DEF CompleteHandshake
  <2>7. CASE CorruptSubscription(c)
    <3>1. /\ ~c.completes /\ "takeover_pending_subscription" \notin c.rules
          /\ "subscription_state_corruption" \in c.rules
      BY <2>7 DEF CorruptSubscription
    <3>2. mcp_chain_hit' <=> MovesOn(i, c)
      BY <2>2, <2>3, <2>7, <3>1, Zenon DEF CorruptSubscription
    <3>. QED  BY <2>1, <2>2, <2>3, <2>4, <2>7, <3>1, <3>2, Zenon DEF CorruptSubscription
  <2>8. CASE OtherCall(c)
    <3>1. /\ ~c.completes /\ "takeover_pending_subscription" \notin c.rules
          /\ "subscription_state_corruption" \notin c.rules
      BY <2>8 DEF OtherCall
    <3>. QED  BY <2>1, <2>2, <2>8, <3>1, Zenon DEF OtherCall
  <2>. QED  BY <2>5, <2>6, <2>7, <2>8 DEF Step, PartialHandshake
<1>13. Follows(i)'
  <2>1. CASE MovesOn(i, c)
    <3>1. PICK stage \in 2..4 : Advance(stage)
      BY <1>12, <2>1
    <3>2. /\ mcp_chain_stage' = stage /\ mcp_chain_age_steps' = 0
          /\ mcp_chain_user_id' = mcp_chain_user_id
          /\ mcp_chain_uri' = mcp_chain_uri
      BY <1>4, <3>1, AdvanceFields DEF LogInv
    <3>3. Moves(i)' = Moves(i) \cup {n + 1}
      BY <2>1, MovesGrow DEF LogInv
    <3>4. /\ n + 1 \in Moves(i)' /\ 0 = (n + 1) - (n + 1)
          /\ \A q \in Moves(i)' : q <= n + 1
      BY <1>8, <3>3
    <3>5. mcp_chain_stage' >= 2 <=> Taken(i)'
      BY <1>12, <2>1, <3>2
    <3>. QED  BY <1>1, <1>9, <1>10, <1>11, <3>2, <3>4, <3>5 DEF Follows
  <2>2. CASE ~MovesOn(i, c)
    <3>1. /\ mcp_chain_stage' = mcp_chain_stage
          /\ mcp_chain_age_steps' = mcp_chain_age_steps + 1
          /\ mcp_chain_user_id' = mcp_chain_user_id
          /\ mcp_chain_uri' = mcp_chain_uri
      BY <1>4, <1>12, <2>2 DEF Become
    <3>2. Moves(i)' = Moves(i)
      BY <2>2, MovesGrow DEF LogInv
    <3>3. mcp_chain_age_steps' = (n + 1) - m
      BY <1>7, <1>8, <3>1
    <3>4. mcp_chain_stage' >= 2 <=> Taken(i)'
      BY <1>11, <1>12, <2>2, <3>1
    <3>. QED  BY <1>1, <1>7, <1>9, <1>10, <1>11, <3>1, <3>2, <3>3, <3>4 DEF Follows
  <2>. QED  BY <2>1, <2>2
<1>14. KeepsTrack'
  <2>1. mcp_chain_stage' # 0
    <3>1. (\E stage \in 2..4 : Advance(stage)) => mcp_chain_stage' # 0
      BY AdvanceFields DEF LogInv
    <3>2. Become(Held) => mcp_chain_stage' # 0
      BY <1>4, <1>5 DEF Become
    <3>. QED  BY <1>12, <3>1, <3>2
  <2>. QED  BY <1>1, <1>10, <1>13, <2>1 DEF KeepsTrack
<1>15. HitExactlyWhenChained'
  <2>1. \A j \in 1..n : LastStart(j) => j = i
    BY <1>10, LastStartUnique DEF LogInv
  <2>. QED  BY <1>9, <1>10, <1>12, <2>1, HitGrows, TTLAssumption DEF LogInv
<1>. QED  BY <1>14, <1>15

(* The detector keeps four fields and reports exactly what one would read  *)
(* off the log of all calls.                                               *)
THEOREM HitsAreExact == LogSpec => []HitExactlyWhenChained
<1>1. LogInit => LogInv
  <2>. SUFFICES ASSUME LogInit PROVE LogInv
    OBVIOUS
  <2>1. TypeOK /\ log = << >> /\ mcp_chain_stage = 0 /\ mcp_chain_hit = FALSE
    BY InitTypeOK DEF LogInit, Init
  <2>2. log \in Seq(ChainCalls) /\ Len(log) = 0
    BY <2>1
  <2>3. 1 .. Len(log) = {} /\ 1 .. Len(log) - 1 = {}
    BY <2>2
  <2>4. KeepsTrack
    BY <2>1, <2>3 DEF KeepsTrack
  <2>5. HitExactlyWhenChained
    BY <2>1, <2>3, Zenon DEF HitExactlyWhenChained
  <2>. QED  BY <2>1, <2>2, <2>4, <2>5 DEF LogInv
<1>2. LogInv /\ [LogNext]_<< vars, log >> => LogInv'
  <2>. SUFFICES ASSUME LogInv, [LogNext]_<< vars, log >> PROVE LogInv'
    OBVIOUS
  <2>1. ASSUME NEW c \in LoggedCalls, Step(c), log' = Append(log, c) PROVE LogInv'
    <3>1. c \in ChainCalls
      BY LoggedCallsAssumption
    <3>2. TypeOK' /\ log' \in Seq(ChainCalls)
      BY <2>1, <3>1, StepTypeOK, LogGrows DEF LogInv
    <3>3. KeepsTrack' /\ HitExactlyWhenChained'
      <4>1. CASE "partial_handshake" \in c.rules
        <5>1. PartialHandshake(c)
          <6>1. /\ ~TakeOverSubscription(c) /\ ~CompleteHandshake(c)
                /\ ~CorruptSubscription(c) /\ ~OtherCall(c)
            BY <4>1 DEF TakeOverSubscription, CompleteHandshake, CorruptSubscription, OtherCall
          <6>. QED  BY <2>1, <6>1 DEF Step
        <5>. QED  BY <2>1, <3>1, <5>1, StartKeepsTrack
      <4>2. CASE "partial_handshake" \notin c.rules
        BY <2>1, <3>1, <4>2, NothingKeepsTrack, ChainKeepsTrack
      <4>. QED  BY <4>1, <4>2
    <3>. QED  BY <3>2, <3>3 DEF LogInv
  <2>2. CASE UNCHANGED << vars, log >>
    BY <2>2 DEF LogInv, vars, TypeOK, KeepsTrack, Follows, LastStart, Alive, Moves, Taken,
                TakesOver, Proceeds, Starts, HitExactlyWhenChained
  <2>. QED  BY <2>1, <2>2 DEF LogNext
<1>3. LogInv => HitExactlyWhenChained
  BY DEF LogInv
<1>. QED  BY <1>1, <1>2, <1>3, PTL DEF LogSpec
=============================================================================
