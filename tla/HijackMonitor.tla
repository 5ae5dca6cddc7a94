--------------------------- MODULE HijackMonitor ----------------------------
(***************************************************************************)
(* What the hijack chain detector promises, without its bookkeeping: an    *)
(* alarm is for a subscription that an actor opened with a half-finished   *)
(* handshake, that the same actor took over, and whose state is now being  *)
(* corrupted by that actor.  What was opened may be forgotten at any time. *)
(***************************************************************************)
CONSTANTS Users, Uris,   \* who calls and what on
          Unnamed        \* the empty user id, the empty uri

Chain == {"partial_handshake", "takeover_pending_subscription",
          "subscription_state_corruption"}

(* A call as the detector sees it: the chain rules matched on it, its      *)
(* actor, the first uri of its arguments, and whether the tool is          *)
(* complete_handshake.                                                     *)
ChainCalls == [rules : SUBSET Chain, user : Users \cup {Unnamed},
               uri : Uris \cup {Unnamed}, completes : BOOLEAN]

VARIABLES watch,   \* the subscription watched, or Nothing
          alarm,   \* whether the last call raised the alarm
          call     \* the last call

monitorVars == << watch, alarm, call >>

Nothing == [open |-> FALSE]
Opened(by, on, taken) == [open |-> TRUE, by |-> by, on |-> on, taken |-> taken]

(* What was left unnamed fits everybody and everything.                    *)
Fits(kept, current) == kept = Unnamed \/ kept = current

MonitorInit ==
  /\ watch = Nothing
  /\ alarm = FALSE
  /\ call \in ChainCalls

Open ==
  /\ "partial_handshake" \in call'.rules
  /\ watch' = Opened(call'.user, call'.uri, FALSE)
  /\ alarm' = FALSE

Seize ==
  /\ watch.open
  /\ "takeover_pending_subscription" \in call'.rules
  /\ Fits(watch.by, call'.user)
  /\ Fits(watch.on, call'.uri)
  /\ watch' = Opened(watch.by, watch.on, TRUE)
  /\ alarm' = FALSE

Raise ==
  /\ watch.open
  /\ watch.taken
  /\ "subscription_state_corruption" \in call'.rules
  /\ Fits(watch.by, call'.user)
  /\ alarm' = TRUE
  /\ watch' = watch

Forget == watch' = Nothing /\ alarm' = FALSE

Ignore == watch' = watch /\ alarm' = FALSE

MonitorNext ==
  /\ call' \in ChainCalls
  /\ Open \/ Seize \/ Raise \/ Forget \/ Ignore

MonitorSpec == MonitorInit /\ [][MonitorNext]_monitorVars
=============================================================================
