--------------------------- MODULE HijackHistory ----------------------------
(***************************************************************************)
(* The hijack chain against the whole sequence of calls: the session keeps *)
(* four fields, the log keeps everything, and the hits must be those one   *)
(* would read off the log.                                                 *)
(***************************************************************************)
EXTENDS HijackChain

CONSTANTS LoggedCalls,   \* the calls of the environment
          MaxCalls       \* bound on the log

ASSUME LoggedCallsAssumption == LoggedCalls \subseteq ChainCalls

VARIABLE log   \* history: the calls so far

LogInit == Init /\ log = << >>

LogNext ==
  /\ Len(log) < MaxCalls
  /\ \E c \in LoggedCalls : Step(c) /\ log' = Append(log, c)

LogSpec == LogInit /\ [][LogNext]_<< vars, log >>
-----------------------------------------------------------------------------
Starts(k) == "partial_handshake" \in log[k].rules

Fits(kept, current) == kept = Unnamed \/ kept = current

TakesOver(i, k) ==
  /\ ~Starts(k)
  /\ "takeover_pending_subscription" \in log[k].rules
  /\ Fits(log[i].user, log[k].user)
  /\ Fits(log[i].uri, log[k].uri)

(* Calls that only count once the subscription is taken over.              *)
Proceeds(i, k) ==
  /\ ~Starts(k)
  /\ "takeover_pending_subscription" \notin log[k].rules
  /\ log[k].completes \/ "subscription_state_corruption" \in log[k].rules
  /\ Fits(log[i].user, log[k].user)

(* The calls that move the chain started at i along.                       *)
Moves(i) ==
  {i} \cup { k \in i + 1 .. Len(log) :
              \/ TakesOver(i, k)
              \/ Proceeds(i, k) /\ \E j \in i + 1 .. k - 1 : TakesOver(i, j) }

(* Nowhere between i and n does the chain rest longer than its life.       *)
Alive(i, n) ==
  \A k \in i + 1 .. n : \E m \in Moves(i) : m < k /\ k - m <= MCP_CHAIN_TTL_STEPS

(* A call is a hit exactly when it corrupts a subscription that the same   *)
(* actor opened in the last partial handshake and has since taken over,    *)
(* and the chain never rested longer than MCP_CHAIN_TTL_STEPS calls.       *)
HitExactlyWhenChained ==
  LET n == Len(log)
  IN  mcp_chain_hit <=>
        \E i \in 1 .. n - 1 :
          /\ Starts(i)
          /\ \A k \in i + 1 .. n : ~Starts(k)
          /\ \E j \in i + 1 .. n - 1 : TakesOver(i, j)
          /\ n \in Moves(i)
          /\ ~log[n].completes
          /\ "takeover_pending_subscription" \notin log[n].rules
          /\ Alive(i, n)

(* The comment above the detector lists the chain as partial_handshake ->  *)
(* takeover_pending_subscription -> complete_handshake ->                  *)
(* subscription_state_corruption: a hit has seen the handshake completed.  *)
HitNeedsCompletedHandshake ==
  mcp_chain_hit => \E k \in 1 .. Len(log) - 1 : log[k].completes
=============================================================================
