--------------------------- MODULE SessionClients ---------------------------
(***************************************************************************)
(* The engine and those who call it.  The engine keeps no session: the     *)
(* context travels with the request and comes back, updated, with the      *)
(* answer.  A client is of a kind:                                         *)
(*   "loop"     waits for each answer and passes its context on, as        *)
(*              docs/API.md and the demos do;                              *)
(*   "parallel" does so too, over HTTP, but has several calls on the way;  *)
(*   "guard"    a tool wrapped by guard_tool (anthropic.py), or called     *)
(*              through the guards of examples/: the context it was given  *)
(*              is the one it sends, every time;                           *)
(*   "hook"     the pre-tool hook of github_copilot.py: likewise, but what *)
(*              needs approval is asked of the user.                       *)
(***************************************************************************)
EXTENDS SessionStore, FiniteSets

CONSTANTS Clients, Calls,
          Kinds,          \* the ways the clients may be of a kind, as functions
          MaxCalls,       \* by client: bound on its calls
          MaxInFlight     \* bound on those a parallel client has on the way

ASSUME KindsAssumption == Kinds \subseteq [Clients -> {"loop", "parallel", "guard", "hook"}]

ASSUME CallsAssumption ==
  \A c \in Calls :
    /\ c.preliminary \in {"allow", "log_only", "require_approval", "block"}
    /\ c.directed \in Seq(STRING)

VARIABLES kind,        \* of each client
          context,     \* of each client: what it passes with its next call
          log,         \* of each client: its calls, with what became of them
          requests,    \* on the way to the engine
          answers,     \* on the way back
          overlapped   \* history: the calls that had others on the way with them

vars == << kind, context, log, requests, answers, overlapped >>

AnswersTo(client) == { a \in answers : a.client = client }

AnswerTo(client) == CHOOSE a \in AnswersTo(client) : TRUE

(* The session a looping client would have with an engine that keeps it,   *)
(* and its calls as that engine has decided them; nothing of the others.   *)
SessionOf(client) ==
  IF kind[client] # "loop" THEN << >>
  ELSE IF AnswersTo(client) = {} THEN context[client] ELSE AnswerTo(client).context

DecidedOf(client) ==
  IF kind[client] # "loop" THEN << >>
  ELSE [n \in { m \in DOMAIN log[client] :
                  log[client][m].decision # "pending" \/ AnswersTo(client) # {} } |->
         [call     |-> log[client][n].call,
          decision |-> IF log[client][n].decision # "pending" THEN log[client][n].decision
                       ELSE AnswerTo(client).decision]]

ExecutedOf(client) ==
  { n \in DOMAIN log[client] : kind[client] = "loop" /\ log[client][n].executed }

Central == INSTANCE CentralSession WITH
  session  <- [client \in Clients |-> SessionOf(client)],
  log      <- [client \in Clients |-> DecidedOf(client)],
  executed <- [client \in Clients |-> ExecutedOf(client)]
-----------------------------------------------------------------------------
Outstanding(client) == { n \in DOMAIN log[client] : log[client][n].decision = "pending" }

MaySend(client) ==
  /\ Len(log[client]) < MaxCalls[client]
  /\ Cardinality(Outstanding(client)) < (IF kind[client] = "parallel" THEN MaxInFlight ELSE 1)

RequestOf(client, c) ==
  [client |-> client, n |-> Len(log[client]) + 1, call |-> c,
   session_context |-> context[client]]

Send(client, c) ==
  /\ MaySend(client)
  /\ log' = [log EXCEPT ![client] =
               Append(@, [call |-> c, decision |-> "pending", executed |-> FALSE])]
  /\ requests' = requests \cup {RequestOf(client, c)}
  /\ overlapped' = IF Outstanding(client) = {} THEN overlapped
                   ELSE [overlapped EXCEPT ![client] =
                           @ \cup Outstanding(client) \cup {Len(log[client]) + 1}]
  /\ UNCHANGED << kind, context, answers >>

(* Mutant: the engine goes on from the context it answered with last.      *)
ReadsLastAnswer(r) ==
  IF answers = {} THEN r.session_context ELSE (CHOOSE a \in answers : TRUE).context

Reads(r) == r.session_context

(* Mutant: what is blocked is not answered.                                *)
SilentOnBlock(r) ==
  { a \in {[client   |-> r.client, n |-> r.n,
            decision |-> Central!Decision(Reads(r), r.call),
            context  |-> Central!Updated(Reads(r), r.call)]} : a.decision # "block" }

_to_response(r) ==
  {[client   |-> r.client, n |-> r.n,
    decision |-> Central!Decision(Reads(r), r.call),
    context  |-> Central!Updated(Reads(r), r.call)]}

(* The engine may take the requests in any order.                          *)
ValidateAction(r) ==
  /\ requests' = requests \ {r}
  /\ answers' = answers \cup _to_response(r)
  /\ UNCHANGED << kind, context, log, overlapped >>

(* Mutant: a looping client, too, goes on from the context it had.         *)
NeverTakenOver(client, a) == context[client]

TakenOver(client, a) ==
  IF kind[client] \in {"loop", "parallel"} THEN a.context ELSE context[client]

(* What the integrations make of a decision.                               *)
map_orthus_decision_to_copilot(decision) ==
  CASE decision \in {"allow", "log_only"} -> "allow"
    [] decision = "block"                 -> "deny"
    [] OTHER                              -> "ask"

assert_allowed(decision) == decision \notin {"block", "require_approval"}

may_execute(decision) == decision \in {"allow", "log_only"}

Permitted(client, decision) ==
  CASE kind[client] = "hook"  -> map_orthus_decision_to_copilot(decision) = "allow"
    [] kind[client] = "guard" -> assert_allowed(decision)
    [] OTHER                  -> may_execute(decision)

Receive(a) ==
  /\ answers' = answers \ {a}
  /\ context' = [context EXCEPT ![a.client] = TakenOver(a.client, a)]
  /\ log' = [log EXCEPT ![a.client][a.n].decision = a.decision,
                        ![a.client][a.n].executed = Permitted(a.client, a.decision)]
  /\ UNCHANGED << kind, requests, overlapped >>

(* Copilot asks the user about a call that needs approval.                 *)
UserApproves(client, n) ==
  /\ kind[client] = "hook"
  /\ n \notin Outstanding(client)
  /\ map_orthus_decision_to_copilot(log[client][n].decision) = "ask"
  /\ ~log[client][n].executed
  /\ log' = [log EXCEPT ![client][n].executed = TRUE]
  /\ UNCHANGED << kind, context, requests, answers, overlapped >>

Init ==
  /\ kind \in Kinds
  /\ context = [client \in Clients |-> << >>]
  /\ log = [client \in Clients |-> << >>]
  /\ requests = {}
  /\ answers = {}
  /\ overlapped = [client \in Clients |-> {}]

Next ==
  \/ \E client \in Clients, c \in Calls : Send(client, c)
  \/ \E r \in requests : ValidateAction(r)
  \/ \E a \in answers : Receive(a)
  \/ \E client \in Clients : \E n \in DOMAIN log[client] : UserApproves(client, n)

(* The engine answers each request, and each answer is received; the user  *)
(* need not answer, and no client need send.                               *)
Fairness ==
  /\ WF_vars(\E r \in requests : ValidateAction(r))
  /\ WF_vars(\E a \in answers : Receive(a))

Spec == Init /\ [][Next]_vars /\ Fairness
-----------------------------------------------------------------------------
(* docs/API.md: "Always pass updated_session_context from one response     *)
(* into the next request": to clients that do, waiting for each response,  *)
(* the engine that keeps nothing is one that keeps a session for each.     *)
ImplementsCentral == Central!CentralSpec

(* What rules and policy say of a call is changed only for what untrusted  *)
(* texts asked of its own client, and through a guard or a hook only for   *)
(* what it says itself: such a client is as if every call were its first.  *)
HeldOnlyForOwn ==
  \A client \in Clients :
    \A n \in DOMAIN log[client] :
      log[client][n].decision \notin {"pending", log[client][n].call.preliminary} =>
        \E m \in 1..n :
          /\ kind[client] \in {"guard", "hook"} => m = n
          /\ Contains(log[client][m].call.directed, log[client][n].call.tool)

(* Of the calls of a parallel client only those lose what they have shown  *)
(* that were on the way at the same time: what a call asked for that had   *)
(* the way to itself is in every context that the client passes later, as  *)
(* long as the list has room.                                              *)
AloneNeverLost ==
  \A client \in Clients :
    LET tools(n) == ToSet(log[client][n].call.directed)
        later    == {context[client]}
                      \cup { r.session_context : r \in { q \in requests : q.client = client } }
                      \cup { a.context : a \in AnswersTo(client) }
    IN  kind[client] \in {"loop", "parallel"}
          /\ Cardinality(UNION { tools(n) : n \in DOMAIN log[client] }) <= SESSION_LIST_LIMIT
        => \A n \in DOMAIN log[client] \ (Outstanding(client) \cup overlapped[client]) :
             \A ctx \in later : tools(n) \subseteq ToSet(ctx)

(* Every call is settled in the end, whatever else is on the way: as the   *)
(* calls are bounded, that is to say that none stays outstanding for ever. *)
EveryCallSettled == []<>(\A client \in Clients : Outstanding(client) = {})
=============================================================================
