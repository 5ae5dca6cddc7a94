-------------------------- MODULE McpTraceBinding ---------------------------
(***************************************************************************)
(* How CERBERScorer.score binds MCP results to requests.  The session has  *)
(* three bounded lists of request signatures: pending, completed and       *)
(* canceled; a call that carries a JSON-RPC identity files a request,      *)
(* cancels one, brings a result, or several of these at once.              *)
(*                                                                         *)
(* A signature is the string id|server|connection|tool|event, here the     *)
(* record [id, source, tool, event] with the server and its connection as  *)
(* one source.  Where the code tests prefixes: id| is the prefix of the    *)
(* signatures with that id; id|server|connection|event, the key, lacks the *)
(* tool, so without an event it is the prefix of the signatures with that  *)
(* id and source, and with one it is the prefix of none (the names of      *)
(* tools and events being different words).                                *)
(***************************************************************************)
EXTENDS SessionStore

CONSTANTS Ids, Sources, Tools, Events   \* what a trace is made of

Signatures == [id : Ids, source : Sources, tool : Tools, event : Events \cup {None}]

(* source and tool are the request's side of the trace, observed_source    *)
(* and observed_tool the result's, which falls back on the former;         *)
(* expected_part and observed_part tell which sides come as objects of     *)
(* their own, is_result whether event_kind is that of a result, files      *)
(* whether the tool's name is that of a request.                           *)
Traces ==
  [id : Ids, source : Sources, tool : Tools, event : Events \cup {None},
   observed_source : Sources, observed_tool : Tools,
   request_state : {None, "pending", "canceled", "completed"},
   expected_part : BOOLEAN, observed_part : BOOLEAN, is_result : BOOLEAN,
   files : BOOLEAN, allow_unbound_result : BOOLEAN]

VARIABLES pending_mcp_request_signatures, completed_mcp_request_signatures,
          canceled_mcp_request_signatures

bindingVars == << pending_mcp_request_signatures, completed_mcp_request_signatures,
                  canceled_mcp_request_signatures >>

Expected(t) == [id |-> t.id, source |-> t.source, tool |-> t.tool, event |-> t.event]

Observed(t) ==
  [id |-> t.id, source |-> t.observed_source, tool |-> t.observed_tool, event |-> t.event]

HasId(sig, t) == sig.id = t.id

HasKey(sig, t) == sig.id = t.id /\ sig.source = t.source /\ t.event = None

WithKey(sigs, t) == Those(sigs, { sig \in ToSet(sigs) : HasKey(sig, t) })

IsPendingTrace(t) ==
  \/ t.request_state = "pending"
  \/ t.expected_part /\ ~t.observed_part
  \/ t.files

IsResultTrace(t) ==
  /\ t.request_state = "canceled" => t.observed_part \/ t.is_result
  /\ t.is_result \/ t.observed_part \/ t.request_state = "completed"
-----------------------------------------------------------------------------
(* A new request while others with its id are pending.                     *)
ReusesId(t, pending) ==
  /\ IsPendingTrace(t)
  /\ \E sig \in ToSet(pending) : HasId(sig, t)
  /\ Expected(t) \notin ToSet(pending)

(* Filing a request: an id that starts anew forgets what was completed.    *)
PendingUnbounded(t, pending) ==   \* mutant: the list grows without limit
  IF IsPendingTrace(t) THEN Append(Without(pending, Expected(t)), Expected(t)) ELSE pending

PendingOnceFiled(t, pending) ==
  RememberIf(IsPendingTrace(t), pending, Expected(t))

CompletedOnceFiled(t, pending, completed) ==
  IF IsPendingTrace(t) /\ ~\E sig \in ToSet(pending) : HasId(sig, t)
    THEN Those(completed, { sig \in ToSet(completed) : ~HasId(sig, t) })
    ELSE completed

(* A cancellation (or expiry) of what was pending before the call.         *)
Cancels(t, pending) == t.request_state = "canceled" /\ WithKey(pending, t) # << >>

CanceledAfter(t, pending, canceled) ==
  IF Cancels(t, pending) THEN RememberAll(canceled, WithKey(pending, t)) ELSE canceled

PendingStays(t, pending, filed) == filed   \* mutant: a canceled request stays pending

CancelById(t, pending, filed) ==   \* mutant: whatever server it was sent to
  IF Cancels(t, pending)
    THEN Those(filed, { sig \in ToSet(filed) : ~HasId(sig, t) }) ELSE filed

PendingAfterCancel(t, pending, filed) ==
  IF Cancels(t, pending)
    THEN Those(filed, { sig \in ToSet(filed) : ~HasKey(sig, t) }) ELSE filed

(* What a result is, given the lists as the steps before left them.        *)
SelfContained(t) == t.expected_part /\ Observed(t) = Expected(t)

Accepts(t, pending) ==
  IsResultTrace(t) /\ (SelfContained(t) \/ Observed(t) \in ToSet(WithKey(pending, t)))

Mismatch(t, pending) ==
  LET keyed    == WithKey(pending, t)
      expected == Last(keyed)
      observed == Observed(t)
  IN  IF ~IsResultTrace(t) \/ SelfContained(t) \/ keyed = << >>
           \/ observed \in ToSet(keyed)
        THEN {}
        ELSE UNION {
          IF expected.source # observed.source
            THEN {"mcp_result_source_mismatch"} \cup
                 When(t.event # None, "mcp_stream_event_identity_collision")
            ELSE {},
          IF expected.tool # observed.tool
            THEN {"mcp_response_request_mismatch", "mcp_foreign_tool_result_injection"}
            ELSE {} }

(* Mutant: that the request was canceled is not looked at.                 *)
UnboundUnlessCompleted(t, pending, completed, canceled) ==
  /\ IsResultTrace(t)
  /\ ~SelfContained(t)
  /\ WithKey(pending, t) = << >>
  /\ WithKey(completed, t) = << >>
  /\ ~t.allow_unbound_result

Unbound(t, pending, completed, canceled) ==
  /\ IsResultTrace(t)
  /\ ~SelfContained(t)
  /\ WithKey(pending, t) = << >>
  /\ \/ WithKey(canceled, t) # << >>
     \/ WithKey(completed, t) = << >> /\ ~t.allow_unbound_result

(* The whole handler: file, cancel, bind, in this order.                   *)
Binding(t) ==
  LET before    == pending_mcp_request_signatures
      pending   == PendingAfterCancel(t, before, PendingOnceFiled(t, before))
      completed == CompletedOnceFiled(t, before, completed_mcp_request_signatures)
      canceled  == CanceledAfter(t, before, canceled_mcp_request_signatures)
  IN  [canceled |-> canceled,
       completed |->
         RememberIf(Accepts(t, pending), completed, Observed(t)),
       pending |->
         IF Accepts(t, pending) /\ ~SelfContained(t) THEN Without(pending, Observed(t))
                                                     ELSE pending,
       flags |->
         When(ReusesId(t, before), "mcp_jsonrpc_id_reuse")
           \cup Mismatch(t, pending)
           \cup When(Unbound(t, pending, completed, canceled), "mcp_unbound_tool_result")]

BindTrace(t) ==
  /\ pending_mcp_request_signatures' = Binding(t).pending
  /\ completed_mcp_request_signatures' = Binding(t).completed
  /\ canceled_mcp_request_signatures' = Binding(t).canceled

BindingInit ==
  /\ pending_mcp_request_signatures = << >>
  /\ completed_mcp_request_signatures = << >>
  /\ canceled_mcp_request_signatures = << >>
=============================================================================
