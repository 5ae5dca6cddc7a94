--------------------------- MODULE McpTraceLedger ---------------------------
(***************************************************************************)
(* The binding of results against a ledger without limits: which requests  *)
(* are outstanding, which were answered and which canceled, as an observer *)
(* of the traces would keep it who never forgets and knows a signature     *)
(* from its prefix.                                                        *)
(***************************************************************************)
EXTENDS McpTraceBinding, FiniteSets

CONSTANT LoggedTraces   \* the traces of the environment

ASSUME LoggedTracesAssumption == LoggedTraces \subseteq Traces

VARIABLES outstanding,  \* history: filed, neither answered nor canceled since
          answered,     \* history: answered, the id not filed again since
          canceled,     \* history: canceled, not filed again since
          overflowed    \* history: whether a list of them has dropped one for its limit

ledgerVars == << bindingVars, outstanding, answered, canceled, overflowed >>

(* A cancellation is no request, whatever its tool is called.              *)
Filed(t) == { sig \in {Expected(t)} : IsPendingTrace(t) /\ t.request_state # "canceled" }

SameRequest(sig, t) == sig.id = t.id /\ sig.source = t.source

SameCall(one, other) == one = [other EXCEPT !.event = one.event]   \* but for the event

CanceledBy(t, sigs) ==
  IF t.request_state = "canceled" THEN { sig \in sigs : SameRequest(sig, t) } ELSE {}

(* A result answers the request it names if it comes from where it says it *)
(* was sent; one of a stream is never bound (HasKey) and answers nothing.   *)
(* One that brings its request with it answers that one, and leaves one    *)
(* that was filed outstanding.                                             *)
AnsweredBy(t, sigs) ==
  { sig \in {Observed(t)} :
      /\ IsResultTrace(t)
      /\ SelfContained(t) \/ (SameRequest(sig, t) /\ t.event = None /\ sig \in sigs) }

StartsAnew(t) == Filed(t) # {} /\ ~\E sig \in outstanding : HasId(sig, t)

(* Whether the pending or the canceled requests outgrow their list.        *)
DropsOldest(t) ==
  \E sigs \in {
      ToSet(pending_mcp_request_signatures) \cup { sig \in {Expected(t)} : IsPendingTrace(t) },
      IF Cancels(t, pending_mcp_request_signatures)
        THEN ToSet(canceled_mcp_request_signatures)
               \cup ToSet(WithKey(pending_mcp_request_signatures, t))
        ELSE {} } :
    Cardinality(sigs) > SESSION_LIST_LIMIT

Record(t) ==
  LET open     == outstanding \cup Filed(t)
      dropped  == CanceledBy(t, open)
      answers  == AnsweredBy(t, open \ dropped)
  IN  /\ outstanding' = IF SelfContained(t) THEN open \ dropped
                                            ELSE (open \ dropped) \ answers
      /\ answered' = { sig \in answered : ~(StartsAnew(t) /\ HasId(sig, t)) } \cup answers
      /\ canceled' = { sig \in canceled : ~\E one \in Filed(t) : SameCall(sig, one) } \cup dropped
      /\ overflowed' = (overflowed \/ DropsOldest(t))

LedgerInit ==
  /\ BindingInit
  /\ outstanding = {}
  /\ answered = {}
  /\ canceled = {}
  /\ overflowed = FALSE

LedgerNext == \E t \in LoggedTraces : BindTrace(t) /\ Record(t)

LedgerSpec == LedgerInit /\ [][LedgerNext]_ledgerVars
-----------------------------------------------------------------------------
BoundedList(sigs) ==
  sigs \in Seq(Signatures) /\ Len(sigs) <= SESSION_LIST_LIMIT /\ Distinct(sigs)

TypeOK ==
  /\ BoundedList(pending_mcp_request_signatures)
  /\ BoundedList(completed_mcp_request_signatures)
  /\ BoundedList(canceled_mcp_request_signatures)
  /\ outstanding \cup answered \cup canceled \subseteq Signatures

(* A trace that brings a result and nothing with it: no request of its own *)
(* and no permission to be unbound.                                        *)
BareResult(t) ==
  IsResultTrace(t) /\ ~SelfContained(t) /\ ~IsPendingTrace(t) /\ ~t.allow_unbound_result

Passes(t) == Binding(t).flags = {}

(* The verdict on the next trace, whichever comes.  A bare result passes   *)
(* only if it answers an outstanding request, be it of a stream, or one of *)
(* its id and source was answered before.                                  *)
BoundToRequest ==
  \A t \in LoggedTraces :
    BareResult(t) /\ Passes(t) =>
      \/ \E sig \in outstanding : SameCall(sig, Observed(t))
      \/ \E sig \in answered : SameRequest(sig, t)

(* The result of an outstanding request, from where it was sent, passes as *)
(* long as the lists have dropped nothing; streamed results are left out,  *)
(* and a result that comes with the cancellation of its request.           *)
NoFalseAlarm ==
  \A t \in LoggedTraces :
    BareResult(t) /\ SameRequest(Observed(t), t) /\ t.event = None
        /\ t.request_state # "canceled" /\ Observed(t) \in outstanding /\ ~overflowed
      => Passes(t)

(* runtime_trace_canceled_request_late_result_001: a late result for a     *)
(* canceled request, from where that was sent, is flagged, whatever was    *)
(* filed and answered since, as long as the lists have dropped nothing.    *)
LateResultFlagged ==
  \A t \in LoggedTraces :
    BareResult(t) /\ SameRequest(Observed(t), t) /\ Observed(t) \in canceled /\ ~overflowed
      => ~Passes(t)

(* What the environment is taken to be where a proof needs it: no trace    *)
(* that cancels files a request as well (run trace_late shows what         *)
(* comes of one that does), and none is of a stream, whose key names none  *)
(* of the requests it would cancel.                                        *)
PlainCancellations ==
  \A t \in LoggedTraces :
    t.request_state = "canceled" => ~IsPendingTrace(t) /\ t.event = None
=============================================================================
