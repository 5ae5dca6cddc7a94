-------------------------- MODULE MCMcpTraceLedger --------------------------
(* Requests with a shared id on two servers, their results, cancellations  *)
(* that cross them, results from elsewhere, and one streamed request.      *)
EXTENDS McpTraceLedger

Trace(id, source, tool) ==
  [id |-> id, source |-> source, tool |-> tool, event |-> "",
   observed_source |-> source, observed_tool |-> tool,
   request_state |-> "", expected_part |-> FALSE, observed_part |-> FALSE,
   is_result |-> FALSE, files |-> FALSE, allow_unbound_result |-> FALSE]

Request(id, source, tool) == [Trace(id, source, tool) EXCEPT !.request_state = "pending"]
Result(id, source, tool) == [Trace(id, source, tool) EXCEPT !.is_result = TRUE]
Cancel(id, source, tool) == [Trace(id, source, tool) EXCEPT !.request_state = "canceled"]

(* The fixture's cancellation is a call to mcp.request/cancel, whose name  *)
(* is also that of a request.                                              *)
CancelCall(id, source, tool) == [Cancel(id, source, tool) EXCEPT !.files = TRUE]

Streamed(t) == [t EXCEPT !.event = "e1"]

MCLoggedTraces ==
  { Request("1", "docs", "search"), Request("1", "docs", "fetch"),
    Request("1", "logs", "search"), Streamed(Request("2", "docs", "search")),
    Result("1", "docs", "search"), Result("1", "docs", "fetch"),
    Result("1", "logs", "search"),
    Result("2", "docs", "search"), Streamed(Result("2", "docs", "search")),
    Cancel("1", "docs", "search"), Cancel("2", "docs", "search"),
    [Result("1", "docs", "search") EXCEPT !.observed_source = "logs"],
    [Result("1", "docs", "search") EXCEPT !.expected_part = TRUE, !.observed_part = TRUE],
    [Result("2", "logs", "fetch") EXCEPT !.allow_unbound_result = TRUE] }

MCFixtureTraces ==
  { Request("1", "docs", "search"), Result("1", "docs", "search"),
    CancelCall("1", "docs", "search"),
    Request("2", "docs", "search"), Result("2", "docs", "search") }
=============================================================================
