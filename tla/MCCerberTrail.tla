--------------------------- MODULE MCCerberTrail ----------------------------
(* Calls that make every detector speak, in sessions of one theme each.    *)
EXTENDS CerberTrail

MCUnderscored == [ tool \in {"repo.push"} |-> "repo_push" ]

(* What scoring sees of the calls before the detectors.                    *)
MCCalls ==
  { [prelim |-> Catalogue[name].prelim, sensitive |-> FALSE, fired |-> {}] :
      name \in DOMAIN Catalogue }

Subscribe(uri, id) ==
  [PlainCall EXCEPT !.rules = {"partial_subscription"}, !.uri = uri, !.subscription = id]
Unsubscribe(id) ==
  [PlainCall EXCEPT !.unsubscribes = TRUE, !.subscription = id,
                    !.rules = {"subscription_token_replay"}]
Notify(id) == [PlainCall EXCEPT !.notifies = TRUE, !.subscription = id]
Initialize(major, security) ==
  [PlainCall EXCEPT !.initialize = {[major |-> major, security |-> security]}]
Pay(card, expiry, code) ==
  [PlainCall EXCEPT !.payment = {[card |-> card, expiry |-> expiry, code |-> code]}]
Query(fragment, code) ==
  [PlainCall EXCEPT !.oracle = {[fragment |-> fragment, code |-> code]}]
Root(rules) == [PlainCall EXCEPT !.rules = rules]

Trust(event, scope) ==
  [PlainCall EXCEPT !.trusted = TRUE, !.event = event, !.scope = scope]
Act(tool, event) == [PlainCall EXCEPT !.tool = tool, !.event = event, !.uses_prior = TRUE]
Told(tools) == [PlainCall EXCEPT !.directed = tools]

Trace(id, state) ==
  [id |-> id, source |-> "docs", tool |-> "search", event |-> "",
   observed_source |-> "docs", observed_tool |-> "search",
   request_state |-> state, expected_part |-> FALSE, observed_part |-> FALSE,
   is_result |-> FALSE, files |-> FALSE, allow_unbound_result |-> FALSE]

Answer == [Trace("1", "") EXCEPT !.is_result = TRUE]

Result(markers) == [PlainCall EXCEPT !.result_markers = markers]
Send(markers, sinks) == [PlainCall EXCEPT !.markers = markers, !.sinks = sinks]

MCCatalogue ==
  [plain      |-> PlainCall,
   sub_doc    |-> Subscribe("doc", "s1"),
   sub_s1     |-> Subscribe("", "s1"),
   sub_s2     |-> Subscribe("", "s2"),
   unsub_s1   |-> Unsubscribe("s1"),
   unsub_s2   |-> Unsubscribe("s2"),
   unsub_s3   |-> Unsubscribe("s3"),
   unsub_s4   |-> Unsubscribe("s4"),
   notify_s1  |-> Notify("s1"),
   init_v2    |-> Initialize({2}, TRUE),
   init_v1    |-> Initialize({1}, TRUE),
   init_bare  |-> Initialize({2}, FALSE),
   init_named |-> Initialize({}, FALSE),
   amplify    |-> Root({"subscription_chain_amplification"}),
   recursive  |-> Root({"recursive_root_subscription"}),
   both       |-> Root({"subscription_chain_amplification", "recursive_root_subscription"}),
   pay_1      |-> Pay("4111", <<"12", "30">>, "1"),
   pay_2      |-> Pay("4111", <<"12", "30">>, "2"),
   pay_short  |-> Pay("4111", <<"12">>, "1"),
   pay_any    |-> Pay("4111", << >>, "3"),
   pay_other  |-> Pay("5500", <<"12", "30">>, "1"),
   pay_third  |-> Pay("3700", <<"12", "30">>, "1"),
   pay_blank  |-> Pay("", << >>, ""),
   query_1    |-> Query(<<"acct">>, "1"),
   query_2    |-> Query(<<"acct">>, "2"),
   query_3    |-> Query(<<"mail">>, "1"),
   query_sub  |-> Query(<<"acct", "7">>, "1"),
   trust_e1   |-> Trust("e1", << >>),
   trust_e2   |-> [Trust("e2", <<"send_mail">>) EXCEPT !.tool = "send_mail"],
   widen      |-> Trust("", <<"send_mail", "deploy", "read_secret">>),
   send_e1    |-> Act("send_mail", "e1"),
   send_e2    |-> [Act("send_mail", "e2") EXCEPT !.approved = "e1"],
   deploy_e2  |-> Act("deploy", "e2"),
   secret     |-> [PlainCall EXCEPT !.tool = "read_secret"],
   allow_push |-> Trust("", <<"repo_push">>),
   push       |-> [PlainCall EXCEPT !.tool = "repo.push"],
   told_push  |-> Told(<<"repo_push">>),
   told_1     |-> Told(<<"deploy">>),
   told_2     |-> Told(<<"shutdown", "read_secret">>),
   told_3     |-> Told(<<"erase", "read_secret">>),
   shown      |-> [PlainCall EXCEPT !.bridged = <<"write_file">>, !.tool = "screenshot"],
   request    |-> [PlainCall EXCEPT !.trace = {Trace("1", "pending")}],
   request_2  |-> [PlainCall EXCEPT !.trace = {Trace("2", "pending")}],
   cancel_2   |-> [PlainCall EXCEPT !.trace = {Trace("2", "canceled")}],
   cancel     |-> [PlainCall EXCEPT !.trace = {Trace("1", "canceled")}],
   answer     |-> [Result(<<"M1">>) EXCEPT !.trace = {Answer}],
   answer_out |-> [Result(<<"M1">>) EXCEPT !.trace = {[Answer EXCEPT !.allow_unbound_result = TRUE]},
                                           !.sinks = {"public"}],
   foreign    |-> [Result(<<"M2">>) EXCEPT !.rules = {"unbound_tool_result"}],
   result_23  |-> Result(<<"M2", "M3">>),
   forward    |-> [Result(<<"M4">>) EXCEPT !.sinks = {"public"}],
   send_m1    |-> Send({"M1"}, {"public"}),
   link_m2    |-> [Send({"M2"}, {}) EXCEPT !.link = "url"],
   draft_m1   |-> Send({"M1"}, {"draft"}),
   poison     |-> [PlainCall EXCEPT !.rules = {"memory_directive_poisoning"}, !.memory_key = "k"],
   recall     |-> [PlainCall EXCEPT !.reads_memory = TRUE, !.memory_key = "k"],
   write_a    |-> [PlainCall EXCEPT !.tool = "write_file", !.writes = TRUE, !.path = "a"],
   write_b    |-> [PlainCall EXCEPT !.writes = TRUE, !.path = "approved"],
   run_a      |-> [PlainCall EXCEPT !.runs = TRUE, !.path = "a"],
   run_b      |-> [PlainCall EXCEPT !.runs = TRUE, !.path = "approved"]]

MCThemes ==
  { {"plain", "unsub_s1", "unsub_s2", "unsub_s3", "unsub_s4", "notify_s1"},
    {"plain", "sub_doc", "sub_s1", "sub_s2", "amplify", "recursive", "both"},
    {"plain", "init_v2", "init_v1", "init_bare", "init_named"},
    {"plain", "pay_1", "pay_2", "pay_short", "pay_any", "pay_other", "pay_third", "pay_blank"},
    {"plain", "query_1", "query_2", "query_3", "query_sub", "pay_1"},
    {"plain", "trust_e1", "trust_e2", "widen", "send_e1", "send_e2", "deploy_e2", "secret"},
    {"widen", "allow_push", "push", "told_push", "secret"},
    {"told_1", "told_2", "told_3", "shown", "write_a", "deploy_e2", "secret", "trust_e2"},
    {"request", "request_2", "cancel", "cancel_2", "answer", "answer_out", "result_23", "send_m1"},
    {"answer", "foreign", "result_23", "forward", "send_m1", "link_m2", "draft_m1"},
    {"plain", "poison", "recall", "write_a", "write_b", "run_a", "run_b", "send_m1"} }
=============================================================================
