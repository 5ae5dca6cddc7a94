---------------------------- MODULE MCRequestScan ----------------------------
(* Layers of every encoding up to two deep and of four encodings up to     *)
(* four, marks on commands up to one layer deep, words around them; calls  *)
(* of every section of the validators.                                     *)
EXTENDS RequestScan

Text(layers, core, marks, context) ==
  [layers |-> layers, core |-> core, marks |-> marks, context |-> context, pieces |-> {}]

Inner == Encodings
Outer == Encodings \ {"concat", "utf7"}

Shallow == { << >> } \cup { << e >> : e \in Inner } \cup { << d, e >> : d \in Outer, e \in Inner }
Deep == UNION { [1..n -> {"unicode", "url", "hex", "base64"}] : n \in {3, 4} }

Segmented == { ls \in Shallow : "segmented_base64" \in ToSet(ls) }
               \cup { << d, "segmented_base64", e >> : d \in {"unicode", "url", "hex"},
                                                      e \in {"unicode", "base64", "hex"} }

UpTo(n, S) == { T \in SUBSET S : Cardinality(T) <= n }

MCPlain == Text(<< >>, "prose", {}, {})

MCPayloads ==
  { Text(ls, core, {}, ctx) : ls \in Shallow \cup Deep, core \in {"command", "prose"},
                              ctx \in UpTo(1, {"encoding", "reference", "documentation"}) }
  \cup { Text(ls, core, {}, {}) : ls \in { << >> } \cup { << e >> : e \in Inner },
                                  core \in {"word", "name"} }
  \cup { Text(ls, "command", marks, {}) :
           ls \in { << >> } \cup { << e >> : e \in Inner \ {"concat"} },
           marks \in { ms \in UpTo(2, Marks \ {"gap"}) : ~({"joined", "split"} \subseteq ms) } }
  \cup { Text(ls, "command", {}, ctx) :
           ls \in { << >>, << "url" >>, << "base64" >>, << "base64", "hex" >> },
           ctx \in SUBSET {"documentation", "test_case", "benchmark"} }
  \cup { [Text(ls, core, {}, ctx) EXCEPT !.pieces = pieces] :
           ls \in Segmented, core \in {"command", "prose"},
           ctx \in UpTo(1, {"encoding", "reference"}), pieces \in SUBSET {1, 2} }

Nothing == [field \in Fields |-> ""]
NoTrace == [pending |-> Nothing, observed |-> Nothing, arguments |-> Nothing]

Call(tool, traits, trace, operations, key) ==
  [tool |-> tool, traits |-> traits, trace |-> trace, operations |-> operations, key |-> key]

Plainly(tools, traitSets) ==
  { Call(tool, traits, NoTrace, << >>, "operations") : tool \in tools, traits \in traitSets }

ActionTraits == {
  "trusted_intent", "trusted_ref", "vouched_ref", "scope_own", "scope_underscored", "requires_intent",
  "foreign_ref", "labelled_ref", "document_source", "result_source", "observation",
  "other_scope", "readonly_kind", "validation_off", "outage", "redirect",
  "summary_request", "other_event"}

ActionCalls == Plainly({"export_report", "raw_sql", "read_ticket"}, UpTo(3, ActionTraits))

BoundaryCalls ==
  Plainly({"store_memory"}, SUBSET {"durable", "authority", "foreign_ref", "admin_ref",
                                    "approval", "policy_approval"})
  \cup Plainly({"fetch_web_resource"}, SUBSET {"authorization", "auto_attached",
                                               "outside_url", "audience_match"})
  \cup Plainly({"badge_panel"}, SUBSET {"physical", "open_action", "facilities_approval",
                                        "unmarked_approval", "approval", "untrusted_label",
                                        "self_asserted", "suppresses_alert", "escalates_alert"})
  \cup Plainly({"submit_internal_agent_task"}, SUBSET {"tier_rise", "user_payload",
                                                       "risky_task", "scope_token"})

SessionCalls ==
  Plainly({"partial_subscribe", "unsubscribe", "notify"},
          UpTo(3, {"incomplete", "resource", "takeover", "corrupt", "stolen_token", "after_free"}))

(* Identities: those of a request, of a result, and those around them.     *)
Identities(tool, server, connection, event) ==
  [field \in Fields |-> CASE field = "tool"       -> tool
                          [] field = "server"     -> server
                          [] field = "connection" -> connection
                          [] field = "event"      -> event]

TraceCalls ==
  { Call("read_ticket", traits, [pending |-> pending, observed |-> observed, arguments |-> around],
         << >>, "operations") :
      traits   \in { {}, {"result_event", "numbered"}, {"no_pending_request"}, {"raw_frame"} },
      pending  \in { Identities(t, s, c, e) : t \in {"", "a"}, s \in {"", "a"},
                                              c \in {"", "a"}, e \in {"", "a"} },
      observed \in { Identities(t, s, c, e) : t \in {"", "a", "b"}, s \in {"", "a", "b"},
                                              c \in {"a", "b"}, e \in {"", "a"} }
                   \cup {Nothing},
      around   \in { Nothing, Identities("a", "", "b", ""), Identities("b", "a", "", "a") } }

Operation(method, uri, delay) == [method |-> method, uri |-> uri, delay |-> delay]

Operations == { Operation(method, uri, delay) :
                  method \in Methods, uri \in {"doc", "secret"}, delay \in {5, NoDelay} }

RaceCalls ==
  { Call(tool, {}, NoTrace, ops, key) :
      tool \in {"orchestrate_lifecycle", "batch_jobs"}, key \in {"operations", "steps"},
      ops \in UNION { [1..n -> Operations] : n \in 0..2 }
              \cup [1..3 -> { op \in Operations : op.method \in {"read", "rotate"} }] }

MCCalls == ActionCalls \cup BoundaryCalls \cup SessionCalls \cup TraceCalls \cup RaceCalls

MCRuleIds == 1..41
MCSoftBase == 40 :> 39
=============================================================================
