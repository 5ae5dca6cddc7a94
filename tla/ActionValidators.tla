-------------------------- MODULE ActionValidators --------------------------
(***************************************************************************)
(* scan_tool_call_validators: what the structure of a tool call tells      *)
(* against it.  Modelled are the validators of the provenance of an        *)
(* action, the integrity of a plan, the binding of results to requests,    *)
(* the persistent boundaries, the subscriptions, and races in a batch.     *)
(*                                                                         *)
(* A call is [tool, traits, trace, operations, key]: traits are the        *)
(* arguments that matter, each named once in TrustTraits, HazardTraits or  *)
(* OtherTraits; trace has the identities a pending request, an observed    *)
(* result and the arguments themselves give ("" where they give none);     *)
(* operations are those of a batch, listed in the arguments under key.     *)
(***************************************************************************)
EXTENDS Integers, Sequences, FiniteSets, SequencesExt

Tools == {"export_report", "raw_sql", "read_ticket", "store_memory", "fetch_web_resource",
          "badge_panel", "submit_internal_agent_task", "partial_subscribe", "unsubscribe",
          "notify", "orchestrate_lifecycle", "batch_jobs"}

TrustTraits == {
  "trusted_intent",      \* trusted_user_intent is true
  "trusted_ref",         \* a source ref {type: user, trusted}
  "scope_own",           \* the allowed tool scope has the tool
  "scope_underscored",   \* it has the tool's name with "_" for "." and "/"
  "admin_ref",           \* a source ref that names trusted_admin
  "policy_approval",     \* memory_metadata has an approval_event_id
  "audience_match",
  "facilities_approval", \* physical metadata approved_by facilities_admin
  "unmarked_approval",   \* physical metadata with an approval_event_id
  "escalates_alert",
  "scope_token"}         \* delegation metadata has a signed scope

HazardTraits == {
  "requires_intent",     \* requires_trusted_intent is true
  "foreign_ref",         \* a source ref {type: mcp_resource}
  "labelled_ref",        \* a source ref {source_type: tool_result, trusted}
  "document_source",     \* source is a document
  "result_source",       \* source is a tool_result
  "observation",         \* observation_source is an observation log
  "other_scope",         \* the allowed tool scope names another tool
  "readonly_kind",       \* expected_action_kind is read
  "validation_off",      \* validation_mode is off
  "outage",              \* the rationale speaks of an outage
  "redirect",            \* the reasoning trace changes the destination
  "summary_request",     \* the request text asks for a summary
  "other_event",         \* the approved event is not the current one
  "durable", "authority",                                \* the memory's key
  "authorization", "auto_attached", "outside_url",
  "physical", "open_action", "self_asserted",
  "untrusted_label",     \* physical metadata labels its evidence untrusted
  "suppresses_alert",
  "tier_rise", "user_payload", "risky_task",
  "incomplete", "resource", "takeover", "corrupt", "stolen_token", "after_free",
  "raw_frame"}

OtherTraits == {
  "vouched_ref",         \* a source ref {type: tool_result, trusted}
  "approval",            \* an approval_event_id in the arguments
  "result_event",        \* event_kind is a result
  "numbered",            \* a JSON-RPC id
  "no_pending_request", "request_cancelled"}

Fields == {"tool", "server", "connection", "event"}
Methods == {"read", "fetch", "unsubscribe", "delete", "rotate", "write"}
NoDelay == 999999

(* What is asked of a call: a delay is not negative.                       *)
IsToolCall(call) ==
  /\ call = [tool |-> call.tool, traits |-> call.traits, trace |-> call.trace,
             operations |-> call.operations, key |-> call.key]
  /\ call.operations \in Seq(ToSet(call.operations))
  /\ \A op \in ToSet(call.operations) : op.delay \in Nat

Has(call, trait) == trait \in call.traits
-----------------------------------------------------------------------------
(* What a tool's name says of it.                                          *)
side_effecting(call) == call.tool = "export_report"
high_impact(call) == side_effecting(call)
plan_sensitive(call) == high_impact(call) \/ call.tool = "raw_sql"

trusted_user_intent_bound(call) == Has(call, "trusted_intent") \/ Has(call, "trusted_ref")

(* The values a source key has, at any depth of the arguments.             *)
SourceValues(call) ==
  call.traits \cap {"document_source", "result_source", "labelled_ref"}

has_provenance(call) ==
  \/ SourceValues(call) # {}
  \/ call.traits \cap {"trusted_ref", "vouched_ref", "foreign_ref", "admin_ref"} # {}

(* A trusted source ref is passed over, but not its source_type.           *)
untrusted_action_provenance(call) ==
  \/ SourceValues(call) \ {"document_source"} # {}
  \/ Has(call, "foreign_ref")

untrusted_plan_context(call) ==
  \/ untrusted_action_provenance(call)
  \/ Has(call, "document_source") \/ Has(call, "observation")

poisoned_observation_source(call) ==
  Has(call, "result_source") \/ Has(call, "labelled_ref") \/ Has(call, "observation")

tool_scope_violation(call) ==
  Has(call, "other_scope") /\ ~Has(call, "scope_own") /\ ~Has(call, "scope_underscored")

expected_action_kind_violation(call) == Has(call, "readonly_kind") /\ plan_sensitive(call)

tool_switch_premise(call) == Has(call, "outage")

(* A summary was asked for and the tool exports, or the plan goes astray.  *)
goal_hijack_marker(call) ==
  (Has(call, "summary_request") /\ call.tool = "export_report") \/ Has(call, "redirect")

ActionHits(call) ==
  LET unbound == ~trusted_user_intent_bound(call)
      needs   == Has(call, "requires_intent")
      Hit(rule) ==
        CASE rule = "missing_trusted_user_intent"  -> needs /\ unbound
          [] rule = "untrusted_context_to_action"  -> untrusted_action_provenance(call) /\ unbound
          [] rule = "provenance_gap"               -> needs /\ ~has_provenance(call) /\ unbound
          [] rule = "summary_intent_side_effect"   -> needs /\ Has(call, "summary_request") /\ unbound
          [] rule = "stale_or_cross_event_context" -> Has(call, "other_event")
  IN  { rule \in {"missing_trusted_user_intent", "untrusted_context_to_action", "provenance_gap",
                  "summary_intent_side_effect", "stale_or_cross_event_context"} :
          high_impact(call) /\ Hit(rule) }

PlanHits(call) ==
  LET led  == untrusted_plan_context(call)
      off  == Has(call, "validation_off")
      astray == tool_scope_violation(call)
      Hit(rule) ==
        CASE rule = "intent_locked_tool_scope_violation" -> astray
          [] rule = "premise_injection_tool_steering" ->
               led /\ (tool_switch_premise(call) \/ astray \/ off)
          [] rule = "goal_hijacking_plan_deviation" ->
               led /\ (goal_hijack_marker(call) \/ expected_action_kind_violation(call))
          [] rule = "poisoned_observation_to_action" ->
               poisoned_observation_source(call) /\ ~trusted_user_intent_bound(call)
          [] rule = "reasoning_unsupported_tool_switch" ->
               led /\ (off \/ (tool_switch_premise(call) /\ astray))
  IN  { rule \in {"intent_locked_tool_scope_violation", "premise_injection_tool_steering",
                  "goal_hijacking_plan_deviation", "poisoned_observation_to_action",
                  "reasoning_unsupported_tool_switch"} : plan_sensitive(call) /\ Hit(rule) }
-----------------------------------------------------------------------------
(* An identity of a request or a result is the one it gives itself, or     *)
(* that of the arguments around it.                                        *)
TraceValueOuterFirst(part, fallback, field) ==   \* mutant: the arguments come first
  IF fallback[field] # "" THEN fallback[field] ELSE part[field]

trace_value(part, fallback, field) ==
  IF part[field] # "" THEN part[field] ELSE fallback[field]

Given(part) == \E field \in Fields : part[field] # ""

Expected(call, field) == trace_value(call.trace.pending, call.trace.arguments, field)
Observed(call, field) == trace_value(call.trace.observed, call.trace.arguments, field)

is_trace_result_event(call) == Has(call, "result_event") \/ Given(call.trace.observed)

Differs(call, field) ==
  /\ Expected(call, field) # "" /\ Observed(call, field) # ""
  /\ Expected(call, field) # Observed(call, field)

source_mismatch(call) == Differs(call, "server") \/ Differs(call, "connection")

(* A result without a pending request is unbound when it is said to be, or *)
(* when nothing around it tells what it answers.                           *)
unbound_tool_result(call) ==
  /\ ~Given(call.trace.pending)
  /\ \/ Given(call.trace.observed) \/ Given(call.trace.arguments) \/ Has(call, "numbered")
  /\ \/ Has(call, "no_pending_request") \/ Has(call, "request_cancelled")
     \/ ~Given(call.trace.arguments)

stdio_frame_boundary_artifact(call) == Has(call, "raw_frame")

TraceHits(call) ==
  LET event == Expected(call, "event")
      Hit(rule) ==
        CASE rule \in {"response_request_mismatch", "foreign_tool_result_injection"} ->
               Differs(call, "tool")
          [] rule = "result_source_mismatch" -> source_mismatch(call)
          [] rule = "stream_event_identity_collision" ->
               source_mismatch(call) /\ event # "" /\ event = Observed(call, "event")
          [] rule = "unbound_tool_result" -> unbound_tool_result(call)
  IN  { rule \in {"response_request_mismatch", "foreign_tool_result_injection",
                  "result_source_mismatch", "stream_event_identity_collision",
                  "unbound_tool_result"} : is_trace_result_event(call) /\ Hit(rule) }
      \cup { rule \in {"stdio_frame_boundary_artifact"} : stdio_frame_boundary_artifact(call) }
-----------------------------------------------------------------------------
(* An approval in the arguments counts only with a trusted_admin or an     *)
(* approval in what is written.                                            *)
trusted_update(call) ==
  \/ Has(call, "policy_approval")
  \/ Has(call, "admin_ref") /\ Has(call, "approval")

persistent_memory_authority_poisoning(call) ==
  /\ call.tool = "store_memory" /\ Has(call, "durable") /\ Has(call, "authority")
  /\ untrusted_action_provenance(call) /\ ~trusted_update(call)

privileged_auth_to_untrusted_origin(call) ==
  /\ call.tool = "fetch_web_resource" /\ Has(call, "authorization")
  /\ Has(call, "auto_attached") /\ Has(call, "outside_url") /\ ~Has(call, "audience_match")

(* An approval is strong when the metadata has "trusted" in it, or names   *)
(* the facilities: "trusted" is in the word "untrusted" as well.           *)
physically_approved(call) ==
  call.traits \cap {"facilities_approval", "unmarked_approval", "approval"} # {}

approval_marked(call) == call.traits \cap {"facilities_approval", "untrusted_label"} # {}

physical_action_without_strong_approval(call) ==
  /\ Has(call, "physical") /\ Has(call, "open_action")
  /\ ~(physically_approved(call) /\ approval_marked(call))

synthetic_evidence_physical_source(call) ==
  Has(call, "self_asserted") \/ Has(call, "untrusted_label")

security_alert_suppression(call) ==
  Has(call, "suppresses_alert") /\ ~Has(call, "escalates_alert")

cross_agent_delegation_poisoning(call) ==
  /\ call.tool = "submit_internal_agent_task" /\ Has(call, "tier_rise")
  /\ Has(call, "user_payload") /\ Has(call, "risky_task") /\ ~Has(call, "scope_token")

BoundaryHits(call) ==
  LET If(condition, rules) == IF condition THEN rules ELSE {}
  IN  If(persistent_memory_authority_poisoning(call),
         {"memory_directive_poisoning", "memory_authority_escalation"})
      \cup If(privileged_auth_to_untrusted_origin(call),
              {"identity_token_relay", "privileged_header_untrusted_origin",
               "auth_context_boundary_bleed"})
      \cup If(physical_action_without_strong_approval(call),
              {"physical_action_without_approval"}
                \cup If(synthetic_evidence_physical_source(call),
                        {"synthetic_evidence_physical_action"}))
      \cup If(security_alert_suppression(call), {"security_alert_suppression"})
      \cup If(cross_agent_delegation_poisoning(call),
              {"cross_agent_delegation_poisoning", "delegated_task_provenance_gap",
               "privilege_tier_escalation_queue"})
-----------------------------------------------------------------------------
(* The subscriptions of a single request.                                  *)
SessionHits(call) ==
  LET partial == call.tool = "partial_subscribe" /\ Has(call, "incomplete")
      Hit(rule) ==
        CASE rule = "partial_handshake"              -> partial
          [] rule = "partial_subscription"           -> partial /\ Has(call, "resource")
          [] rule = "takeover_pending_subscription"  -> Has(call, "takeover")
          [] rule = "subscription_state_corruption"  -> Has(call, "corrupt")
          [] rule = "subscription_token_replay" ->
               call.tool = "unsubscribe" /\ Has(call, "stolen_token")
          [] rule = "use_after_free_marker" -> call.tool = "notify" /\ Has(call, "after_free")
  IN  { rule \in {"partial_handshake", "partial_subscription", "takeover_pending_subscription",
                  "subscription_state_corruption", "subscription_token_replay",
                  "use_after_free_marker"} : Hit(rule) }
-----------------------------------------------------------------------------
(* The resources the operations of a batch with one of the methods are on. *)
UrisOf(call, methods) ==
  { call.operations[i].uri : i \in { i \in DOMAIN call.operations :
                                       call.operations[i].method \in methods } }

READ_OPS == {"read", "fetch", "unsubscribe"}     \* "unsubscribe" has "subscribe" in it
DELETE_OPS == {"delete", "rotate"}
WRITE_OPS == {"write"}

contains_same_uri_ops(call, methods) == UrisOf(call, READ_OPS) \cap UrisOf(call, methods)

LastDelay(call) ==   \* mutant: the delay of the last operation is what counts
  IF call.operations = << >> THEN NoDelay ELSE Last(call.operations).delay

(* The shortest delay of a batch, whichever operation it is of.            *)
min_delay(call) ==
  Min({NoDelay} \cup { call.operations[i].delay : i \in DOMAIN call.operations })

RaceHits(call) ==
  LET parallel   == call.key = "operations"
      sequence   == call.tool = "orchestrate_lifecycle" /\ min_delay(call) <= 10
      subscribed == UrisOf(call, {"read", "unsubscribe"})
      destroyed  == UrisOf(call, DELETE_OPS)
      Hit(rule) ==
        CASE rule = "parallel_read_delete" ->
               parallel /\ contains_same_uri_ops(call, DELETE_OPS) # {}
          [] rule = "parallel_read_write_sensitive" ->
               parallel /\ "secret" \in contains_same_uri_ops(call, WRITE_OPS)
          [] rule = "subscribe_unregister_race" -> sequence /\ subscribed \cap destroyed # {}
          [] rule = "secret_lifecycle_race" ->
               sequence /\ "secret" \in subscribed /\ destroyed # {}
  IN  { rule \in {"parallel_read_delete", "parallel_read_write_sensitive",
                  "subscribe_unregister_race", "secret_lifecycle_race"} : Hit(rule) }
-----------------------------------------------------------------------------
Hits(call) ==
  ActionHits(call) \cup PlanHits(call) \cup TraceHits(call) \cup BoundaryHits(call)
    \cup SessionHits(call) \cup RaceHits(call)

Row(name, severity, risk, hint) ==
  [name |-> name, severity |-> severity, risk |-> risk, hint |-> hint]

(* The validators in the alphabetical order of their rules' full ids.      *)
Validators == <<
  Row("missing_trusted_user_intent", "high", 82, "block"),
  Row("provenance_gap", "high", 80, "require_approval"),
  Row("stale_or_cross_event_context", "high", 78, "require_approval"),
  Row("summary_intent_side_effect", "high", 82, "block"),
  Row("untrusted_context_to_action", "high", 84, "block"),
  Row("parallel_read_delete", "high", 80, "require_approval"),
  Row("parallel_read_write_sensitive", "high", 82, "require_approval"),
  Row("secret_lifecycle_race", "high", 82, "require_approval"),
  Row("subscribe_unregister_race", "high", 80, "require_approval"),
  Row("partial_handshake", "medium", 56, "log_only"),
  Row("partial_subscription", "medium", 40, "log_only"),
  Row("subscription_state_corruption", "high", 78, "require_approval"),
  Row("subscription_token_replay", "high", 74, "require_approval"),
  Row("takeover_pending_subscription", "high", 74, "require_approval"),
  Row("use_after_free_marker", "medium", 60, "log_only"),
  Row("foreign_tool_result_injection", "high", 84, "block"),
  Row("response_request_mismatch", "high", 82, "require_approval"),
  Row("result_source_mismatch", "critical", 88, "block"),
  Row("stdio_frame_boundary_artifact", "high", 78, "require_approval"),
  Row("stream_event_identity_collision", "critical", 88, "block"),
  Row("unbound_tool_result", "critical", 86, "block"),
  Row("auth_context_boundary_bleed", "critical", 88, "block"),
  Row("cross_agent_delegation_poisoning", "critical", 92, "block"),
  Row("delegated_task_provenance_gap", "critical", 88, "block"),
  Row("identity_token_relay", "critical", 92, "block"),
  Row("memory_authority_escalation", "critical", 90, "block"),
  Row("memory_directive_poisoning", "critical", 92, "block"),
  Row("physical_action_without_approval", "critical", 92, "block"),
  Row("privilege_tier_escalation_queue", "critical", 90, "block"),
  Row("privileged_header_untrusted_origin", "critical", 90, "block"),
  Row("security_alert_suppression", "high", 82, "require_approval"),
  Row("synthetic_evidence_physical_action", "critical", 90, "block"),
  Row("goal_hijacking_plan_deviation", "high", 84, "block"),
  Row("intent_locked_tool_scope_violation", "high", 80, "require_approval"),
  Row("poisoned_observation_to_action", "high", 84, "block"),
  Row("premise_injection_tool_steering", "high", 82, "require_approval"),
  Row("reasoning_unsupported_tool_switch", "high", 80, "require_approval") >>

(* A rule has one match of a call: _mk gives it the field "tool_call".     *)
Mk(number, row) ==
  [rule |-> number, field |-> "tool_call", severity |-> row.severity, hint |-> row.hint,
   risk |-> row.risk, codes |-> << >>]

ValidatorMatches(call) ==
  LET hits == Hits(call)
      hit  == { i \in DOMAIN Validators : Validators[i].name \in hits }
      Place(i) == Cardinality({ j \in hit : j < i }) + 1
  IN  [k \in 1..Cardinality(hit) |->
         LET i == CHOOSE i \in hit : Place(i) = k IN Mk(i, Validators[i])]
=============================================================================
