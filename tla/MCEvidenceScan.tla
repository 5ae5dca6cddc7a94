--------------------------- MODULE MCEvidenceScan ---------------------------
(* Two variants of one rule found in several fields, a soft rule with its  *)
(* base, a medium log_only rule, and validators of every strength.         *)
EXTENDS EvidenceScan

MCRuleIds == 1..8
MCSoftBase == 3 :> 2

Try(rule, field, severity, hint, risk, codes) ==
  [rule |-> rule, field |-> field, severity |-> severity, hint |-> hint,
   risk |-> risk, codes |-> codes]

MCTextTries == <<
  Try(3, "original", "low", "log_only", 20, <<"instruction_override_soft">>),
  Try(3, "normalized", "low", "log_only", 20, <<"instruction_override_soft">>),
  Try(2, "findings.decoded", "critical", "block", 92, <<"instruction_override_attempt">>),
  Try(1, "original", "medium", "log_only", 55, <<"external_destination">>),
  Try(4, "original", "high", "require_approval", 80, <<"tool_abuse", "mcp_tool_side_effect">>) >>

MCStructuralTries == <<
  Try(5, "tool_args", "low", "log_only", 30, <<"partial_handshake">>),
  Try(6, "tool_args", "high", "block", 86, <<"tool_shadowing">>),
  Try(6, "tool_args", "high", "require_approval", 82, <<"tool_shadowing">>),
  Try(7, "tool_args", "high", "log_only", 70, <<"external_destination">>),
  Try(8, "tool_args", "critical", "block", 90, <<"subscription_state_corruption">>) >>

Text(parts) == [kind |-> "text", v |-> parts]
Number(n)   == [kind |-> "number", v |-> n]
List(vs)    == [kind |-> "list", v |-> vs]
Null        == [kind |-> "null", v |-> {}]

If(part, name, op, value) == [path |-> << part, name >>, op |-> op, value |-> value]

NoClause ==
  [risk |-> "", block_if |-> {}, block_external_domains |-> {}, require_approval |-> "",
   require_approval_if |-> {}, require_approval_for_attachments |-> FALSE, log |-> FALSE]

(* Tools of default.yaml, and wire_transfer, which has every clause.       *)
MCTools ==
  [export_customer_data |->
     [NoClause EXCEPT !.risk = "critical", !.require_approval = "always",
        !.block_if = {If("args", "scope", "==", Text({"all"})),
                      If("actor", "role", "not_in", List({Text({"admin"})}))}],
   refund_payment |->
     [NoClause EXCEPT !.risk = "high",
        !.require_approval_if = {If("args", "amount", ">", Number(100)),
                                 If("actor", "role", "!=", Text({"manager"}))}],
   http_request |->
     [NoClause EXCEPT !.risk = "medium",
        !.require_approval_if = {If("args", "timeout", "==", Null)}],
   send_email |->
     [NoClause EXCEPT !.risk = "medium", !.block_external_domains = {"mailinator.com"},
        !.require_approval_for_attachments = TRUE],
   get_customer |-> [NoClause EXCEPT !.risk = "low", !.log = TRUE],
   search_kb |-> [NoClause EXCEPT !.risk = "low"],
   wire_transfer |->
     [risk |-> "low", log |-> TRUE, require_approval |-> "always",
      block_if |-> {If("args", "note", "contains", Text({"urgent"})),
                    If("args", "note", "and", Text({"urgent"}))},
      block_external_domains |-> {"mailinator.com"},
      require_approval_if |-> {If("args", "amount", ">=", Number(100)),
                               If("args", "to", "in", List({Text({"bob", "corp.example"})}))},
      require_approval_for_attachments |-> TRUE]]

MCDomains == {"mailinator.com", "corp.example"}

Call(tool, args, actor) ==
  [tool |-> tool, args |-> args, actor |-> actor, session |-> << >>]

Admin == [role |-> Text({"admin"})]
Nobody == << >>

MCPolicyRequests == {
  Call("", << >>, Nobody),
  Call("run_tests", [amount |-> Number(500)], Admin),
  Call("export_customer_data", [scope |-> Text({"all"})], Admin),
  Call("export_customer_data", << >>, [role |-> Text({"support"})]),
  Call("export_customer_data", << >>, Nobody),
  Call("refund_payment", [amount |-> Number(100)], [role |-> Text({"manager"})]),
  Call("refund_payment", [amount |-> Text({"500"})], Admin),
  Call("refund_payment", [amount |-> Number(101)], [role |-> Text({"manager"})]),
  Call("http_request", << >>, Nobody),
  Call("http_request", [timeout |-> Null], Nobody),
  Call("send_email", [to |-> Text({"ann", "mailinator.com"}), files |-> List({})], Nobody),
  Call("send_email", [to |-> Text({"ann", "corp.example"}),
                      email |-> Text({"ann", "mailinator.com"}),
                      file |-> Text({"report"})], Nobody),
  Call("send_email", [to |-> Text({}), email |-> Text({"mailinator.com"})], Nobody),
  Call("get_customer", << >>, Nobody),
  Call("search_kb", << >>, Nobody),
  Call("wire_transfer", [note |-> Text({"urgent", "please"}), amount |-> Number(5)], Nobody),
  Call("wire_transfer", [note |-> List({Text({"urgent"})})], Nobody),
  Call("wire_transfer", [to |-> Text({"bob", "corp.example"}), amount |-> Number(100)], Admin) }

(* One request for which a policy answers, and one for which it does not.  *)
MCTwoRequests == { Call("search_kb", << >>, Nobody), Call("get_customer", << >>, Nobody) }

(* Nine rules, each with a code of its own.                                *)
MCManyTries ==
  [i \in 1..6 |-> Try(i, "normalized", "high", "require_approval", 70, <<ToString(i)>>)]

MCManyStructural ==
  [i \in 1..3 |-> Try(i + 6, "tool_args", "high", "block", 85, <<ToString(i + 6)>>)]

MCNineRuleIds == 1..9
MCNoSoft == << >>
=============================================================================
