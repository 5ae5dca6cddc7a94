------------------------- MODULE MCFirewallPipeline -------------------------
(* Requests that make each layer speak: calm ones, a log, an approval, a   *)
(* block whose code is remembered, and calls on which detectors fire.      *)
EXTENDS FirewallPipeline

MCRuleIds == 1..4
MCSoftBase == 2 :> 1

Match(rule, severity, hint, risk, codes) ==
  [rule |-> rule, field |-> "normalized", severity |-> severity, hint |-> hint,
   risk |-> risk, codes |-> codes]

Override == Match(1, "critical", "block", 92, <<"instruction_override_attempt">>)
SoftOverride == Match(2, "low", "log_only", 20, <<"instruction_override_soft">>)
ToolAbuse == Match(3, "high", "require_approval", 80, <<"tool_abuse", "sensitive_tool_invocation">>)
Corruption == Match(4, "critical", "block", 90, <<"subscription_state_corruption">>)

Request(scanned, structured, decision, sensitive, flags) ==
  [tool |-> TRUE, sensitive |-> sensitive, scanned |-> scanned, structured |-> structured,
   policy |-> [decision |-> decision,
               level    |-> IF decision = "none" THEN "none" ELSE "high",
               codes    |-> IF decision = "none" THEN << >> ELSE <<"policy_" \o decision>>],
   fired |-> flags]

MCRequests ==
  { Request(<< >>, << >>, "none", FALSE, {}),
    Request(<< >>, << >>, "none", TRUE, {}),
    Request(<<SoftOverride>>, << >>, "none", FALSE, {"protocol_version_regression"}),
    Request(<<Override, SoftOverride>>, <<ToolAbuse>>, "require_approval", TRUE,
            {"poisoned_observation_to_action", "multi_tool_exfiltration_chain"}),
    Request(<< >>, <<Corruption>>, "none", FALSE, {"mcp_chain_hit"}),
    [Request(<<SoftOverride>>, << >>, "none", FALSE, {}) EXCEPT !.tool = FALSE] }

MCSecurityCodes == {"instruction_override_attempt", "sensitive_tool_invocation"}
MCLowImpactCodes == {"instruction_override_soft", "policy_log_only"}
=============================================================================
