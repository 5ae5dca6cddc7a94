-------------------------- MODULE MCSessionMemory ---------------------------
EXTENDS SessionMemory

Call(decision, risk, codes, sensitive) ==
  [prelim    |-> [decision |-> decision, risk |-> risk, codes |-> codes],
   sensitive |-> sensitive, fired |-> {}]

MCCalls ==
  { Call("allow", 0, << >>, FALSE),
    Call("allow", 0, << >>, TRUE),
    Call("block", 92, <<"instruction_override_attempt", "tool_shadowing">>, FALSE),
    Call("block", 86, <<"external_destination", "parent_delete_cascade",
                        "secret_exfiltration_intent">>, TRUE),
    Call("log_only", 20, <<"instruction_override_soft", "partial_handshake">>, FALSE) }

MCSecurityCodes == {"instruction_override_attempt", "external_destination"}
MCLowImpactCodes == {"instruction_override_soft", "policy_log_only"}

(* For the run that fills the memory: the same attack again, then with     *)
(* company.                                                                *)
MCRepeatCalls ==
  { Call("block", 92, <<"instruction_override_attempt">>, FALSE),
    Call("log_only", 20, <<"partial_handshake", "tool_shadowing">>, FALSE),
    Call("block", 92, <<"instruction_override_attempt", "secret_exfiltration_intent">>, FALSE) }
=============================================================================
