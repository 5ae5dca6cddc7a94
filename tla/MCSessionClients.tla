-------------------------- MODULE MCSessionClients --------------------------
(* A looping client beside one of each kind.  Untrusted texts ask for two  *)
(* tools, one of them in the very call that runs it, the other blocked.    *)
EXTENDS SessionClients

Call(tool, directed, preliminary) ==
  [tool |-> tool, directed |-> directed, preliminary |-> preliminary]

MCCalls ==
  { Call("read_document", << "export_engine_v4" >>, "allow"),
    Call("deploy_now", << "deploy_now" >>, "allow"),
    Call("export_engine_v4", << >>, "log_only"),
    Call("export_engine_v4", << >>, "block") }

MCMaxCalls == [ann |-> 2, bob |-> 3]

MCClients == {"ann", "bob"}

MCKinds == { [ann |-> "loop", bob |-> other] : other \in {"loop", "parallel", "guard", "hook"} }
=============================================================================
