--------------------------- MODULE CentralSession ---------------------------
(***************************************************************************)
(* What passing the session context on is for: as if the engine kept one   *)
(* session per client, each call of a client is decided with everything    *)
(* its earlier calls have shown, in their order, and its decision settles  *)
(* what becomes of it.  Of the session the model keeps the tools that      *)
(* untrusted texts have asked for (recent_untrusted_plan_directives).      *)
(*                                                                         *)
(* A call is [tool, directed, preliminary]: the tools its arguments ask    *)
(* for, and what rules and policy alone say of it.                         *)
(***************************************************************************)
EXTENDS SessionStore

CONSTANTS Clients, Calls

VARIABLES session,   \* by client: the directives of its calls so far
          log,       \* by client: its calls, with the decision on each
          executed   \* by client: which of them were executed

centralVars == << session, log, executed >>

(* Mutant: the context comes back as it was sent.                          *)
UpdatedEchoed(context, c) == context

Updated(context, c) == RememberAll(context, c.directed)

(* A tool that an untrusted text asked for needs approval, if nothing      *)
(* stronger was decided.                                                   *)
Decision(context, c) ==
  IF Contains(Updated(context, c), c.tool) /\ c.preliminary \in {"allow", "log_only"}
    THEN "require_approval"
    ELSE c.preliminary

should_execute(decision) == decision \in {"allow", "log_only"}
-----------------------------------------------------------------------------
CentralInit ==
  /\ session = [client \in Clients |-> << >>]
  /\ log = [client \in Clients |-> << >>]
  /\ executed = [client \in Clients |-> {}]

Decide(client, c) ==
  /\ session' = [session EXCEPT ![client] = Updated(@, c)]
  /\ log' = [log EXCEPT ![client] =
               Append(@, [call |-> c, decision |-> Decision(session[client], c)])]
  /\ UNCHANGED executed

Execute(client) ==
  \E n \in DOMAIN log[client] \ executed[client] :
    /\ should_execute(log[client][n].decision)
    /\ executed' = [executed EXCEPT ![client] = @ \cup {n}]
    /\ UNCHANGED << session, log >>

CentralNext ==
  \E client \in Clients : Execute(client) \/ \E c \in Calls : Decide(client, c)

CentralSpec == CentralInit /\ [][CentralNext]_centralVars
=============================================================================
