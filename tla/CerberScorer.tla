---------------------------- MODULE CerberScorer ----------------------------
(***************************************************************************)
(* CERBERScorer.score as a whole: every detector reads the call and its    *)
(* part of the session, their flags are what SessionRisk weighs, and the   *)
(* pipeline upgrades the decision.  A call of the environment is a record  *)
(* of what the detectors see of it; parts a call does not have are None,   *)
(* empty, or FALSE.                                                        *)
(***************************************************************************)
EXTENDS TrajectoryUpgrade, McpTraceBinding, McpLifecycle, ProbeCounters, IntentLock, TaintTrail

CONSTANTS Users, Uris, MCP_CHAIN_TTL_STEPS,
          Catalogue   \* the calls of the environment, by name

VARIABLES mcp_chain_stage, mcp_chain_user_id, mcp_chain_uri, mcp_chain_age_steps,
          mcp_chain_hit,
          call   \* the last call, as the hijack chain sees it

chainVars == << mcp_chain_stage, mcp_chain_user_id, mcp_chain_uri,
                mcp_chain_age_steps, mcp_chain_hit >>

scorerVars == << vars, bindingVars, lifecycleVars, probeVars, intentVars, taintVars,
                 chainVars, call >>

(* A call with nothing to it.                                              *)
PlainCall ==
  [prelim |-> [decision |-> "allow", risk |-> 0, codes |-> << >>], sensitive |-> FALSE,
   rules |-> {}, user |-> None, uri |-> None, completes |-> FALSE, trace |-> {},
   subscription |-> None, unsubscribes |-> FALSE, notifies |-> FALSE, initialize |-> {},
   payment |-> {}, oracle |-> {},
   tool |-> None, trusted |-> FALSE, event |-> None, approved |-> None,
   uses_prior |-> FALSE, scope |-> << >>, directed |-> << >>, bridged |-> << >>,
   memory_key |-> None, reads_memory |-> FALSE, evidence |-> None, delegation |-> None,
   relay |-> None, path |-> None, writes |-> FALSE, runs |-> FALSE, link |-> None,
   markers |-> {}, result_markers |-> << >>, sinks |-> {}]

(* What is asked of a call: it comes with a preliminary decision, the      *)
(* tools its scope or its texts name and the markers of its result are     *)
(* listed, it leads out in two ways at most, it carries one trace, tries   *)
(* one payment and one query at most, the expiry and the fragment in       *)
(* parts, and it makes one initialization at most, with one version or     *)
(* none.                                                                   *)
IsTrailCall(c) ==
  /\ IsCall([prelim |-> c.prelim, sensitive |-> c.sensitive, fired |-> {}])
  /\ {c.scope, c.directed, c.bridged, c.result_markers} \subseteq Seq(STRING)
  /\ c.trace \subseteq Traces /\ \A t, other \in c.trace : t = other
  /\ \A p, q \in c.payment : p = q /\ p.expiry \in Seq(STRING)
  /\ \A p, q \in c.oracle : p = q /\ p.fragment \in Seq(STRING)
  /\ c.sinks \subseteq {"public", "draft"}
  /\ \A init, other \in c.initialize : init = other
  /\ \A init \in c.initialize :
       init.major \subseteq Nat /\ \A v, w \in init.major : v = w

ASSUME CatalogueAssumption == \A name \in DOMAIN Catalogue : IsTrailCall(Catalogue[name])

Chain(c) ==
  [rules |-> c.rules \cap {"partial_handshake", "takeover_pending_subscription",
                           "subscription_state_corruption"},
   user |-> c.user, uri |-> c.uri, completes |-> c.completes]

Hijack == INSTANCE HijackChain WITH Unnamed <- None

(* The trace flags as the binding sets them, before the taint detectors.   *)
TraceFlags(c) == UNION { Binding(t).flags : t \in c.trace }

TraceStep(c) ==
  IF c.trace = {} THEN UNCHANGED bindingVars ELSE \E t \in c.trace : BindTrace(t)

Flags(c) ==
  UNION { When(mcp_chain_hit', "mcp_chain_hit"), TraceFlags(c), LifecycleFlags(c),
          ProbeFlags(c), IntentFlags(c), TaintFlags(c) }

ScoreCall(c) ==
  /\ Hijack!Step(Chain(c))
  /\ TraceStep(c)
  /\ LifecycleStep(c)
  /\ ProbeStep(c)
  /\ IntentStep(c)
  /\ TaintStep(c, TraceFlags(c))
  /\ \E flags \in {Flags(c)} :
       ScoreAndUpgrade([prelim |-> c.prelim, sensitive |-> c.sensitive, fired |-> flags])

ScorerInit ==
  /\ Init
  /\ BindingInit
  /\ LifecycleInit
  /\ ProbeInit
  /\ IntentInit
  /\ TaintInit
  /\ mcp_chain_stage = 0
  /\ mcp_chain_user_id = None
  /\ mcp_chain_uri = None
  /\ mcp_chain_age_steps = 0
  /\ mcp_chain_hit = FALSE
  /\ call = Chain(PlainCall)
=============================================================================
