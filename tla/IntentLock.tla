----------------------------- MODULE IntentLock -----------------------------
(***************************************************************************)
(* Trusted intents and untrusted plans in CERBERScorer.score: which event  *)
(* the user last approved an action for, to which tools that approval      *)
(* confined the session, and which tools the text of untrusted sources has *)
(* asked for.  The intent's action and expected kind are kept by the code  *)
(* and read nowhere; they are left out.                                    *)
(***************************************************************************)
EXTENDS SessionStore

CONSTANTS SideEffectingTools,   \* the tools whose names say they change something
          ConfinedTools,        \* those, and the ones whose names sound privileged
          GoalTools,            \* the tools whose names stand for a changed goal
          Underscored,          \* the names with a dot or a slash, each with "_" for it
          INTENT_LIFE           \* the calls a trusted intent is kept for (10)

ASSUME IntentLifeAssumption == INTENT_LIFE \in Nat
ASSUME ConfinedToolsAssumption ==
  SideEffectingTools \subseteq ConfinedTools /\ None \notin ConfinedTools

VARIABLES last_trusted_intent_event_id, trusted_intent_age_steps,
          current_allowed_tool_scope, recent_untrusted_plan_directives,
          recent_cross_protocol_directives

intentVars == << last_trusted_intent_event_id, trusted_intent_age_steps,
                 current_allowed_tool_scope, recent_untrusted_plan_directives,
                 recent_cross_protocol_directives >>

IsSideEffecting(tool) == tool \in SideEffectingTools

GivesIntent(c) == c.trusted /\ c.event # None

ExpiresNever == FALSE   \* mutant: an intent lasts

Expires == trusted_intent_age_steps + 1 > INTENT_LIFE

IntentStep(c) ==
  /\ last_trusted_intent_event_id' =
       IF GivesIntent(c) THEN c.event
       ELSE IF Expires THEN None ELSE last_trusted_intent_event_id
  /\ trusted_intent_age_steps' =
       IF GivesIntent(c) \/ Expires THEN 0 ELSE trusted_intent_age_steps + 1
  /\ current_allowed_tool_scope' =
       IF c.trusted /\ c.scope # << >> THEN LastN(c.scope, SESSION_LIST_LIMIT)
                                       ELSE current_allowed_tool_scope
  /\ recent_untrusted_plan_directives' =
       RememberAll(recent_untrusted_plan_directives, c.directed)
  /\ recent_cross_protocol_directives' =
       RememberAll(recent_cross_protocol_directives, c.bridged)

(* An approval for one event is used for another: the call says so, or the *)
(* prior approval it relies on was for another.                            *)
CrossesEvents(c) ==
  /\ IsSideEffecting(c.tool)
  /\ c.event # None
  /\ \/ c.approved \notin {None, c.event}
     \/ c.uses_prior /\ last_trusted_intent_event_id' \notin {None, c.event}

NormalizedName(tool) == IF tool \in DOMAIN Underscored THEN Underscored[tool] ELSE tool

(* A scope may name a tool as it is called, or with "_" for "." and "/".   *)
Allowed(tool, scope) == Contains(scope, tool) \/ Contains(scope, NormalizedName(tool))

LeavesScopeIfTrusted(c) ==   \* mutant: only the call that sets the scope is held to it
  /\ c.trusted /\ c.scope # << >>
  /\ ~Allowed(c.tool, c.scope)
  /\ c.tool \in ConfinedTools

LeavesScope(c) ==
  /\ current_allowed_tool_scope' # << >>
  /\ ~Allowed(c.tool, current_allowed_tool_scope')
  /\ c.tool \in ConfinedTools

FollowsDirective(c) ==
  c.tool # None /\ Contains(recent_untrusted_plan_directives', c.tool)

CrossesProtocols(c) ==
  c.tool # None /\ Contains(recent_cross_protocol_directives', c.tool)

IntentFlags(c) ==
  UNION {
    When(CrossesEvents(c), "stale_or_cross_event_action_context"),
    When(LeavesScope(c), "intent_locked_tool_scope_violation"),
    When(FollowsDirective(c), "poisoned_observation_to_action"),
    IF FollowsDirective(c) /\ LeavesScope(c)
      THEN {"premise_injection_tool_steering", "reasoning_unsupported_tool_switch"} ELSE {},
    When(FollowsDirective(c) /\ c.tool \in GoalTools, "goal_hijacking_plan_deviation"),
    When(CrossesProtocols(c), "cross_protocol_semantic_bridge") }

IntentInit ==
  /\ last_trusted_intent_event_id = None
  /\ trusted_intent_age_steps = 0
  /\ current_allowed_tool_scope = << >>
  /\ recent_untrusted_plan_directives = << >>
  /\ recent_cross_protocol_directives = << >>
=============================================================================
