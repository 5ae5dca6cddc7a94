---------------------------- MODULE CerberTrail -----------------------------
(***************************************************************************)
(* The session detectors against the whole trail of calls.  The session    *)
(* keeps short lists, counters and a few last values; the trail keeps      *)
(* every call and what was flagged on it, and the properties say what one  *)
(* would read off the trail.                                               *)
(***************************************************************************)
EXTENDS CerberScorer, SessionMemory

CONSTANT Themes   \* the parts of the catalogue that a session draws its calls from

ASSUME ThemesAssumption == UNION Themes = DOMAIN Catalogue

VARIABLES theme,    \* the part this session draws from
          alarms    \* history: the flags of each call of the trail

trailVars == << scorerVars, theme, trail, alarms >>

TrailInit == ScorerInit /\ theme \in Themes /\ trail = << >> /\ alarms = << >>

TrailNext ==
  /\ Len(trail) < MaxCalls
  /\ \E name \in theme : \E c \in {Catalogue[name]} :
       /\ ScoreCall(c)
       /\ trail' = Append(trail, c)
       /\ alarms' = Append(alarms, fired')
  /\ UNCHANGED theme

TrailSpec == TrailInit /\ [][TrailNext]_trailVars
-----------------------------------------------------------------------------
At(i) == trail[i]

Now == Len(trail)

(* What the calls gave a list from the i-th on.                            *)
Since(Given(_), i) == UNION { Given(At(k)) : k \in i..Now }

(* A value was given, and too few others since to push it out.             *)
InReach(Given(_), value) ==
  \E i \in 1..Now : value \in Given(At(i)) /\ Cardinality(Since(Given, i)) <= SESSION_LIST_LIMIT

(* Flagged only for a value that an earlier call, or this one, gave, and   *)
(* flagged whenever one is still in reach.                                 *)
Traced(flag, Given(_), Sought(_)) ==
  Now > 0 =>
    /\ flag \in fired => Sought(At(Now)) \cap Since(Given, 1) # {}
    /\ (\E value \in Sought(At(Now)) : InReach(Given, value)) => flag \in fired

Part(c, field) == IF c[field] = None THEN {} ELSE {c[field]}
-----------------------------------------------------------------------------
(* A partial subscription is a flood exactly when the session has by then  *)
(* subscribed partially to PARTIAL_FLOOD different resources, however long *)
(* ago the others were.                                                    *)
FloodExactly ==
  LET Given(c) == IF SubscribesPartially(c) THEN {SubscriptionMarker(c)} ELSE {}
  IN  "partial_subscription_flood" \in fired <=>
        /\ Now > 0
        /\ SubscribesPartially(At(Now))
        /\ Cardinality(Since(Given, 1)) >= PARTIAL_FLOOD

(* A notification is flagged if its subscription was ended with a replayed *)
(* token, and only then; subscriptions ended later can push it out.        *)
NotifyAfterUnsubscribeCaught ==
  Traced("notify_after_unsubscribe",
         LAMBDA c : IF UnsubscribesReplayed(c) THEN {c.subscription} ELSE {},
         LAMBDA c : IF c.notifies THEN Part(c, "subscription") ELSE {})

(* A session never ends up on a lower major version, or without security   *)
(* capabilities it had, unless some call on the way was flagged: as long   *)
(* as every version in between had a number.                               *)
DowngradeNeverSilent ==
  Now > 0 =>
    \A new \in At(Now).initialize : \A i \in 1..Now-1 : \A old \in At(i).initialize :
      LET silent(flag) == \A j \in i+1..Now : flag \notin alarms[j]
      IN  /\ silent("protocol_version_regression") =>
               \/ \A x \in old.major, y \in new.major : y >= x
               \/ \E j \in i..Now : \E init \in At(j).initialize : init.major = {}
          /\ silent("security_capability_stripping") => (old.security => new.security)

(* Every amplified subscription answers for one recursive root             *)
(* subscription: between two alarms there is another one.                  *)
AmplificationNeedsSeed ==
  LET seeded(k) == "subscription_chain_amplification" \in At(k).rules
  IN  Now > 0 =>
        ("subscription_chain_amplification" \in fired <=>
           /\ "recursive_root_subscription" \in At(Now).rules
           /\ \E s \in 1..Now :
                /\ seeded(s)
                /\ \A j \in s..Now-1 : "subscription_chain_amplification" \notin alarms[j])

(* Enough different probes on profiles that begin with the last probe's,   *)
(* and no more different ones in between than the list holds, raise the    *)
(* alarm on the probe that completes them; and there is no alarm unless    *)
(* some probe of the session had enough that begin like it.                *)
Probed(flag, Given(_), Same(_, _), enough) ==
  LET Tried(probe, i) == { v \in Since(Given, i) : Same(v, probe) }
  IN  Now > 0 =>
        /\ flag \in fired =>
             \E probe \in Since(Given, 1) : Cardinality(Tried(probe, 1)) >= enough
        /\ (\E probe \in Given(At(Now)), i \in 1..Now :
              /\ Cardinality(Since(Given, i)) <= SESSION_LIST_LIMIT
              /\ Cardinality(Tried(probe, i)) >= enough)
           => flag \in fired

ProbesCaught ==
  /\ Probed("payment_verification_bruteforce",
            LAMBDA c : { p \in c.payment : ~Blank(p) }, SameCard, PAYMENT_VARIANTS)
  /\ Probed("tool_oracle_iteration_risk",
            LAMBDA c : c.oracle, SameFragment, ORACLE_VARIANTS)

(* What the session remembers does not stop a plain call for ever: after   *)
(* three of them in a row the only thing that still holds one for approval *)
(* is the oracle count, which no other tool brings down.                   *)
PlainCallHeldByOracleOnly ==
  /\ Now >= 3
  /\ \A k \in Now-2..Now : At(k) = PlainCall
  /\ Rank(result.decision) >= Rank("require_approval")
  => fired = {"tool_oracle_iteration_risk"}
-----------------------------------------------------------------------------
(* The i-th call is the last that gave a trusted intent.                   *)
LastIntent(i) ==
  /\ GivesIntent(At(i))
  /\ \A k \in i+1..Now : ~GivesIntent(At(k))

(* An action that relies on an approval is flagged exactly when the        *)
(* approval was for another event: as the call says, or as the last        *)
(* trusted intent of the past INTENT_LIFE calls says.                      *)
ApprovalBoundToEvent ==
  Now > 0 =>
    LET c == At(Now)
    IN  "stale_or_cross_event_action_context" \in fired <=>
          /\ c.tool \in SideEffectingTools
          /\ c.event # None
          /\ \/ c.approved \notin {None, c.event}
             \/ /\ c.uses_prior
                /\ \E i \in 1..Now : /\ LastIntent(i)
                                     /\ Now - i <= INTENT_LIFE
                                     /\ At(i).event # c.event

(* The tools a trusted user allowed, under their own or their normalized   *)
(* name, bind the session until the next time tools are allowed, also when *)
(* the intent itself has long expired.                                     *)
ScopeBindsUntilReplaced ==
  Now > 0 =>
    ("intent_locked_tool_scope_violation" \in fired <=>
       /\ At(Now).tool \in ConfinedTools
       /\ \E i \in 1..Now :
            /\ At(i).trusted /\ At(i).scope # << >>
            /\ {At(Now).tool, NormalizedName(At(Now).tool)}
                 \cap ToSet(LastN(At(i).scope, SESSION_LIST_LIMIT)) = {}
            /\ \A k \in i+1..Now : ~(At(k).trusted /\ At(k).scope # << >>))

(* A tool called for by an untrusted text is flagged when it is called, by *)
(* whomever and however much later, while the text is in reach.            *)
DirectedToolCaught ==
  /\ Traced("poisoned_observation_to_action",
            LAMBDA c : ToSet(c.directed), LAMBDA c : Part(c, "tool"))
  /\ Traced("cross_protocol_semantic_bridge",
            LAMBDA c : ToSet(c.bridged), LAMBDA c : Part(c, "tool"))

(* A marker seen in a tool result is recognised when it leaves, whichever  *)
(* way: sent to a public place, put in a link, or drafted for others.      *)
ExfiltrationCaught ==
  /\ Traced("multi_tool_exfiltration_chain",
            LAMBDA c : ToSet(c.result_markers),
            LAMBDA c : IF "public" \in c.sinks \/ Exfiltrates(c) THEN CurrentMarkers(c) ELSE {})
  /\ Traced("cross_tool_scope_leakage",
            LAMBDA c : ToSet(c.result_markers),
            LAMBDA c : IF "draft" \in c.sinks THEN CurrentMarkers(c) ELSE {})

(* A file the session wrote is recognised when it is run or scheduled.     *)
WrittenThenRunCaught ==
  Traced("capability_chain_privilege_escalation",
         LAMBDA c : IF c.writes THEN Part(c, "path") ELSE {},
         LAMBDA c : IF c.runs THEN Part(c, "path") \ ApprovedPaths ELSE {})

(* The requests that a call files; and whether it answers or cancels one.  *)
Files(c) == { Expected(req) : req \in { t \in c.trace : IsPendingTrace(t) } }

Settles(c, sig) ==
  \E t \in c.trace :
    /\ HasKey(sig, t)
    /\ t.request_state = "canceled" \/ (IsResultTrace(t) /\ Observed(t) = sig)

(* The request was filed before the i-th call, with no more others since   *)
(* than the session lists, and none of the calls since has settled it.     *)
Awaited(sig, i) ==
  \E k \in 1..i-1 :
    /\ sig \in Files(At(k))
    /\ \A j \in k..i-1 : ~Settles(At(j), sig)
    /\ Cardinality(UNION { Files(At(j)) : j \in k..i-1 }) <= SESSION_LIST_LIMIT

(* The k-th call brings a result for a request that was canceled while it  *)
(* was awaited, and none was filed since.                                  *)
ComesLate(k) ==
  \E i \in 1..k-1 : \E t \in At(i).trace, late \in At(k).trace :
    /\ t.request_state = "canceled" /\ HasKey(Expected(t), t) /\ Awaited(Expected(t), i)
    /\ \A j \in i+1..k : Files(At(j)) = {}
    /\ IsResultTrace(late) /\ ~SelfContained(late) /\ HasKey(Expected(t), late)

(* A marker that came with a late result taints whoever sends it out in    *)
(* public, while too few others came since to push it out.                 *)
LateMarkerRecognised ==
  Now > 0 /\ "public" \in At(Now).sinks =>
    \A k \in 1..Now :
      /\ ComesLate(k)
      /\ ToSet(At(k).result_markers) \cap CurrentMarkers(At(Now)) # {}
      /\ Cardinality(Since(LAMBDA c : ToSet(c.result_markers), k)) <= SESSION_LIST_LIMIT
      => "mcp_foreign_tool_result_injection" \in fired

(* Once a memory key was poisoned, every marker that leaves is put down to *)
(* it, for the rest of the session; and none is before.                    *)
PoisonFollowsMarkers ==
  Now > 0 =>
    ("stale_memory_to_sensitive_action" \in fired <=>
       /\ At(Now).sinks # {}
       /\ CurrentMarkers(At(Now)) # {}
       /\ \E i \in 1..Now : "memory_directive_poisoning" \in At(i).rules
                            /\ At(i).memory_key # None)
=============================================================================
