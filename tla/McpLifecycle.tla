---------------------------- MODULE McpLifecycle ----------------------------
(***************************************************************************)
(* The subscription and protocol lifecycle in CERBERScorer.score: partial  *)
(* subscriptions, notifications after an unsubscription, the version and   *)
(* the security capability of successive initializations, and recursive    *)
(* subscriptions after an amplified one.  A version is its major number,   *)
(* None when it has no digits.                                             *)
(***************************************************************************)
EXTENDS SessionStore

CONSTANT PARTIAL_FLOOD   \* how many partially subscribed resources are a flood (3)

ASSUME PartialFloodAssumption == PARTIAL_FLOOD \in 1..SESSION_LIST_LIMIT

VARIABLES recent_partial_subscriptions, recent_unsubscribed_ids,
          last_protocol_version, last_protocol_capabilities_had_security,
          subscription_chain_seed

lifecycleVars == << recent_partial_subscriptions, recent_unsubscribed_ids,
                    last_protocol_version, last_protocol_capabilities_had_security,
                    subscription_chain_seed >>

SubscribesPartially(c) == "partial_subscription" \in c.rules

(* The resource, or the subscription's id where no resource is named.      *)
SubscriptionMarker(c) ==
  [uri |-> c.uri, id |-> IF c.uri = None THEN c.subscription ELSE None]

(* An unsubscription is remembered when its token is a replayed one.       *)
UnsubscribesReplayed(c) ==
  c.unsubscribes /\ c.subscription # None /\ "subscription_token_replay" \in c.rules

Initializes(c) == c.initialize # {}

(* The version of an initialization without a number replaces the last     *)
(* one like any other.                                                     *)
VersionKept(c) ==     \* mutant: the first version of the session stays
  IF last_protocol_version # {} THEN last_protocol_version
  ELSE UNION { init.major : init \in c.initialize }

VersionAfter(c) ==
  IF Initializes(c) THEN UNION { init.major : init \in c.initialize } ELSE last_protocol_version

Regresses(c) ==
  \E now \in UNION { init.major : init \in c.initialize }, before \in last_protocol_version :
    now < before

SecurityAfter(c) ==
  IF Initializes(c) THEN \E init \in c.initialize : init.security
                    ELSE last_protocol_capabilities_had_security

Seeded(c) == subscription_chain_seed \/ "subscription_chain_amplification" \in c.rules

Amplifies(c) == Seeded(c) /\ "recursive_root_subscription" \in c.rules

SeedStays(c) == Seeded(c)   \* mutant: the seed is not used up

SeedAfter(c) == Seeded(c) /\ ~Amplifies(c)

LifecycleStep(c) ==
  /\ recent_partial_subscriptions' =
       RememberIf(SubscribesPartially(c), recent_partial_subscriptions, SubscriptionMarker(c))
  /\ recent_unsubscribed_ids' =
       RememberIf(UnsubscribesReplayed(c), recent_unsubscribed_ids, c.subscription)
  /\ last_protocol_version' = VersionAfter(c)
  /\ last_protocol_capabilities_had_security' = SecurityAfter(c)
  /\ subscription_chain_seed' = SeedAfter(c)

(* Mutant: every call of a flooded session is flagged, and the flood comes *)
(* one resource late.                                                      *)
FloodsLate(c) == Len(recent_partial_subscriptions') > PARTIAL_FLOOD

Floods(c) == SubscribesPartially(c) /\ Len(recent_partial_subscriptions') >= PARTIAL_FLOOD

NotifiesUnsubscribed(c) ==
  c.notifies /\ c.subscription # None /\ Contains(recent_unsubscribed_ids', c.subscription)

LifecycleFlags(c) ==
  UNION {
    When(Floods(c), "partial_subscription_flood"),
    When(NotifiesUnsubscribed(c), "notify_after_unsubscribe"),
    When(Regresses(c), "protocol_version_regression"),
    When(last_protocol_capabilities_had_security /\ ~SecurityAfter(c),
         "security_capability_stripping"),
    When(Amplifies(c), "subscription_chain_amplification") }

LifecycleInit ==
  /\ recent_partial_subscriptions = << >>
  /\ recent_unsubscribed_ids = << >>
  /\ last_protocol_version = {}
  /\ last_protocol_capabilities_had_security = FALSE
  /\ subscription_chain_seed = FALSE
=============================================================================
