----------------------------- MODULE RequestScan -----------------------------
(***************************************************************************)
(* What is read of a request before the session is: its text, normalized   *)
(* and scanned by the rules of the pack prompt_injection, and its tool     *)
(* call, by the validators; and the preliminary decision on both.  The     *)
(* tools of the calls are those no policy speaks of.                       *)
(***************************************************************************)
EXTENDS Normalizer, ActionValidators, Evidence

CONSTANTS Calls,    \* the tool calls of the environment
          Plain     \* the text of a request with a call

ASSUME CallsAssumption ==
  /\ \A c \in Calls : IsToolCall(c)
  /\ Plain \in Payloads
  /\ Plain.layers = << >> /\ Plain.core = "prose" /\ Plain.context = {}

(* That of a request that is a text only.                                  *)
NoCall == [tool |-> "none"]

VARIABLES call,      \* the request's tool call
          decision   \* "none" until the request is decided

vars == << normalizerVars, call, decision >>
-----------------------------------------------------------------------------
(* What a rule of the pack looks for, in which fields, and the words in    *)
(* the normalized text that suppress it.                                   *)
PackRule(rule, severity, hint, risk, words, fields, suppress_if) ==
  [rule |-> rule, severity |-> severity, hint |-> hint, risk |-> risk,
   words |-> words, fields |-> fields, suppress_if |-> suppress_if]

Examples == {"documentation", "test_case", "benchmark"}

(* The rules that read the texts of the payloads, numbered after the       *)
(* validators: disregard_legacy_prompts, ignore_previous,                  *)
(* ignore_previous_soft and meta_security_discussion.                      *)
PackRules == <<
  PackRule(38, "high", "block", 78, "command", {"normalized", "findings.decoded"}, Examples),
  PackRule(39, "high", "block", 85, "command", {"normalized", "findings.decoded"}, Examples),
  PackRule(40, "low", "log_only", 35, "command", {"normalized", "findings.decoded"},
           Examples \ {"test_case"}),
  PackRule(41, "low", "log_only", 25, "documentation", {"normalized"}, {}) >>

(* The soft one is that of ignore_previous; no validator has one.          *)
ASSUME PackAssumption ==
  1..41 \subseteq RuleIds /\ DOMAIN SoftBase \cap (1..41) = {40} /\ SoftBase[40] = 39

TextsOf(field) ==
  CASE field = "normalized"       -> Normalized
    [] field = "findings.decoded" -> { findings[i].decoded : i \in DOMAIN findings }

Says(field, words) ==
  IF words = "command"
    THEN \E t \in TextsOf(field) : contains_suspicious_command_pattern(t)
    ELSE field = "normalized" /\ words \in payload.context

_suppress_match(rule) == \E words \in rule.suppress_if : Says("normalized", words)

MatchIn(rule, field) ==
  IF field \in rule.fields /\ Says(field, rule.words)
    THEN << [rule |-> rule.rule, field |-> field, severity |-> rule.severity,
             hint |-> rule.hint, risk |-> rule.risk, codes |-> << >>] >>
    ELSE << >>

_rule_matches(rule) == MatchIn(rule, "normalized") \o MatchIn(rule, "findings.decoded")

Tried(rule) == IF _suppress_match(rule) THEN << >> ELSE _rule_matches(rule)

(* The matches scan finds, one rule after the other, ...                   *)
Scanned ==
  Tried(PackRules[1]) \o Tried(PackRules[2]) \o Tried(PackRules[3]) \o Tried(PackRules[4])

(* ... and those of scan_tool_call.                                        *)
Validated(c) == IF c = NoCall THEN << >> ELSE ValidatorMatches(c)

DecisionFor(c) == DecisionOn(Scanned, Validated(c), NoPolicy).decision
-----------------------------------------------------------------------------
Init ==
  /\ NormalizerInit
  /\ call \in IF payload = Plain THEN Calls \cup {NoCall} ELSE {NoCall}
  /\ decision = "none"

Normalize == NormalizerNext /\ UNCHANGED << call, decision >>

Conclude ==
  /\ phase = "normalized" /\ decision = "none"
  /\ decision' = DecisionFor(call)
  /\ UNCHANGED << normalizerVars, call >>

Next == Normalize \/ Conclude

Spec == Init /\ [][Next]_vars
-----------------------------------------------------------------------------
Decided == decision # "none"

(* The command of a payload comes to light when every layer over it is     *)
(* taken in time and the cleaners, which run in a fixed order, can lift    *)
(* its marks: after a layer only those that run a second time do; or when  *)
(* a finding shows it, as it is beneath its innermost layer.               *)
Lifted(marks, bare) ==
  IF bare
    THEN /\ "control" \notin marks
         /\ "homoglyph" \in marks => marks \cap {"split", "joined"} = {}
    ELSE /\ marks \subseteq {"zero_width", "split", "homoglyph", "struck"}
         /\ "split" \in marks => marks \cap {"homoglyph", "struck"} = {}

ComesToLight(p) ==
  LET n == Len(p.layers)
  IN  /\ p.core = "command"
      /\ \/ n \in FoundLayers(p) /\ p.marks = {}
         \/ /\ \A i \in 1..n : i \in FoundLayers(p) /\ DecodeSteps[StepOf(p.layers[i])].replaces
            /\ Lifted(p.marks, n = 0)

(* A request whose command comes to light is blocked, unless its words say *)
(* it is an example: a "test case" is still logged, and talk of security   *)
(* is logged with or without a command.  Nothing else is held back.        *)
CommandBlocked ==
  Decided /\ call = NoCall =>
    LET shown == ComesToLight(payload)
    IN  decision =
          IF shown /\ payload.context \cap Examples = {} THEN "block"
          ELSE IF \/ "documentation" \in payload.context
                  \/ shown /\ "benchmark" \notin payload.context THEN "log_only"
          ELSE "allow"

(* The one sign of danger that can weaken a decision: the word "untrusted" *)
(* in the metadata of a physical action that has an approval, which counts *)
(* for nothing until the metadata has "trusted" in it.                     *)
CompletesApproval(c, trait) ==
  trait = "untrusted_label" /\ physical_action_without_strong_approval(c) /\ physically_approved(c)

(* One more sign of danger in a call, or one more operation in its batch,  *)
(* never weakens the decision, unless the sign is what its approval lacks; *)
(* and one more sign of trust never makes the decision stricter.           *)
EvidencePullsOneWay ==
  Decided /\ call # NoCall =>
    LET With(trait)   == [call EXCEPT !.traits = @ \cup {trait}]
        Stricter(c)   == Rank(DecisionFor(c)) >= Rank(decision)
    IN  /\ \A trait \in HazardTraits \ call.traits :
             CompletesApproval(call, trait) \/ Stricter(With(trait))
        /\ \A trait \in TrustTraits \ call.traits :
             Rank(DecisionFor(With(trait))) <= Rank(decision)
        /\ \A i \in DOMAIN call.operations :
             Rank(DecisionFor([call EXCEPT !.operations = RemoveAt(@, i)])) <= Rank(decision)

(* A result is held against its request by what the two say of themselves: *)
(* one of another tool, server or connection is blocked whatever the       *)
(* arguments around them say, and one that agrees with its request in      *)
(* every identity, and is all there is, is not held back.                  *)
ForeignResultBlocked ==
  Decided /\ call # NoCall =>
    LET pending  == call.trace.pending
        observed == call.trace.observed
        Foreign(field) ==
          pending[field] # "" /\ observed[field] # "" /\ pending[field] # observed[field]
    IN  /\ (\E field \in {"tool", "server", "connection"} : Foreign(field)) => decision = "block"
        /\ pending = observed /\ "" \notin { pending[field] : field \in Fields }
             /\ call.traits = {} /\ call.operations = << >> => decision = "allow"
=============================================================================
