# Orthus, verified: from the text of a request to the state of a session

Orthus is a firewall for the tool calls of an AI agent. A request (text, a tool
call, an actor, a session context) runs through a normalizer, a rules engine
with structural validators, a policy engine and a decision engine; then CERBER,
the session scorer, weighs the preliminary decision against what the session
has seen, and the pipeline may upgrade what it was about to let through. Every
layer is a deterministic function of its inputs. Two things make the system
hard:

- the **session context**: some forty fields of counters and bounded lists,
  which the engine does not keep. They travel with each call and come back
  changed. A verdict depends on the whole sequence of calls, of several actors
  and servers, in any order, and on what every client does with the context;
- the **layers of evidence**: a text is cleaned, decoded for a few rounds and
  cleaned again, in fixed orders; several scans find overlapping matches; rules
  and policy speak at several levels. At each of these joints something that
  was found can be lost.

These modules model the decision path, the session state and the clients, check
them with TLC on small instances, and prove with TLAPS what matters most for
every instance.

## 1. The parts of the system

| Component | State | Operations | Interacts with |
|---|---|---|---|
| Normalizer (`api/engine/normalizer`) | the text in work, findings, flags | clean, decode in rounds, clean, annotate | gives texts, findings and flags to the rules |
| Rules engine (`rules/engine.py`) | the loaded packs | `scan`, `scan_tool_call`, `_dedupe_and_rank` | matches to the decision engine and, by rule id, to CERBER |
| Validators (`rules/validators.py`) | none | one per structural rule | called by `scan_tool_call` |
| Policy engine (`policy/`) | the policies of the tools | `evaluate`, `eval_condition` | its answer goes to the decision engine |
| Decision engine (`decision/engine.py`) | none | `decide` | preliminary decision to CERBER |
| CERBER (`cerber/scorer.py`) | `SessionContext` | `score`, with its detectors | trajectory risk and codes to the pipeline |
| Pipeline (`pipeline/engine.py`) | none of its own | `_run_pipeline` | calls all of the above in order |
| Server (`server/app.py`), SDK integrations, examples | none, or one captured context | guard a call, act on the answer | carry the session context between calls |

Within one request nothing is concurrent. Across requests the order is the
environment's: calls of several actors interleave in one session, several
clients call one engine, requests and answers overtake one another, results
come late or from another server, cancellations cross results, lists fill up,
and some clients never pass an update on.

What makes each component correct:

- **Normalizer:** every layer the rounds can reach is found, once, and a command
  comes to light whenever its layers and disguises allow it.
- **Rules and decision:** no evidence is lost between the raw matches and the
  decision; rules and policy never overrule one another downwards; more evidence
  never weakens the outcome.
- **Validators:** a sign of danger pulls one way, a sign of trust the other; a
  result is held against its own request.
- **Policy:** no clause that applies is overruled; leaving a value out never
  makes the policy stricter (conditions fail open).
- **Session risk:** a detector that fires is never waved through; an allowed
  action never has an elevated risk; a session recovers once the agent is calm.
- **Session memory and detectors:** what is flagged is what one would read off
  the whole trail of calls, as far as the short lists reach, and the
  reported codes mean what they say.
- **Clients:** to clients that pass the context on, an engine without sessions
  is as good as one with them; every call is settled.

## 2. The modules

```
SessionLists
  |-- DecisionEngine
  |     |-- Evidence <----------------- RulesEngine
  |     |     |-- EvidenceScan <----.       |
  |     |     '-- RequestScan       |       |
  |     |           ^- Normalizer,  |       |
  |     |              ActionValidators     |
  |     |-- PolicyEngine -----------'       |
  |     '-- TrajectoryUpgrade <- SessionRisk|
  |           |-- FirewallPipeline <--------'
  |           |-- SessionMemory ------------.
  |           '-- CerberScorer              v
  |                 '------------------> CerberTrail
  |                 ^- McpTraceBinding, McpLifecycle, ProbeCounters,
  |                    IntentLock, TaintTrail, HijackChain (INSTANCE)
  |
  '-- SessionStore <- McpTraceBinding <- McpTraceLedger
        |          <- McpLifecycle, ProbeCounters, IntentLock, TaintTrail
        |          <- CentralSession
        '-- SessionClients           (implements CentralSession)
HijackMonitor <- HijackChain <- HijackHistory
```

*Lists.* `SessionLists`: `BoundedAppend` (`_bounded_append`) and `Dedupe`.
`SessionStore`: how the detectors use them; a list remembers the last
`SESSION_LIST_LIMIT` different values it was given.

*From a text to the preliminary decision.*
- `Normalizer`: `normalize_text` step by step: the cleaners before, the rounds
  with their twelve decode steps, the cleaners after, the findings with their
  confidence, the annotations.
- `ActionValidators`: 37 validators of `scan_tool_call_validators`, as a table
  from the traits of a call to matches.
- `RulesEngine`: `DedupeAndRank` and the pipeline's `MergeMatches`.
- `PolicyEngine`: `evaluate` and `eval_condition`, clause by clause, in order.
- `DecisionEngine`: `Decide`, the cascade block / approval / log / allow, the
  evidence's risk and the capped reason codes.
- `Evidence`: from the raw matches of a text and of a call to the decision on
  them, and how a single match votes.
- `RequestScan` composes normalizer, four rules of the pack
  `prompt_injection`, validators and `Evidence`: one request from its text to
  the preliminary decision.
- `EvidenceScan` is the two scan loops on their own, one try per step, with any
  matches: a try appends its match or nothing, so that a step compares the
  decisions with and without one match; the policy answers beside them.

*The session.*
- `SessionRisk`: the arithmetic of `score`: counters, remembered codes, instant
  and rolling risk, trend, reported codes.
- `TrajectoryUpgrade`: one call of `_run_pipeline` from the preliminary decision
  on. `FirewallPipeline`: the same from the raw matches on.
- `SessionMemory`: `TrajectoryUpgrade` beside the trail of all calls.
- `HijackMonitor`, `HijackChain`, `HijackHistory`: the promise, the code's
  four-field automaton, and the automaton beside the log of all calls.
- `McpTraceBinding`, `McpTraceLedger`: the three lists of request signatures and
  the flags of a trace, and an observer who never forgets.
- `McpLifecycle` (subscriptions and initializations), `ProbeCounters` (card and
  oracle probes), `IntentLock` (trusted intents, scopes, directives),
  `TaintTrail` (memory keys, evidence, delegations, artifacts, markers): the
  other detectors, each with its variables, its step and its flags.
- `CerberScorer`: the whole of `CERBERScorer.score`: all detectors on one call,
  their flags weighed by `SessionRisk` and upgraded by the pipeline.
- `CerberTrail`: `CerberScorer` beside the trail of `SessionMemory` and the
  alarms of its calls.

*The clients.*
- `CentralSession`: what passing the context on is for, an engine that keeps one
  session per client. `SessionClients`: the engine as it is, with requests and
  answers on the way and four kinds of client: one that loops (`docs/API.md`,
  the demos), one that has several calls on the way, a guarded tool
  (`integrations/anthropic.py`, `examples/`), a pre-tool hook
  (`integrations/github_copilot.py`).

`MC*` are the instances TLC checks, `*Proofs` the theorems. State is named as in
`cerber/models.py` (`rolling_risk_score`, `mcp_chain_stage`,
`pending_mcp_request_signatures`, ...); an action is the whole handler:
`ScoreCall` is one pass of `score` and the upgrade, `BindTrace` one pass of the
binding with filing, cancelling and binding in the code's order,
`ValidateAction` one request of the server. Small variants of some definitions
are kept beside them and marked as mutants; each breaks a property.

### What is abstracted

- *Texts* are a core of words under layers of encoding, with marks for the
  disguises the words wear and a context for the words around them. A cleaner
  removes a mark, a decoder a layer. Concatenation and UTF-7 occur innermost
  only, short cores under at most one layer, marks on commands only, not
  together with concatenation, and `joined` not with `split`: outside of these
  the regular expressions depend on the very characters. A text of one encoding
  is not by accident one of another as well, as a text of hexadecimal digits may
  be base64. The exception is the one built in: the segments of a
  `segmented_base64` are base64 tokens themselves
  (`decode_base64_tokens`, `decoders.py:316-348`). There are two segments, the
  first ends within the second word of the core, and `pieces` are those that
  decode by themselves to a printable half; so `DecodeSteps` has a row for each
  of the twelve decode steps and one more for each segment.
- *Tool calls* of `ActionValidators` are a tool and a set of traits, each the
  name of one argument with the value that matters. A call's arguments are not
  also scanned as text; the text of a request with a call is plain prose.
  `EvidencePullsOneWay` speaks of these values. Where the code looks for a word
  within another the model does so if the values can meet: "trusted" is found in
  "untrusted" (`approval_marked`, `validators.py:611`). What free text may hold
  by accident besides is left out. A tool scope may name a tool with `_` for `.`
  and `/` (`scope_underscored`).
- *Matches* in `EvidenceScan` and `FirewallPipeline` are the environment's
  choice. `PacksConsistent` is what the shipped packs and validators keep to:
  of two matches of one rule the riskier votes at least as strongly, a soft rule
  is no stronger than its base (`Consistent`), validators and packs share no
  rule id. Rule ids
  are numbers in alphabetical order, which only the ranking of equal risks reads.
- `MergeMatches` lists a rule at the place it first has, as the dictionary in
  the pipeline does; only the order of the codes depends on it.
- *Policies*: a value is a number, a set of the text parts that matter, a list,
  or null. `log: true` counts only beside `risk: low` (`policy/engine.py:164`).
  What conditions do to missing and ill-typed values is modelled as it is:
  a condition on `session.risk`, which the context does not have, never
  holds, and `args.timeout == null` is false when there is no timeout.
- *Rules on overrides*: the soft rule's suppression lacks "test case", so an
  example command is still logged, and the rule on talk of security logs
  anything that calls itself documentation. `CommandBlocked` says exactly that.
- *Detectors*: a text that asks for tools is the list of these tools, a result
  or sink the set of its markers. A trace signature is a record; the prefix
  tests on its string are `HasId` and `HasKey`, with the peculiarity that the
  key lacks the tool, so that a streamed request matches no key. The expiry of a
  payment and the fragment of a query are sequences of parts: both end a prefix
  test without a delimiter (`scorer.py:720,858`), which is `IsPrefix`. The names
  of `IntentLock` come with their form with `_` for `.` and `/` (`Underscored`). In
  `TrajectoryUpgrade` alone the detectors are a set of flags.
- *Clients*: of the session, the model of the clients keeps one list
  (`recent_untrusted_plan_directives`); what the other detectors make of a
  context is the matter of `CerberTrail`.
- Values cut at 200 characters, latency, routes, wording and logging are left
  out. Risks are integers: 10000 is 1.0 for the rolling risk, which the code
  rounds to four decimals, 12000 for the instant risk. Only on the two trend
  thresholds, where the binary fractions decide, does the model allow both
  answers.

## 3. The runs

| Run | Instance | Shows |
|---|---|---|
| `pipeline` | six requests, eight calls, memory of 3 | `TypeOK`, `SignalEscalates`, `NoAllowAboveThreshold`, `CalmRecovers`, `CalmNeverRaises` hold from the raw matches to the result |
| `evidence` | ten tries, eighteen requests to the policy | `NoVoteLost`, `NoClauseOverruled`, `MissingNeverStricter`, `MoreEvidenceNeverWeakens` for every subset of the matches |
| `scan` | texts under up to four layers, some fifteen thousand calls | `FoundOnceAndInTime`, `CommandBlocked`, `EvidencePullsOneWay`, `ForeignResultBlocked` |
| `memory` | trails of six calls, memory of 4 | `RepeatedBlocksReported`, `SensitiveSequenceReported`, `MemoryHoldsNewest` |
| `hijack_history` | two actors, two resources, logs of six, life 2 | `TypeOK`; `HitExactlyWhenChained`: the four fields lose nothing of the log; `ImplementsMonitor` |
| `trace` | fourteen traces, two ids, two servers, lists of 2 | `TypeOK`, `BoundToRequest`, `NoFalseAlarm`, `LateResultFlagged` |
| `cerber` | ten themes, sessions of five calls, lists of 3 | thirteen properties of the detectors against the whole trail |
| `clients` | a looping client beside one of each kind | `HeldOnlyForOwn`, `AloneNeverLost`, `ImplementsCentral`, `EveryCallSettled` |
| `evidence_codes`, `memory_full`, `hijack_comment`, `trace_late` | see section 5 | violated by what the code does |

### The bounds

- `pipeline`, `MaxCalls = 8`: the counters saturate at three and the velocity at
  eight, so the score reaches every weight; a recovery takes three calls.
- `evidence`: a soft rule and its base, a rule found in several fields with
  several risks, a validator of each strength, and policies with every clause.
- `scan`: two layers of all twelve encodings meet every order of two steps;
  three and four layers of four encodings go beyond the two rounds; up to two
  marks under at most one layer meet every order of two cleaners. Segments that
  decode by themselves, one, both or none, are met alone and beside one or two
  more layers. The calls are
  every set of up to three of the traits of an action, all sets of those of a
  boundary, every combination of identities, and batches of up to three
  operations. Nothing in a request interacts with another request.
- `memory`: six calls hold two blocks, their decay and two again.
- `hijack_history`: with a life of 2 instead of 8, six calls let a chain expire,
  rest exactly its life, be prolonged by a repeated takeover, and restart.
- `trace`: three requests overflow a list of 2 (10 in the code). It has no bound
  on the calls.
- `cerber`: a session draws from one of ten themes, the calls whose detectors
  share state. With lists of 3 instead of 10 five calls fill one and push a
  value out; a life of 2 instead of 10 lets an intent expire; two variants
  instead of five and three complete a probe, decay and complete it again, with
  an expiry and a fragment that others begin with among them. The scopes name
  tools in either form. One
  theme files and cancels two requests and answers the first, so that a late
  result can find the other one pending, or canceled as well. The hijack chain is
  not drawn: `hijack_history` has it.
- `clients`: the looping client makes two calls, the other three, at most two at
  once: enough for a context to be read before another is taken over, lost, and
  missed later. Lists of 2.
- `MaxReasonCodes` is 10, and all weights and thresholds are the code's.

### Fairness

Only `clients` assumes any: the engine answers the requests it has (weak
fairness of "some request is answered") and the answers arrive (weak fairness of
"some answer is received"). The server's handler is a function that returns for
every request (`server/app.py:62`), and the clients wait for its answer before
they go on. No client need send anything, and no user need approve. A call is
bounded by `MaxCalls`, so that each request is reached in the end.

The other runs state what happens *if* calls come. Deadlock checking is off
because every model has a bound on its calls or ends its work; the ledger of the
`trace` run goes on for ever.

## 4. The properties

- `SignalEscalates`: every detector but the chain puts a floor under the risk,
  of 0.76 for a version regression and a capability stripping
  (`scorer.py:937-939`) and of 0.78 or more for the others, which the 0.75
  threshold of the upgrade then meets, whatever the preliminary decision.
- `CalmRecovers`, `CalmNeverRaises`: the smoothing forgets fast enough, and what
  is remembered weighs at most 0.65. Both speak of calls on which no detector
  fires; `PlainCallHeldByOracleOnly` says which detector may still fire on them.
- `RepeatedBlocksReported`, `SensitiveSequenceReported`: the exact meaning of
  counters that go up and down and stop at zero: two blocks more than other
  calls, over some stretch up to now.
- `HitExactlyWhenChained`: both directions, against a definition without stages.
- `BoundToRequest`, `NoFalseAlarm`, `LateResultFlagged`: about the *next* trace,
  whichever comes. The last two hold as long as no list has dropped an entry,
  and the ledger records when one has.
- Of `cerber`: flagged exactly when the trail says so (`FloodExactly`,
  `AmplificationNeedsSeed`, `ApprovalBoundToEvent`, `ScopeBindsUntilReplaced`,
  `PoisonFollowsMarkers`); flagged only for what was given and always while it
  is in reach of the list (`NotifyAfterUnsubscribeCaught`, `DirectedToolCaught`,
  `ExfiltrationCaught`, `WrittenThenRunCaught`, `ProbesCaught`); never silent
  (`DowngradeNeverSilent`, `LateMarkerRecognised`). The last one tells from the
  trail alone that a result comes late: its request was filed, not settled and
  not pushed out when it was canceled, and none was filed since. `ProbesCaught`
  is about profiles that *begin with* that of a probe, for so the code counts:
  enough different ones within the list raise the alarm, and there is none
  unless some probe had enough. `ScopeBindsUntilReplaced` lets a tool pass under
  its own and under its normalized name.
- `NoVoteLost`, `NoClauseOverruled`, `MoreEvidenceNeverWeakens`: the decision
  against each raw match and each clause, with all joints in between.
- `FoundOnceAndInTime`: the rounds, told without rounds, by comparing the places
  of neighbouring layers among the decode steps; each layer that is reached is
  found as a whole, a segmented one in its segments, too, and nothing else is.
  `CommandBlocked`: which disguised
  commands are blocked, which are logged, and that nothing else is held back.
- `EvidencePullsOneWay`: against the call with one sign of danger or of trust
  more. It has one exception, `CompletesApproval`: an approval of a physical
  action counts once "trusted" is in the metadata, so labelling its evidence
  "untrusted" makes it count (`validators.py:611`) and can turn a block into
  nothing.
- `ImplementsCentral`: `SessionClients` implements `CentralSession` for its
  looping clients, with the session read off the context or the answer on its
  way. `AloneNeverLost` says what a client with parallel calls may lose: only
  what overlapped. `HeldOnlyForOwn` says what guards and hooks, which keep
  sending the context they were made with, never see.

## 5. Where the code disagrees with its documentation

1. `evidence_codes`: with nine or more codes from rules, the policy's two codes
   take the place of a rule's, for the list is cut at ten
   (`decision/engine.py:29`); `docs/REASON_CODES.md` says they should not.
2. `memory_full`: a security code that is remembered keeps its old place; once
   the memory is full, raising it together with new codes makes the call that
   raises it forget it (`cerber/scorer.py:464`).
3. `hijack_comment`: the chain hits without the completed handshake its comment
   lists (`cerber/scorer.py:558`).
4. `trace_late`: a cancellation that is a call to `mcp.request/cancel`, sent
   twice, files the canceled request again, and the late result passes
   (`cerber/scorer.py:585`).

For two hazards no text of the repository says what should happen, and no
property takes a side: a second result for an answered request passes (`scorer.py:626`;
`BoundToRequest` allows it), and the result of a streamed request is never bound
(`scorer.py:568`; `NoFalseAlarm` leaves streams out). Nor does a text speak of
the approval that the label "untrusted" completes (section 4), or of a probe that
counts the variants of longer expiries and fragments: the properties say what
the code does there.

## 6. What is proved

The theorems hold for every value of the constants that the modules' `ASSUME`s
allow: any calls whose risk is a percentage, and 0 when they are allowed, and
whose reason codes are different ones, as the decision engine's are (`IsCall`);
limits that are positive numbers; a life of the chain and of an intent in `Nat`;
any matches as long as `PacksConsistent`; any policies of the form `IsPolicy`;
any catalogue of calls of the form `IsTrailCall` (a call carries one trace and
makes one initialization at most, with one version or none, and tries one payment
and one query at most; it leads out in the two ways there are); clients of the
four kinds; any payloads of the form `IsPayload`, which is section 2's account of
texts, and one decoding round or more; any tool calls that are records of the
parts the validators read (`IsToolCall`), with delays in `Nat`. `PackAssumption`
fixes the numbers of the modelled rules and says which of them is soft. TLC
evaluates every one of these assumptions in some run.

**Session risk** (`CerberTrailProofs`, first part). The properties are not inductive:
that the third calm call is let through depends on what the two before left of
the risk. The invariant is `RiskOK == TypeOK /\ CalmDecay /\ Outcome`.
`CalmDecay` says how far the smoothing has brought the risk down: to 8600 after
one calm call, 7760 after two, 7256 after three, which is below the 7500 of the
upgrade; `Outcome` ties the last result to the last preliminary decision and the
risk. From it follow `TypeCorrect`, `Escalates`, `AllowIsLowRisk`, `Recovers`
and, as an action property, `CalmLowers`.

**Session memory** (`CerberTrailProofs`, second part). `BlocksReported` and
`SensitiveReported` say what a counter means that goes up by one and down by
one, but not below zero: it is the largest *lead* that the calls of its kind have
over the others, over any stretch up to now, or zero. That is `CountersOK`, and
it is inductive because one more call adds the same to every lead and begins one
of its own. `NewestHeld`, an action property, needs of the past only that
nothing of low impact is remembered (`MemoryOK`). Both invariants ask of a call
no more than what the risk reads of it, so they hold as well with all detectors
beside them: `WholeScorerCounts` says all three properties of the sessions of
`CerberTrail`.

**Hijack chain** (`HijackChainProofs`). `TypeCorrect`, and `Implements`: every
step of the automaton is a step of `HijackMonitor` under the refinement mapping
that reads the monitor's watch off stage, actor and resource. `HitsAreExact` is
the other direction, too: a hit is reported exactly when the log shows a chain.
Its invariant `KeepsTrack` says which handshake of the log the four fields stand
for: the last one, while it is alive, with its actor, its resource, whether it
was taken over, and the calls since it last moved; and that an idle automaton
means that the last one is dead.

**Bounded lists** (`SessionStoreProofs`). `BoundedAppendDistinct`: a list stays
free of repetitions, within its limit, with the new value last; `Without`, which
removes one occurrence, is the code's comprehension for that reason. `GivenAll`
says what such a list still knows of *all* the values it was ever given, one,
several or none by each call (`Tells`): nothing else is on it, it is in the
order in which the values were last given, and all values given from some call
on are still there unless they are more than the list holds. The order is what
makes this inductive: the value dropped is the first, and if it was given since
a call then so were all the others. The folds over the values of a call and over
a list that is filtered (`RememberAll`, `Those`) are reasoned about by an
invariant of the folding function at every length, an induction over a number
and not over the data.

**Detectors against the trail** (`CerberTrailProofs`, the rest). For each detector the
invariant relates what the session keeps to the whole trail: the seed to the
amplified subscriptions not yet answered for, the scope to the last call that
gave one, event and age to the last trusted intent, the poisoned keys to whether
a key was ever poisoned, the version and the capabilities to every earlier
initialization, and the lists by `Tells`. The probe counters need no more than
that (`ProbesOK`): while a counter is above zero, enough different variants were
tried of profiles that begin with that of some probe. A step adds one call to the trail, and the flag of the
call is then what the property says.

A second invariant, `ScorerOK`, puts the detectors and the risk together: the
flags they raise are flags `SessionRisk` knows, so that `RiskOK` holds of the
real sessions as it does of any flags (`WholeScorer`). On a plain call only the
oracle count speaks, and it stays what it is (`PlainFlags`); so the plain calls
at the end of a trail are either all calm or all flagged by the oracle count
alone (`PlainOK`), and three calm ones recover: `OracleAloneHolds`.

`LateIsRecognised` follows a marker through two mechanisms, each with a part of
the invariant of its own. The lists of requests do drop entries here, so
`PendingKept` says of a request what `Tells` says of a value: filed and not
settled, it is still pending unless more than the limit were filed since, where
filing again counts once and settling only makes room. `CanceledKept` takes over
at the cancellation: the request is then on the canceled list with all its key
gone from the pending ones (`HeldBack`), and stays so while nothing is filed,
since whatever a later cancellation adds was itself pending, and pending and
canceled together fit the limit. A result for it is therefore unbound and foreign
(`LateIsForeign`), and `ViolationsOK` says that the markers of foreign results,
and of late ones all, are what the list of violation markers was given. With it
all thirteen properties of `cerber` are theorems, for sessions of any length.

**Results and requests** (`McpTraceLedgerProofs`). `LedgerOK` compares the three
lists with the observer who never forgets: what is on the list of pending
requests is outstanding, what is on the list of completed ones was answered; as
long as nothing was dropped, whatever is outstanding or canceled is on its list;
and no call is both canceled and pending. `ResultsAreBound`, `AnswersPass` and
`LateIsNoticed` follow for the next trace, whichever comes, and `TypeCorrect`
bounds the lists. The three rest on the hypothesis `PlainCancellations`: no
cancellation files a request as well, and none is of a stream. The run
`trace_late` shows what becomes of `LateResultFlagged` without the first half; a
cancellation of a stream names a key that no request has. The traces of the run
`trace` satisfy it.

**Rules and decision** (`EvidenceProofs`, `EvidenceScanProofs`). The ranking and
the merge say of every entry at which place it ends up, and the first lemmas
show that these places are exactly `1..n` for lists of any length, so that
nothing falls between two of them. `VotesKept` rests on a relation that every
joint preserves: a match is *outdone* by one that is at least as risky and votes
at least as strongly. Deduplication keeps one of the same rule that outdoes it,
a suppressed soft rule is outdone by its base, a merged entry by itself; and the
verdict is allow, the policy's answer or the vote of some match.
`MoreEvidenceHolds` compares the two decisions of one step. `ClausesHold` needs
to know where a decision comes from, the invariant `Provenance`;
`MissingFailsOpen` that a call that leaves values out meets fewer clauses. What
the joints do to any lists of matches is in `EvidenceProofs`, for `RequestScan`
needs it, too.

**A request** (`RequestScanProofs`). The invariant `RequestOK` says how far
the text is (`NormalizerOK`), and that what was decided is what the normalized
text and the call say (`DecisionFor`).

- *The rounds.* `NormalizerOK` says of the text in work that the first `k` layers
  are off and the findings are those of the layers `1..m`, where `m` is `k`, or
  `k + 1` if the next layer is one that is only reported (`Peeled`). The rounds
  would find a reported layer again in each round: `Known` keeps it out, since
  the lengths of what is left tell the layers apart (`MetAgain`). What the
  property compares is in `InTime`: the step of the next layer is still to come
  in this round if `RoundOf` puts it there, or in the next, which there is as
  long as this one has changed the text and `MaxDecodeRounds` is not reached.
  When the rounds end, a layer that remains is beyond them (`Exhausted`), and so
  `EveryLayerIsFoundOnce`, whatever the number of layers and rounds. Of a
  segmented layer the segments whose steps have passed are found, too
  (`PiecesInTime`, `PiecesFound`); that nothing is found twice is a bijection
  from the findings to the layers and segments they are of (`SameNumber`).
- *The decision.* The matches that scan and validators can give agree with one
  another (`PossibleAgreed`), hence the decision is the strongest vote of what is
  heard and hit (`Deciding`), through deduplication, suppression and merge.
- *The command.* What the cleaners leave of the marks is computed in their order
  (`LiftedMarks`) and compared with `Lifted`; a text whose layers are all off,
  a finding of the innermost layer and the skeleton of a mixed text are the
  three places where a command is shown (`CommandShown`). `CommandsAreBlocked`
  is then the strongest vote of what is heard.
- *The calls.* `Endangers(d, c)` says that `d` has all signs of danger of `c`, no
  sign of trust that `c` lacks, and operations on all resources that those of `c`
  are on, as close together; each validator that hits `c` then hits `d`
  (`HitsKept`). That an operation less never makes a delay short rests on
  `ShortDelay`: the shortest delay is short exactly when one of them is.
  `EvidenceIsMonotone` follows. `Endangers` asks one thing more, which does not
  follow from the traits: that a physical action badly approved in `c` is so in
  `d`. It fails for the label that completes an approval, and for it alone; `ForeignResultsAreBlocked` needs that an identity
  that differs is told whatever arguments repeat it (`ForeignBlocks`), and that
  nothing tells against a result that agrees in all (`AgreeingHits`).

**Clients** (`SessionClientsProofs`). `Refines`: `SessionClients` implements
`CentralSession`. The invariant `IInv == LogsOK /\ WayOK /\ LoopOK` says that a
looping client has at most one request or answer on the way, that this carries
the very session the central engine would have, and that its log has at most one
call pending. Other clients only ever stutter for it. `HeldForOwn` rests on
`OwnOK`: a context, wherever it is, holds only what its own client was told in
calls up to then, and for guards and hooks nothing at all. `AloneIsKept` rests on
`WaitOK` and `KeptOK`: a call that overlaps with no other is the only one that is
pending, so that its answer is taken over before another context is read; from
then on every context of that client carries what it was told, as long as the
list has room.

## 7. What is only model-checked

Every invariant and every action property of the passing runs is a theorem, and
so are the two refinements. What is left to TLC:

- `EveryCallSettled` is liveness under fairness, out of the prover's reach.
- The four violations of section 5.

## 8. Not modelled

- *Reason codes* (`reason_codes.py`): a list of constants.
- *Rule packs and loaders*: reading YAML files; the packs themselves are data of
  which four rules of one pack are modelled in `RequestScan`, and of which
  `PacksConsistent` says what the rest relies on.
- *Other validators*: `ActionValidators` covers those that combine several
  arguments, or an argument with its context. What is left are pattern tests on
  a single text or argument, with no state and no second piece to agree with.
- *The corpus runner* (`evals/run_corpus.py`): offline measurement.
- *Server*: health check, routes, measuring of latency; *integrations*: the
  unpacking of the SDKs' arguments; *examples*: scenarios and printing.
- *Characters*: what a regular expression matches, Unicode tables and the
  arithmetic of the decoders. A cleaner or decoder is modelled by which
  disguise or layer it takes away, and when it is run.

## 9. Running

```
tlc -workers 2 -config MCSessionClients.cfg MCSessionClients
tlapm CerberTrailProofs.tla
```

A `.cfg` belongs to the module of its name, but for four second
configurations: `MCEvidenceScanCodes.cfg` (module `MCEvidenceScan`),
`MCSessionMemoryFull.cfg` (`MCSessionMemory`), `MCHijackComment.cfg`
(`MCHijackHistory`) and `MCMcpTraceLate.cfg` (`MCMcpTraceLedger`). The longest
run, `clients`, takes about a minute, most take seconds; a proof module takes
between some seconds and a few minutes.
