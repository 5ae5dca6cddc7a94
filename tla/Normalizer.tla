----------------------------- MODULE Normalizer -----------------------------
(***************************************************************************)
(* normalize_text: the text of a request is cleaned, decoded for a few     *)
(* rounds, cleaned again, and what was decoded is reported in findings.    *)
(*                                                                         *)
(* A text is [layers, core, marks, part]: a core of words under layers of  *)
(* encoding, the outermost first; marks are the disguises the core wears,  *)
(* out of a cleaner's reach as long as a layer is over them; part is 0 for *)
(* all of the text, 1 or 2 for half of it.  A payload adds its context,    *)
(* the traits of the words set apart from it, and pieces.  Each layer      *)
(* decodes to printable text, and is taken by the decoder it is named      *)
(* after only, but for a segmented_base64, whose two segments are base64   *)
(* tokens of their own: pieces are those of the two that decode to half of *)
(* what is beneath.  Confidences are in percent.                           *)
(***************************************************************************)
EXTENDS Integers, Sequences, FiniteSets, SequencesExt

CONSTANTS Payloads,                        \* the texts of the environment
          MaxDecodeRounds,                 \* max_decode_rounds (2)
          ANNOTATION_CONFIDENCE_THRESHOLD  \* in percent (80)

(* Every caller decodes for one round at least.                            *)
ASSUME RoundsAssumption == MaxDecodeRounds \in Nat \ {0}

Cores == {"command",   \* "ignore previous instructions"
          "word",      \* "forget"
          "prose",     \* a harmless sentence
          "name"}      \* a harmless short word

Marks == {"struck",      \* a combining mark on the first word
          "fullwidth", "zero_width",
          "control", "gap",            \* a control character, then a blank
          "joined",                    \* the words without blanks
          "split",                     \* the first word with separators
          "homoglyph"}                 \* Cyrillic letters for Latin ones

Step(encoding, kind, flag, replaces) ==
  [encoding |-> encoding, kind |-> kind, flag |-> flag, replaces |-> replaces, part |-> 0]

PieceStep(part) ==
  [Step("segmented_base64", "base64", "base64_decoded", FALSE) EXCEPT !.part = part]

(* The steps of a round, in order: what each decodes, the kind its         *)
(* findings have, the flag it raises, and whether the decoded text takes   *)
(* the place of the encoded one or is reported only.  decode_base64_tokens *)
(* has a step for a token that is a layer, and one for each that is a      *)
(* segment.                                                                *)
DecodeSteps == <<
  Step("unicode", "unicode_escape", "unicode_escape_decoded", TRUE),
  Step("double_unicode", "double_unicode_escape", "double_unicode_escape_decoded", TRUE),
  Step("upper_unicode", "unicode_escape", "unicode_escape_decoded", TRUE),
  Step("url", "url", "url_decoded", TRUE),
  Step("octal", "octal_escape", "octal_escape_decoded", TRUE),
  Step("hex_escape", "hex_escape", "hex_escape_decoded", TRUE),
  Step("spaced_hex", "hex", "hex_decoded", TRUE),
  Step("concat", "string_concat", "string_concat_collapsed", FALSE),
  Step("utf7", "utf7", "utf7_decoded", FALSE),
  Step("segmented_base64", "base64", "base64_decoded", FALSE),
  Step("base64", "base64", "base64_decoded", FALSE),
  PieceStep(1), PieceStep(2),
  Step("hex", "hex", "hex_decoded", TRUE) >>

Encodings == { DecodeSteps[i].encoding : i \in DOMAIN DecodeSteps }

(* Concatenation and UTF-7 are put on words only, short cores wear one     *)
(* layer at most, marks are on bare or hidden commands, and a segment that *)
(* decodes has 12 characters or more, cut in the midst of the second word. *)
IsPayload(p) ==
  /\ p.layers \in Seq(Encodings) /\ p.core \in Cores /\ p.marks \subseteq Marks \ {"gap"}
  /\ \A i \in DOMAIN p.layers : p.layers[i] \in {"concat", "utf7"} => i = Len(p.layers)
  /\ p.core \in {"word", "name"} => Len(p.layers) <= 1
  /\ p.marks # {} => p.core = "command" /\ "concat" \notin ToSet(p.layers)
  /\ ~({"joined", "split"} \subseteq p.marks)
  /\ p.pieces \subseteq {1, 2}
  /\ p.pieces # {} => /\ p.core \in {"command", "prose"} /\ p.marks = {}
                      /\ "segmented_base64" \in ToSet(p.layers)

ASSUME PayloadsAssumption == \A p \in Payloads : IsPayload(p)

VARIABLES payload,        \* the text as it came
          text,           \* working_text
          phase,          \* "raw", "decoding", "decoded" or "normalized"
          round, step,    \* the decoding round, and the step in it
          changed,        \* changed_this_round
          rounds_changed,
          findings, flags

normalizerVars == << payload, text, phase, round, step, changed, rounds_changed,
                     findings, flags >>
-----------------------------------------------------------------------------
(* What the words of a text say as far as no layer is over them.           *)
Bare(t) == t.layers = << >>
Short(t) == Bare(t) /\ t.core \in {"word", "name"}

(* A concatenation leaves the words readable, and each half of the command *)
(* has one of its keywords.                                                *)
Readable(t) == Bare(t) \/ t.layers = <<"concat">>

contains_suspicious_keyword(t) ==
  \/ Readable(t) /\ t.core = "command" /\ "homoglyph" \notin t.marks
  \/ Bare(t) /\ t.core = "word" /\ t.marks = {}

(* Every mark breaks the phrase and the pattern of the command, and so     *)
(* does a cut.                                                             *)
contains_suspicious_command_pattern(t) ==
  Bare(t) /\ t.core = "command" /\ t.marks = {} /\ t.part = 0

Points(condition, n) == IF condition THEN n ELSE 0

BASE_CONFIDENCE(kind) ==
  CASE kind \in {"unicode_escape", "double_unicode_escape", "hex_escape", "octal_escape"} -> 75
    [] kind \in {"url", "base64", "hex", "utf7"} -> 70
    [] kind = "string_concat" -> 65

score_decoding_confidence(decoder, decoded, r, context) ==
  LET score == BASE_CONFIDENCE(decoder.kind)
        + Points(contains_suspicious_keyword(decoded), 15)
        + Points(contains_suspicious_command_pattern(decoded), 30)
        + Points("encoding" \in context, 10)
        + Points(r > 1, 10)
        + Points(/\ decoder.encoding \in {"spaced_hex", "concat", "utf7", "segmented_base64"}
                 /\ decoder.part = 0, 5)
        - Points(decoder.encoding = "base64" /\ Short(decoded), 20)
        - Points(Bare(decoded) /\ decoded.marks \cap {"zero_width", "control"} # {}, 10)
        - Points(Short(decoded), 15)
        - Points("reference" \in context, 10)
  IN  IF score > 100 THEN 100 ELSE score
-----------------------------------------------------------------------------
(* What the decoders take, each from the text beneath the layer.           *)
decode_utf7_sequences(decoded) == contains_suspicious_keyword(decoded)
decode_base64_tokens(decoded) == Short(decoded) => contains_suspicious_keyword(decoded)
decode_segmented_base64(decoded) == ~Short(decoded)
decode_hex_tokens(decoded) == ~Short(decoded)

Takes(encoding, decoded) ==
  CASE encoding = "utf7"                  -> decode_utf7_sequences(decoded)
    [] encoding = "base64"                -> decode_base64_tokens(decoded)
    [] encoding = "segmented_base64"      -> decode_segmented_base64(decoded)
    [] encoding \in {"hex", "spaced_hex"} -> decode_hex_tokens(decoded)
    [] OTHER                              -> TRUE

Beneath(t) == [t EXCEPT !.layers = Tail(@)]

Decodes(decoder, t) ==
  /\ t.layers # << >> /\ Head(t.layers) = decoder.encoding
  /\ Takes(decoder.encoding, Beneath(t))
  /\ decoder.part \in {0} \cup payload.pieces
-----------------------------------------------------------------------------
(* The cleaners reach the marks of a bare text only.                       *)
Strip(t, removed) == IF Bare(t) THEN [t EXCEPT !.marks = @ \ removed] ELSE t

remove_combining_marks_after_ascii(t) == Strip(t, {"struck"})
apply_nfkc(t) == Strip(t, {"fullwidth"})
remove_zero_width(t) == Strip(t, {"zero_width"})

(* A control character becomes a blank, which stays in the word.           *)
remove_control_chars(t) ==
  IF Bare(t) /\ "control" \in t.marks
    THEN [t EXCEPT !.marks = (@ \ {"control"}) \cup {"gap"}] ELSE t

repair_suspicious_compounds(t) ==
  IF t.marks \cap {"homoglyph", "gap"} = {} THEN Strip(t, {"joined"}) ELSE t

collapse_suspicious_obfuscation(t) ==
  IF t.marks \cap {"homoglyph", "struck"} = {} THEN Strip(t, {"split"}) ELSE t

contains_mixed_latin_cyrillic(t) == Bare(t) /\ "homoglyph" \in t.marks
generate_confusable_skeleton(t) == Strip(t, {"homoglyph"})

(* A flag is raised by a cleaner that changed the text, or by a test.      *)
Raise(condition, flag) == IF condition THEN {flag} ELSE {}
-----------------------------------------------------------------------------
NormalizerInit ==
  /\ payload \in Payloads
  /\ text = [layers |-> payload.layers, core |-> payload.core, marks |-> payload.marks,
             part |-> 0]
  /\ phase = "raw" /\ round = 1 /\ step = 1
  /\ changed = FALSE /\ rounds_changed = 0
  /\ findings = << >> /\ flags = {}

CleanBefore ==
  LET plain   == apply_nfkc(remove_combining_marks_after_ascii(text))
      visible == remove_zero_width(plain)
      printed == remove_control_chars(visible)
      spaced  == repair_suspicious_compounds(printed)
  IN  /\ phase = "raw" /\ phase' = "decoding"
      /\ text' = spaced
      /\ flags' = Raise(text # remove_combining_marks_after_ascii(text), "combining_marks_removed")
           \cup Raise(text # apply_nfkc(text), "unicode_nfkc_changed")
           \cup Raise(plain # visible, "zero_width_removed")
           \cup Raise(visible # printed, "control_chars_removed")
           \cup Raise(visible # printed, "whitespace_canonicalized")
           \cup Raise(printed # spaced, "suspicious_phrase_repaired")
      /\ UNCHANGED << payload, round, step, changed, rounds_changed, findings >>

FoundWithConfidence(found, finding) ==   \* mutant: the confidence is part of the key
  \E i \in DOMAIN found : found[i] = finding

Known(found, finding) ==
  \E i \in DOMAIN found :
    /\ found[i].kind = finding.kind
    /\ found[i].original = finding.original /\ found[i].decoded = finding.decoded

Finding(decoder, t, r, context) ==
  LET token == [t EXCEPT !.part = decoder.part]
  IN  [kind |-> decoder.kind, original |-> token, decoded |-> Beneath(token),
       confidence |-> score_decoding_confidence(decoder, Beneath(token), r, context)]

(* One step of a round: its decoder finds nothing, ...                     *)
Pass ==
  /\ phase = "decoding" /\ step <= Len(DecodeSteps)
  /\ ~Decodes(DecodeSteps[step], text)
  /\ step' = step + 1
  /\ UNCHANGED << payload, text, phase, round, changed, rounds_changed, findings, flags >>

(* ... or takes the outermost layer.                                       *)
Decode ==
  /\ phase = "decoding" /\ step <= Len(DecodeSteps)
  /\ LET decoder == DecodeSteps[step]
         finding == Finding(decoder, text, round, payload.context)
     IN  /\ Decodes(decoder, text)
         /\ text' = IF decoder.replaces THEN Beneath(text) ELSE text
         /\ changed' = (changed \/ decoder.replaces)
         /\ IF Known(findings, finding)
              THEN UNCHANGED << findings, flags >>
              ELSE findings' = Append(findings, finding) /\ flags' = flags \cup {decoder.flag}
  /\ step' = step + 1
  /\ UNCHANGED << payload, phase, round, rounds_changed >>

MoreRoundsByOne == changed /\ round <= MaxDecodeRounds   \* mutant: one round more

(* A round that changed nothing is the last one.                           *)
MoreRounds == changed /\ round < MaxDecodeRounds

EndRound ==
  /\ phase = "decoding" /\ step > Len(DecodeSteps)
  /\ rounds_changed' = rounds_changed + Points(changed, 1)
  /\ IF MoreRounds
       THEN round' = round + 1 /\ step' = 1 /\ UNCHANGED phase
       ELSE phase' = "decoded" /\ UNCHANGED << round, step >>
  /\ changed' = FALSE
  /\ UNCHANGED << payload, text, findings, flags >>

Skeleton(t) ==
  [kind |-> "confusable_skeleton", original |-> t,
   decoded |-> generate_confusable_skeleton(t), confidence |-> 85]

CleanAfter ==
  LET visible   == remove_zero_width(text)
      printed   == remove_control_chars(visible)
      collapsed == collapse_suspicious_obfuscation(printed)
      plain     == remove_combining_marks_after_ascii(collapsed)
      mixed     == contains_mixed_latin_cyrillic(plain)
  IN  /\ phase = "decoded" /\ phase' = "normalized"
      /\ text' = plain
      /\ findings' = IF mixed THEN Append(findings, Skeleton(plain)) ELSE findings
      /\ flags' = flags
           \cup Raise(rounds_changed > 1, "multi_round_decoding")
           \cup Raise(text # visible, "zero_width_removed")
           \cup Raise(visible # printed, "control_chars_removed")
           \cup Raise(printed # collapsed, "obfuscation_collapsed")
           \cup Raise(collapsed # plain, "combining_marks_removed")
           \cup Raise(mixed, "mixed_script_detected")
           \cup Raise(mixed, "confusable_skeleton_generated")
           \cup Raise(contains_suspicious_command_pattern(plain),
                      "suspicious_instruction_override_detected")
      /\ UNCHANGED << payload, round, step, changed, rounds_changed >>

NormalizerNext == CleanBefore \/ Pass \/ Decode \/ EndRound \/ CleanAfter

(* The normalized text: the working text, and the decoded texts of the     *)
(* findings that are likely enough.                                        *)
Annotated(finding) == finding.confidence >= ANNOTATION_CONFIDENCE_THRESHOLD

Normalized ==
  {text} \cup { findings[i].decoded : i \in { i \in DOMAIN findings : Annotated(findings[i]) } }
-----------------------------------------------------------------------------
(* The rounds of decoding, told without them: a layer is decoded in the    *)
(* round of the one above it when its step comes later, in the next one    *)
(* otherwise; a layer whose text is only reported keeps those beneath it.  *)
StepOf(encoding) ==
  CHOOSE i \in DOMAIN DecodeSteps : DecodeSteps[i].encoding = encoding /\ DecodeSteps[i].part = 0

RoundOf(layers) ==
  [i \in DOMAIN layers |->
     1 + Cardinality({ j \in 2..i : StepOf(layers[j]) <= StepOf(layers[j - 1]) })]

Under(p, i) ==
  [layers |-> SubSeq(p.layers, i, Len(p.layers)), core |-> p.core, marks |-> p.marks, part |-> 0]

FoundLayers(p) ==
  { i \in DOMAIN p.layers :
      /\ RoundOf(p.layers)[i] <= MaxDecodeRounds
      /\ \A j \in 1..i : Takes(p.layers[j], Under(p, j + 1))
      /\ \A j \in 1..(i - 1) : DecodeSteps[StepOf(p.layers[j])].replaces }

(* What is found of a layer: the whole, and the pieces it falls into.      *)
PartsOf(p, i) == {0} \cup (IF p.layers[i] = "segmented_base64" THEN p.pieces ELSE {})

FoundParts(p) == UNION { { << i, part >> : part \in PartsOf(p, i) } : i \in FoundLayers(p) }

DecoderOf(encoding, part) ==
  IF part = 0 THEN DecodeSteps[StepOf(encoding)] ELSE PieceStep(part)

FindingOf(p, i, part) ==
  Finding(DecoderOf(p.layers[i], part), Under(p, i), RoundOf(p.layers)[i], p.context)

(* Every layer the rounds can reach is found once, and so is each segment  *)
(* of it that decodes by itself, with the confidence of the round it is    *)
(* first reached in, however often a later round meets it again, and       *)
(* nothing else is found: the flags of the decoders are those of the       *)
(* layers found.                                                           *)
FoundOnceAndInTime ==
  phase = "normalized" =>
    LET decoded == { i \in DOMAIN findings : findings[i].kind # "confusable_skeleton" }
        found   == FoundParts(payload)
    IN  /\ { findings[i] : i \in decoded } = { FindingOf(payload, f[1], f[2]) : f \in found }
        /\ Cardinality(decoded) = Cardinality(found)
        /\ \A i \in DOMAIN DecodeSteps :
             DecodeSteps[i].flag \in flags <=>
               \E j \in FoundLayers(payload) :
                 DecodeSteps[StepOf(payload.layers[j])].flag = DecodeSteps[i].flag
=============================================================================
