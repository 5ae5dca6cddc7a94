-------------------------- MODULE RequestScanProofs ---------------------------
(***************************************************************************)
(* The rounds of decoding find what the rounds can reach, for texts under  *)
(* any number of layers and any number of rounds; a command that comes to  *)
(* light is blocked; and what tells against a call, or for it, pulls the   *)
(* decision one way.                                                       *)
(***************************************************************************)
EXTENDS RequestScan, EvidenceProofs

(* Twelve of the fourteen steps have an encoding of their own, two are for *)
(* the segments of the tenth.                                              *)
PieceAt(part) == 11 + part

(* The encodings of the table, in its order.                               *)
RowEncodings ==
  << "unicode", "double_unicode", "upper_unicode", "url", "octal", "hex_escape", "spaced_hex",
     "concat", "utf7", "segmented_base64", "base64", "segmented_base64", "segmented_base64",
     "hex" >>

DecoderFlags ==
  {"unicode_escape_decoded", "double_unicode_escape_decoded", "url_decoded",
   "octal_escape_decoded", "hex_escape_decoded", "hex_decoded", "string_concat_collapsed",
   "utf7_decoded", "base64_decoded"}

LEMMA Rows ==
  /\ DOMAIN DecodeSteps = 1..14 /\ Len(DecodeSteps) = 14
  /\ \A i \in 1..14 :
       /\ DecodeSteps[i].encoding = RowEncodings[i]
       /\ DecodeSteps[i].kind # "confusable_skeleton"
       /\ DecodeSteps[i].part = IF i \in {12, 13} THEN i - 11 ELSE 0
       /\ DecodeSteps[i].flag \in DecoderFlags
       /\ i \in 8..13 => ~DecodeSteps[i].replaces
  /\ DecodeSteps[12] = PieceStep(1) /\ DecodeSteps[13] = PieceStep(2)
  /\ DecodeSteps[10].flag = "base64_decoded"
<1>1. DOMAIN DecodeSteps = 1..14 /\ Len(DecodeSteps) = 14
  BY DEF DecodeSteps
<1>2. /\ DecodeSteps[1] = Step("unicode", "unicode_escape", "unicode_escape_decoded", TRUE)
      /\ DecodeSteps[2] = Step("double_unicode", "double_unicode_escape", "double_unicode_escape_decoded", TRUE)
      /\ DecodeSteps[3] = Step("upper_unicode", "unicode_escape", "unicode_escape_decoded", TRUE)
      /\ DecodeSteps[4] = Step("url", "url", "url_decoded", TRUE)
      /\ DecodeSteps[5] = Step("octal", "octal_escape", "octal_escape_decoded", TRUE)
      /\ DecodeSteps[6] = Step("hex_escape", "hex_escape", "hex_escape_decoded", TRUE)
      /\ DecodeSteps[7] = Step("spaced_hex", "hex", "hex_decoded", TRUE)
      /\ DecodeSteps[8] = Step("concat", "string_concat", "string_concat_collapsed", FALSE)
      /\ DecodeSteps[9] = Step("utf7", "utf7", "utf7_decoded", FALSE)
      /\ DecodeSteps[10] = Step("segmented_base64", "base64", "base64_decoded", FALSE)
      /\ DecodeSteps[11] = Step("base64", "base64", "base64_decoded", FALSE)
      /\ DecodeSteps[12] = PieceStep(1)
      /\ DecodeSteps[13] = PieceStep(2)
      /\ DecodeSteps[14] = Step("hex", "hex", "hex_decoded", TRUE)
  BY DEF DecodeSteps
<1>3. ASSUME NEW i \in 1..14
      PROVE  /\ DecodeSteps[i].encoding = RowEncodings[i]
             /\ DecodeSteps[i].kind # "confusable_skeleton"
             /\ DecodeSteps[i].part = IF i \in {12, 13} THEN i - 11 ELSE 0
             /\ DecodeSteps[i].flag \in DecoderFlags
             /\ i \in 8..13 => ~DecodeSteps[i].replaces
  <2>1. CASE i = 1
    BY <1>2, <2>1 DEF RowEncodings, DecoderFlags, Step
  <2>2. CASE i = 2
    BY <1>2, <2>2 DEF RowEncodings, DecoderFlags, Step
  <2>3. CASE i = 3
    BY <1>2, <2>3 DEF RowEncodings, DecoderFlags, Step
  <2>4. CASE i = 4
    BY <1>2, <2>4 DEF RowEncodings, DecoderFlags, Step
  <2>5. CASE i = 5
    BY <1>2, <2>5 DEF RowEncodings, DecoderFlags, Step
  <2>6. CASE i = 6
    BY <1>2, <2>6 DEF RowEncodings, DecoderFlags, Step
  <2>7. CASE i = 7
    BY <1>2, <2>7 DEF RowEncodings, DecoderFlags, Step
  <2>8. CASE i = 8
    BY <1>2, <2>8 DEF RowEncodings, DecoderFlags, Step
  <2>9. CASE i = 9
    BY <1>2, <2>9 DEF RowEncodings, DecoderFlags, Step
  <2>10. CASE i = 10
    BY <1>2, <2>10 DEF RowEncodings, DecoderFlags, Step
  <2>11. CASE i = 11
    BY <1>2, <2>11 DEF RowEncodings, DecoderFlags, Step
  <2>12. CASE i = 12
    BY <1>2, <2>12 DEF RowEncodings, DecoderFlags, PieceStep, Step
  <2>13. CASE i = 13
    BY <1>2, <2>13 DEF RowEncodings, DecoderFlags, PieceStep, Step
  <2>14. CASE i = 14
    BY <1>2, <2>14 DEF RowEncodings, DecoderFlags, Step
  <2>. QED  BY <2>1, <2>2, <2>3, <2>4, <2>5, <2>6, <2>7, <2>8, <2>9, <2>10, <2>11, <2>12, <2>13, <2>14
<1>4. DecodeSteps[10].flag = "base64_decoded"
  BY <1>2 DEF Step
<1>. QED  BY <1>1, <1>2, <1>3, <1>4

LEMMA RowFlags ==
  \A i \in 1..14 :
    DecodeSteps[i].flag \notin
      {"combining_marks_removed", "unicode_nfkc_changed", "zero_width_removed",
       "control_chars_removed", "whitespace_canonicalized", "suspicious_phrase_repaired",
       "multi_round_decoding", "obfuscation_collapsed", "mixed_script_detected",
       "confusable_skeleton_generated", "suspicious_instruction_override_detected"}
BY Rows DEF DecoderFlags

LEMMA Steps ==
  /\ DOMAIN DecodeSteps = 1..14 /\ Len(DecodeSteps) = 14
  /\ \A i, j \in 1..14 :
       DecodeSteps[i].encoding = DecodeSteps[j].encoding
         /\ DecodeSteps[i].part = 0 /\ DecodeSteps[j].part = 0 => i = j
  /\ \A i \in 1..14 : DecodeSteps[i].kind # "confusable_skeleton"
  /\ \A i \in 1..14 : DecodeSteps[i].part # 0 <=> i \in {12, 13}
  /\ \A part \in {1, 2} : /\ DecodeSteps[PieceAt(part)] = PieceStep(part)
                          /\ DecodeSteps[PieceAt(part)].encoding = "segmented_base64"
                          /\ DecodeSteps[PieceAt(part)].part = part
                          /\ DecodeSteps[PieceAt(part)].kind = "base64"
                          /\ DecodeSteps[PieceAt(part)].flag = "base64_decoded"
                          /\ ~DecodeSteps[PieceAt(part)].replaces
  /\ DecodeSteps[10].encoding = "segmented_base64" /\ DecodeSteps[10].part = 0
  /\ DecodeSteps[10].flag = "base64_decoded"
  /\ \A i \in 8..13 : ~DecodeSteps[i].replaces
<1>1. \A i, j \in 1..14 :
        RowEncodings[i] = RowEncodings[j] /\ i \notin {12, 13} /\ j \notin {12, 13} => i = j
  BY DEF RowEncodings
<1>2. \A i \in 1..14 : DecodeSteps[i].part # 0 <=> i \in {12, 13}
  BY Rows
<1>3. \A i, j \in 1..14 :
        DecodeSteps[i].encoding = DecodeSteps[j].encoding
          /\ DecodeSteps[i].part = 0 /\ DecodeSteps[j].part = 0 => i = j
  BY <1>1, <1>2, Rows
<1>4. ASSUME NEW part \in {1, 2}
      PROVE  /\ DecodeSteps[PieceAt(part)] = PieceStep(part)
             /\ DecodeSteps[PieceAt(part)].encoding = "segmented_base64"
             /\ DecodeSteps[PieceAt(part)].part = part
             /\ DecodeSteps[PieceAt(part)].kind = "base64"
             /\ DecodeSteps[PieceAt(part)].flag = "base64_decoded"
             /\ ~DecodeSteps[PieceAt(part)].replaces
  <2>1. DecodeSteps[PieceAt(part)] = PieceStep(part)
    BY Rows DEF PieceAt
  <2>. QED  BY <2>1 DEF PieceStep, Step
<1>5. DecodeSteps[10].encoding = "segmented_base64" /\ DecodeSteps[10].part = 0
  BY Rows DEF RowEncodings
<1>. QED  BY <1>2, <1>3, <1>4, <1>5, Rows

LEMMA StepOfEncoding ==
  ASSUME NEW e \in Encodings
  PROVE  /\ StepOf(e) \in 1..14 /\ DecodeSteps[StepOf(e)].encoding = e
         /\ DecodeSteps[StepOf(e)].part = 0
<1>1. PICK i \in 1..14 : DecodeSteps[i].encoding = e
  BY Steps DEF Encodings
<1>2. \E j \in 1..14 : DecodeSteps[j].encoding = e /\ DecodeSteps[j].part = 0
  <2>1. CASE DecodeSteps[i].part = 0
    BY <1>1, <2>1
  <2>2. CASE DecodeSteps[i].part # 0
    <3>1. PICK part \in {1, 2} : i = PieceAt(part)
      BY <2>2, Steps DEF PieceAt
    <3>2. e = "segmented_base64"
      BY <1>1, <3>1, Steps
    <3>. QED  BY <3>2, Steps
  <2>. QED  BY <2>1, <2>2
<1>. QED  BY <1>2, Steps DEF StepOf

LEMMA StepIs ==
  ASSUME NEW i \in 1..14, DecodeSteps[i].part = 0
  PROVE  DecodeSteps[i].encoding \in Encodings /\ StepOf(DecodeSteps[i].encoding) = i
<1>1. DecodeSteps[i].encoding \in Encodings
  BY Steps DEF Encodings
<1>. QED  BY <1>1, StepOfEncoding, Steps

(* The round of a layer is that of the one above it or the next one.       *)
LEMMA Rounds ==
  ASSUME NEW layers \in Seq(Encodings)
  PROVE  LET R == RoundOf(layers)
         IN  /\ \A i \in 1..Len(layers) : R[i] \in Nat /\ R[i] >= 1
             /\ Len(layers) > 0 => R[1] = 1
             /\ \A i \in 1..(Len(layers) - 1) :
                  R[i + 1] = IF StepOf(layers[i + 1]) <= StepOf(layers[i]) THEN R[i] + 1 ELSE R[i]
             /\ \A i, j \in 1..Len(layers) : i <= j => R[i] <= R[j]
<1>. DEFINE n == Len(layers)
            Later(i) == { j \in 2..i : StepOf(layers[j]) <= StepOf(layers[j - 1]) }
            R == RoundOf(layers)
<1>1. n \in Nat /\ DOMAIN layers = 1..n
  OBVIOUS
<1>2. \A i \in 1..n : R[i] = 1 + Cardinality(Later(i))
  BY <1>1 DEF RoundOf
<1>3. \A i \in 1..n : IsFiniteSet(Later(i)) /\ Cardinality(Later(i)) \in Nat
  <2>. TAKE i \in 1..n
  <2>1. IsFiniteSet(2..i) /\ Later(i) \subseteq 2..i
    BY FS_Interval
  <2>. HIDE DEF Later
  <2>. QED  BY <2>1, FS_Subset, FS_CardinalityType
<1>4. n > 0 => R[1] = 1
  <2>1. Later(1) = {}
    OBVIOUS
  <2>. QED  BY <1>2, <2>1, FS_EmptySet
<1>5. ASSUME NEW i \in 1..(n - 1)
      PROVE  R[i + 1] = IF StepOf(layers[i + 1]) <= StepOf(layers[i]) THEN R[i] + 1 ELSE R[i]
  <2>1. i \in 1..n /\ i + 1 \in 1..n /\ i + 1 \notin Later(i)
    OBVIOUS
  <2>2. CASE StepOf(layers[i + 1]) <= StepOf(layers[i])
    <3>1. Later(i + 1) = Later(i) \cup {i + 1}
      BY <2>2
    <3>. HIDE DEF Later
    <3>2. Cardinality(Later(i + 1)) = Cardinality(Later(i)) + 1
      BY <1>3, <2>1, <3>1, FS_AddElement
    <3>. QED  BY <1>2, <1>3, <2>1, <2>2, <3>2
  <2>3. CASE ~(StepOf(layers[i + 1]) <= StepOf(layers[i]))
    <3>1. Later(i + 1) = Later(i)
      BY <2>3
    <3>. HIDE DEF Later
    <3>. QED  BY <1>2, <2>1, <2>3, <3>1
  <2>. QED  BY <2>2, <2>3
<1>6. ASSUME NEW i \in 1..n, NEW j \in 1..n, i <= j PROVE R[i] <= R[j]
  <2>1. Later(i) \subseteq Later(j)
    BY <1>6
  <2>. HIDE DEF Later
  <2>2. Cardinality(Later(i)) <= Cardinality(Later(j))
    BY <1>3, <2>1, FS_Subset
  <2>. QED  BY <1>2, <1>3, <2>2
<1>. HIDE DEF Later, R
<1>7. \A i \in 1..n : R[i] \in Nat /\ R[i] >= 1
  BY <1>2, <1>3
<1>. QED  BY <1>4, <1>5, <1>6, <1>7 DEF R
-----------------------------------------------------------------------------
LEMMA SameSequence ==
  ASSUME NEW S, NEW s \in Seq(S), NEW t \in Seq(S), Len(s) = Len(t),
         \A i \in 1..Len(s) : s[i] = t[i]
  PROVE  s = t
OBVIOUS

(* What is left of a sequence, taken from its front.                       *)
LEMMA Rest ==
  ASSUME NEW S, NEW layers \in Seq(S), NEW k \in 0..Len(layers)
  PROVE  LET rest == SubSeq(layers, k + 1, Len(layers))
         IN  /\ rest \in Seq(S) /\ Len(rest) = Len(layers) - k
             /\ rest = << >> <=> k = Len(layers)
             /\ k < Len(layers) =>
                  /\ Head(rest) = layers[k + 1]
                  /\ Tail(rest) = SubSeq(layers, k + 2, Len(layers))
<1>. DEFINE n == Len(layers)
            rest == SubSeq(layers, k + 1, n)
<1>1. n \in Nat /\ k \in Nat /\ \A i \in (k + 1)..n : layers[i] \in S
  OBVIOUS
<1>2. rest \in Seq(S) /\ Len(rest) = n - k /\ \A i \in 1..(n - k) : rest[i] = layers[k + i]
  OBVIOUS
<1>. HIDE DEF rest
<1>3. ASSUME k < n PROVE Tail(rest) = SubSeq(layers, k + 2, n)
  <2>1. /\ Tail(rest) \in Seq(S) /\ Len(Tail(rest)) = n - k - 1
        /\ \A i \in 1..(n - k - 1) : Tail(rest)[i] = rest[i + 1]
    BY <1>1, <1>2, <1>3
  <2>2. /\ SubSeq(layers, k + 2, n) \in Seq(S) /\ Len(SubSeq(layers, k + 2, n)) = n - k - 1
        /\ \A i \in 1..(n - k - 1) : SubSeq(layers, k + 2, n)[i] = layers[k + i + 1]
    BY <1>1, <1>3
  <2>3. \A i \in 1..(n - k - 1) : i + 1 \in 1..(n - k) /\ k + (i + 1) = k + i + 1
    BY <1>1
  <2>4. \A i \in 1..(n - k - 1) : Tail(rest)[i] = SubSeq(layers, k + 2, n)[i]
    BY <1>2, <2>1, <2>2, <2>3
  <2>. QED  BY <2>1, <2>2, <2>4, SameSequence
<1>4. k < n => Head(rest) = layers[k + 1]
  BY <1>1, <1>2
<1>5. rest = << >> <=> k = n
  BY <1>1, <1>2
<1>. QED  BY <1>2, <1>3, <1>4, <1>5 DEF rest
-----------------------------------------------------------------------------
Layers == Len(payload.layers)

(* A text without layers is cleaned before the rounds, the others are not. *)
CleanedBefore(t) ==
  repair_suspicious_compounds(remove_control_chars(remove_zero_width(
    apply_nfkc(remove_combining_marks_after_ascii(t)))))

CleanedAfter(t) ==
  remove_combining_marks_after_ascii(collapse_suspicious_obfuscation(
    remove_control_chars(remove_zero_width(t))))

Read(k) == IF Layers = 0 THEN CleanedBefore(Under(payload, 1)) ELSE Under(payload, k + 1)

Replaced(i) == DecodeSteps[StepOf(payload.layers[i])].replaces

Flagged(flag, m) == \E j \in 1..m : DecodeSteps[StepOf(payload.layers[j])].flag = flag

Segmented(m) == m \in 1..Layers /\ payload.layers[m] = "segmented_base64"

(* k layers are taken off, the findings are those of the layers 1..m: one  *)
(* more than that if the next is only reported.                            *)
Peeled(k, m) ==
  /\ m = k \/ (m = k + 1 /\ ~Replaced(m))
  /\ \A i \in 1..k : Replaced(i)
  /\ \A i \in 1..m : i \in FoundLayers(payload)
  /\ \A i \in 1..14 : DecodeSteps[i].flag \in flags <=> Flagged(DecodeSteps[i].flag, m)

Findings == { FindingOf(payload, i, part) : i \in 1..Layers, part \in 0..2 }

(* The pieces of the last layer are found after it.                        *)
Reported(found, m) ==
  /\ found \in Seq(Findings) /\ m <= Len(found)
  /\ \A i \in 1..m : found[i] = FindingOf(payload, i, 0)
  /\ \A i \in (m + 1)..Len(found) :
       Segmented(m) /\ \E part \in payload.pieces : found[i] = FindingOf(payload, m, part)
  /\ \A i, j \in (m + 1)..Len(found) : found[i] = found[j] => i = j

PieceFound(found, m, part) ==
  \E i \in (m + 1)..Len(found) : found[i] = FindingOf(payload, m, part)

(* A piece that is not found yet is to be found in this round.             *)
PiecesInTime(m) ==
  Segmented(m) =>
    \A part \in payload.pieces :
      \/ PieceFound(findings, m, part)
      \/ RoundOf(payload.layers)[m] = round /\ step <= PieceAt(part)

PiecesFound(found, m) ==
  Segmented(m) => \A part \in payload.pieces : PieceFound(found, m, part)

(* A layer is still to be taken off.                                       *)
Remains(k, m) == m = k /\ k < Layers /\ Takes(payload.layers[k + 1], Under(payload, k + 2))

(* Its step is still to come in this round, or in the next one, which      *)
(* there is since this one has changed the text.                           *)
InTime(k, m) ==
  LET R == RoundOf(payload.layers)
  IN  /\ round \in 1..MaxDecodeRounds /\ step \in 1..15 /\ changed \in BOOLEAN
      /\ k > 0 => R[k] <= round
      /\ changed <=> k > 0 /\ R[k] = round
      /\ changed => StepOf(payload.layers[k]) < step
      /\ Remains(k, m) => \/ R[k + 1] = round /\ StepOf(payload.layers[k + 1]) >= step
                          \/ changed /\ R[k + 1] = round + 1

(* The rounds end when none is left that they could reach.                 *)
Exhausted(k, m) == Remains(k, m) => RoundOf(payload.layers)[k + 1] > MaxDecodeRounds

Decoding(k, m) ==
  /\ k \in 0..Layers /\ m \in 0..Layers
  /\ Peeled(k, m) /\ text = Read(k) /\ Reported(findings, m)
  /\ InTime(k, m) /\ PiecesInTime(m)

Decoded(k, m) ==
  /\ k \in 0..Layers /\ m \in 0..Layers
  /\ Peeled(k, m) /\ text = Read(k) /\ Reported(findings, m)
  /\ Exhausted(k, m) /\ PiecesFound(findings, m)

Concluded(k, m) ==
  /\ k \in 0..Layers /\ m \in 0..Layers
  /\ Peeled(k, m) /\ Exhausted(k, m)
  /\ text = CleanedAfter(Read(k))
  /\ \E found : /\ Reported(found, m) /\ PiecesFound(found, m)
                /\ findings = IF contains_mixed_latin_cyrillic(text)
                                THEN Append(found, Skeleton(text)) ELSE found

NormalizerOK ==
  /\ payload \in Payloads
  /\ \/ /\ phase = "raw" /\ text = Under(payload, 1) /\ findings = << >> /\ flags = {}
        /\ round = 1 /\ step = 1 /\ changed = FALSE
     \/ phase = "decoding" /\ \E k, m : Decoding(k, m)
     \/ phase = "decoded" /\ \E k, m : Decoded(k, m)
     \/ phase = "normalized" /\ \E k, m : Concluded(k, m)

LEMMA LayersType ==
  ASSUME payload \in Payloads
  PROVE  /\ payload.layers \in Seq(Encodings) /\ Layers \in Nat
         /\ DOMAIN payload.layers = 1..Layers
         /\ \A i \in 1..Layers : payload.layers[i] \in Encodings
                                 /\ StepOf(payload.layers[i]) \in 1..14
<1>1. payload.layers \in Seq(Encodings)
  BY PayloadsAssumption DEF IsPayload
<1>. QED  BY <1>1, StepOfEncoding DEF Layers

LEMMA InitNormalizer == NormalizerInit => NormalizerOK
<1>. SUFFICES ASSUME NormalizerInit PROVE NormalizerOK
  OBVIOUS
<1>1. payload \in Payloads
  BY DEF NormalizerInit
<1>2. SubSeq(payload.layers, 1, Layers) = payload.layers
  <2>1. payload.layers \in Seq(Encodings) /\ Layers \in Nat
    BY <1>1, LayersType
  <2>. QED  BY <2>1 DEF Layers
<1>3. text = Under(payload, 1)
  BY <1>2 DEF NormalizerInit, Under, Layers
<1>. QED  BY <1>1, <1>3 DEF NormalizerInit, NormalizerOK

(* Before the rounds every layer is still to be taken off.                 *)
LEMMA CleanBeforeStep ==
  ASSUME NormalizerOK, CleanBefore
  PROVE  NormalizerOK'
<1>1. /\ payload \in Payloads /\ payload' = payload /\ phase' = "decoding"
      /\ text = Under(payload, 1) /\ findings' = << >>
      /\ round' = 1 /\ step' = 1 /\ changed' = FALSE
  BY DEF NormalizerOK, CleanBefore
<1>2. Layers \in Nat /\ Layers' = Layers
  BY <1>1, LayersType DEF Layers
<1>3. text' = CleanedBefore(text)
  BY DEF CleanBefore, CleanedBefore
<1>4. text' = Read(0)
  <2>1. CASE Layers = 0
    BY <1>1, <1>3, <2>1 DEF Read
  <2>2. CASE Layers # 0
    <3>1. text.layers # << >>
      BY <1>1, <1>2, <2>2, Rest, LayersType DEF Under, Layers
    <3>2. CleanedBefore(text) = text
      BY <3>1 DEF CleanedBefore, repair_suspicious_compounds, remove_control_chars,
                  remove_zero_width, apply_nfkc, remove_combining_marks_after_ascii, Strip, Bare
    <3>. QED  BY <1>1, <1>3, <2>2, <3>2 DEF Read
  <2>. QED  BY <2>1, <2>2
<1>5. Read(0)' = Read(0)
  BY <1>1, <1>2 DEF Read
<1>6. Peeled(0, 0)'
  <2>1. \A i \in 1..14 :
          DecodeSteps[i].flag \notin {"combining_marks_removed", "unicode_nfkc_changed",
            "zero_width_removed", "control_chars_removed", "whitespace_canonicalized",
            "suspicious_phrase_repaired"}
    BY RowFlags
  <2>2. \A condition, flag, f : f \in Raise(condition, flag) => f = flag
    BY DEF Raise
  <2>3. \A f \in flags' :
          f \in {"combining_marks_removed", "unicode_nfkc_changed",
            "zero_width_removed", "control_chars_removed", "whitespace_canonicalized",
            "suspicious_phrase_repaired"}
    BY <2>2 DEF CleanBefore
  <2>. QED  BY <1>2, <2>1, <2>3 DEF Peeled, Flagged
<1>7. Reported(findings, 0)' /\ PiecesInTime(0)'
  BY <1>1 DEF Reported, PiecesInTime, Segmented
<1>8. InTime(0, 0)'
  <2>1. Layers > 0 => RoundOf(payload.layers)[1] = 1
    BY <1>1, LayersType, Rounds DEF Layers
  <2>2. Layers > 0 => StepOf(payload.layers[1]) \in 1..14
    BY <1>1, <1>2, LayersType
  <2>3. Remains(0, 0)' => Layers > 0
    BY <1>2 DEF Remains
  <2>4. round' \in 1..MaxDecodeRounds /\ step' \in 1..15
    BY <1>1, RoundsAssumption
  <2>5. Remains(0, 0)' => /\ RoundOf(payload'.layers)[0 + 1] = round'
                          /\ StepOf(payload'.layers[0 + 1]) >= step'
    BY <1>1, <2>1, <2>2, <2>3
  <2>6. changed' \in BOOLEAN /\ ~changed'
    BY <1>1
  <2>. QED  BY <2>4, <2>5, <2>6 DEF InTime
<1>9. Decoding(0, 0)'
  BY <1>2, <1>4, <1>5, <1>6, <1>7, <1>8 DEF Decoding
<1>. QED  BY <1>1, <1>9 DEF NormalizerOK

IsText(t) == t = [layers |-> t.layers, core |-> t.core, marks |-> t.marks, part |-> t.part]

(* A cleaner leaves the layers as they are.                                *)
LEMMA Cleaners ==
  ASSUME NEW t, IsText(t)
  PROVE  /\ IsText(remove_combining_marks_after_ascii(t))
         /\ remove_combining_marks_after_ascii(t).layers = t.layers
         /\ IsText(apply_nfkc(t)) /\ apply_nfkc(t).layers = t.layers
         /\ IsText(remove_zero_width(t)) /\ remove_zero_width(t).layers = t.layers
         /\ IsText(remove_control_chars(t)) /\ remove_control_chars(t).layers = t.layers
         /\ repair_suspicious_compounds(t).layers = t.layers
<1>1. \A removed : IsText(Strip(t, removed)) /\ Strip(t, removed).layers = t.layers
  BY DEF Strip, IsText
<1>2. IsText(remove_control_chars(t)) /\ remove_control_chars(t).layers = t.layers
  BY DEF remove_control_chars, IsText
<1>. QED  BY <1>1, <1>2 DEF remove_combining_marks_after_ascii, apply_nfkc, remove_zero_width,
            repair_suspicious_compounds

TextOf(layers, core, marks, part) ==
  [layers |-> layers, core |-> core, marks |-> marks, part |-> part]

LEMMA FieldsOfText ==
  ASSUME NEW layers, NEW core, NEW marks, NEW part
  PROVE  LET t == TextOf(layers, core, marks, part)
         IN  t.layers = layers /\ t.core = core /\ t.marks = marks /\ t.part = part
BY DEF TextOf

LEMMA PieceOfText ==
  ASSUME NEW layers, NEW core, NEW marks, NEW part, NEW other
  PROVE  [TextOf(layers, core, marks, part) EXCEPT !.part = other]
           = TextOf(layers, core, marks, other)
BY DEF TextOf

LEMMA BeneathText ==
  ASSUME NEW layers, NEW core, NEW marks, NEW part
  PROVE  Beneath(TextOf(layers, core, marks, part)) = TextOf(Tail(layers), core, marks, part)
<1>. DEFINE t == TextOf(layers, core, marks, part)
<1>1. \A rest : [t EXCEPT !.layers = rest] = TextOf(rest, core, marks, part)
  BY DEF TextOf
<1>2. t.layers = layers
  BY FieldsOfText
<1>. HIDE DEF t
<1>3. Beneath(t) = TextOf(Tail(layers), core, marks, part)
  BY <1>1, <1>2, Zenon DEF Beneath
<1>. QED  BY <1>3 DEF t

LEMMA UnderText ==
  ASSUME NEW p, NEW i
  PROVE  Under(p, i) = TextOf(SubSeq(p.layers, i, Len(p.layers)), p.core, p.marks, 0)
BY DEF Under, TextOf

(* What the next step finds of the text after k layers.                    *)
LEMMA ReadAt ==
  ASSUME payload \in Payloads, NEW k \in 0..Layers
  PROVE  /\ Read(k).layers = << >> <=> k = Layers
         /\ k < Layers =>
              /\ Read(k) = Under(payload, k + 1) /\ Head(Read(k).layers) = payload.layers[k + 1]
              /\ Beneath(Read(k)) = Under(payload, k + 2)
              /\ Read(k + 1) = Under(payload, k + 2)
<1>. DEFINE rest == SubSeq(payload.layers, k + 1, Layers)
<1>1. payload.layers \in Seq(Encodings) /\ Layers \in Nat
  BY LayersType
<1>2. /\ rest = << >> <=> k = Layers
      /\ k < Layers => /\ Head(rest) = payload.layers[k + 1]
                       /\ Tail(rest) = SubSeq(payload.layers, k + 2, Layers)
  BY <1>1, Rest DEF Layers
<1>3. Under(payload, k + 1).layers = rest
  BY DEF Under, Layers
<1>4. CASE Layers = 0
  <2>1. k = 0 /\ k + 1 = 1
    BY <1>4
  <2>a. Under(payload, 1).layers = << >>
    BY <1>2, <1>3, <1>4, <2>1
  <2>2. CleanedBefore(Under(payload, 1)).layers = << >>
    <3>1. IsText(Under(payload, 1))
      BY DEF IsText, Under
    <3>. QED  BY <2>a, <3>1, Cleaners DEF CleanedBefore
  <2>. QED  BY <1>4, <2>1, <2>2 DEF Read
<1>5. CASE Layers # 0
  <2>1. Read(k) = Under(payload, k + 1) /\ Read(k + 1) = Under(payload, k + 1 + 1)
    BY <1>5 DEF Read
  <2>2. k + 1 + 1 = k + 2
    BY <1>1
  <2>3. ASSUME k < Layers PROVE Beneath(Under(payload, k + 1)) = Under(payload, k + 2)
    <3>1. Tail(Under(payload, k + 1).layers) = SubSeq(payload.layers, k + 2, Layers)
      BY <1>2, <1>3, <2>3
    <3>2. Beneath(Under(payload, k + 1))
            = TextOf(Tail(Under(payload, k + 1).layers), payload.core, payload.marks, 0)
      BY UnderText, BeneathText, FieldsOfText
    <3>. QED  BY <3>1, <3>2, UnderText DEF Layers
  <2>. QED  BY <1>2, <1>3, <2>1, <2>2, <2>3
<1>. QED  BY <1>4, <1>5

(* What it decodes is the layer that is next, and its own, or a piece.     *)
LEMMA DecodesNext ==
  ASSUME payload \in Payloads, NEW k \in 0..Layers, NEW s \in 1..14
  PROVE  /\ DecodeSteps[s].part = 0 =>
              (Decodes(DecodeSteps[s], Read(k))
                 <=> /\ k < Layers /\ StepOf(payload.layers[k + 1]) = s
                     /\ Takes(payload.layers[k + 1], Under(payload, k + 2)))
         /\ \A part \in {1, 2} : s = PieceAt(part) =>
              (Decodes(DecodeSteps[s], Read(k))
                 <=> /\ Segmented(k + 1) /\ part \in payload.pieces
                     /\ Takes(payload.layers[k + 1], Under(payload, k + 2)))
<1>1. Layers \in Nat
  BY LayersType
<1>2. CASE k = Layers
  BY <1>1, <1>2, ReadAt DEF Decodes, Segmented
<1>3. CASE k < Layers
  <2>1. payload.layers[k + 1] \in Encodings /\ k + 1 \in 1..Layers
    BY <1>1, <1>3, LayersType
  <2>2. /\ Read(k).layers # << >> /\ Head(Read(k).layers) = payload.layers[k + 1]
        /\ Beneath(Read(k)) = Under(payload, k + 2)
    BY <1>1, <1>3, ReadAt
  <2>3. \A decoder :
          Decodes(decoder, Read(k)) <=>
            /\ payload.layers[k + 1] = decoder.encoding
            /\ Takes(payload.layers[k + 1], Under(payload, k + 2))
            /\ decoder.part \in {0} \cup payload.pieces
    BY <2>2 DEF Decodes
  <2>4. ASSUME DecodeSteps[s].part = 0
        PROVE  payload.layers[k + 1] = DecodeSteps[s].encoding <=> StepOf(payload.layers[k + 1]) = s
    BY <2>1, <2>4, StepOfEncoding, StepIs
  <2>5. ASSUME NEW part \in {1, 2}, s = PieceAt(part)
        PROVE  DecodeSteps[s].encoding = "segmented_base64" /\ DecodeSteps[s].part = part
    BY <2>5, Steps
  <2>. QED  BY <1>3, <2>1, <2>3, <2>4, <2>5 DEF Segmented
<1>. QED  BY <1>1, <1>2, <1>3

(* Only a layer that is reported and not replaced has pieces.              *)
LEMMA PiecesLast ==
  ASSUME payload \in Payloads, NEW k \in 0..Layers, NEW m \in 0..Layers, Peeled(k, m)
  PROVE  /\ \A i \in 1..k : ~Segmented(i)
         /\ Segmented(m) => m = k + 1 /\ Takes(payload.layers[k + 1], Under(payload, k + 2))
         /\ payload.pieces \subseteq {1, 2}
<1>1. Layers \in Nat
  BY LayersType
<1>2. ASSUME NEW i \in 1..Layers, Segmented(i) PROVE ~Replaced(i)
  <2>1. StepOf(payload.layers[i]) = 10
    <3>1. 10 \in 1..14
      OBVIOUS
    <3>. QED  BY <1>2, <3>1, Steps, StepIs DEF Segmented
  <2>. QED  BY <2>1, Steps DEF Replaced
<1>3. \A i \in 1..k : ~Segmented(i)
  <2>1. \A i \in 1..k : i \in 1..Layers
    BY <1>1
  <2>. QED  BY <1>2, <2>1 DEF Peeled
<1>4. ASSUME Segmented(m)
      PROVE  m = k + 1 /\ Takes(payload.layers[k + 1], Under(payload, k + 2))
  <2>1. m # k
    BY <1>3, <1>4 DEF Segmented
  <2>2. m = k + 1 /\ m \in 1..m /\ (k + 1) + 1 = k + 2
    BY <1>1, <2>1 DEF Peeled
  <2>3. m \in FoundLayers(payload)
    BY <2>2 DEF Peeled
  <2>. QED  BY <2>2, <2>3 DEF FoundLayers
<1>5. payload.pieces \subseteq {1, 2}
  BY PayloadsAssumption DEF IsPayload
<1>. QED  BY <1>3, <1>4, <1>5

(* A step that decodes nothing has not met the next layer.                 *)
LEMMA PassStep ==
  ASSUME NormalizerOK, Pass
  PROVE  NormalizerOK'
<1>1. PICK k, m : Decoding(k, m)
  BY DEF NormalizerOK, Pass
<1>2. /\ payload \in Payloads /\ payload' = payload /\ phase' = "decoding" /\ text' = text
      /\ findings' = findings /\ flags' = flags /\ round' = round /\ step' = step + 1
      /\ changed' = changed
  BY DEF NormalizerOK, Pass
<1>3. k \in 0..Layers /\ m \in 0..Layers /\ Layers \in Nat /\ text = Read(k)
  BY <1>1, <1>2, LayersType DEF Decoding
<1>4. step \in 1..14
  BY <1>1, Steps DEF Decoding, InTime, Pass
<1>5. Remains(k, m) => StepOf(payload.layers[k + 1]) # step
  <2>1. Remains(k, m) => k + 1 \in 1..Layers
    BY <1>3 DEF Remains
  <2>2. Remains(k, m) => DecodeSteps[StepOf(payload.layers[k + 1])].part = 0
    BY <1>2, <2>1, LayersType, StepOfEncoding
  <2>. QED  BY <1>2, <1>3, <1>4, <2>2, DecodesNext DEF Pass, Remains
<1>6. InTime(k, m)'
  <2>1. Remains(k, m)' = Remains(k, m)
    BY <1>2 DEF Remains, Layers
  <2>2. Remains(k, m) => k + 1 \in 1..Layers
    BY <1>3 DEF Remains
  <2>3. k > 0 => k \in 1..Layers
    BY <1>3
  <2>4. \A i \in 1..Layers : StepOf(payload.layers[i]) \in 1..14
    BY <1>2, LayersType
  <2>. QED  BY <1>1, <1>2, <1>4, <1>5, <2>1, <2>2, <2>3, <2>4 DEF Decoding, InTime
<1>7. PiecesInTime(m)'
  <2>1. SUFFICES ASSUME Segmented(m), NEW part \in payload.pieces,
                        ~PieceFound(findings, m, part)
                 PROVE  RoundOf(payload.layers)[m] = round /\ step + 1 <= PieceAt(part)
    BY <1>2 DEF PiecesInTime, Segmented, PieceFound, Layers
  <2>2. RoundOf(payload.layers)[m] = round /\ step <= PieceAt(part)
    BY <1>1, <2>1 DEF Decoding, PiecesInTime
  <2>3. /\ m = k + 1 /\ Takes(payload.layers[k + 1], Under(payload, k + 2))
        /\ part \in {1, 2}
    BY <1>1, <1>2, <1>3, <2>1, PiecesLast DEF Decoding
  <2>4. step # PieceAt(part)
    BY <1>2, <1>3, <1>4, <2>1, <2>3, DecodesNext DEF Pass
  <2>. QED  BY <1>4, <2>2, <2>3, <2>4 DEF PieceAt
<1>8. Decoding(k, m)'
  <2>1. Peeled(k, m)' /\ Reported(findings, m)' /\ (text = Read(k))'
    BY <1>1, <1>2 DEF Decoding, Peeled, Reported, Read, Layers, Flagged, Replaced, Segmented, Findings
  <2>. QED  BY <1>1, <1>2, <1>3, <1>6, <1>7, <2>1 DEF Decoding, Layers
<1>. QED  BY <1>2, <1>8 DEF NormalizerOK

(* A piece of what is left under i - 1 layers, or all of it.               *)
PieceOf(i, part) ==
  TextOf(SubSeq(payload.layers, i, Layers), payload.core, payload.marks, part)

(* Their lengths tell the layers apart.                                    *)
LEMMA OriginalsDiffer ==
  ASSUME payload \in Payloads, NEW i \in 1..Layers, NEW j \in 1..Layers, NEW part, NEW other,
         PieceOf(i, part) = PieceOf(j, other)
  PROVE  i = j /\ part = other
<1>1. payload.layers \in Seq(Encodings) /\ Layers \in Nat /\ Layers = Len(payload.layers)
  BY LayersType DEF Layers
<1>2. /\ Len(SubSeq(payload.layers, i, Layers)) = Layers - i + 1
      /\ Len(SubSeq(payload.layers, j, Layers)) = Layers - j + 1
  BY <1>1
<1>3. /\ SubSeq(payload.layers, i, Layers) = SubSeq(payload.layers, j, Layers)
      /\ part = other
  BY DEF PieceOf, TextOf
<1>. QED  BY <1>1, <1>2, <1>3

LEMMA Originals ==
  ASSUME payload \in Payloads, NEW i \in 1..Layers, NEW part \in 0..2
  PROVE  /\ FindingOf(payload, i, part).original = PieceOf(i, part)
         /\ FindingOf(payload, i, part).decoded = PieceOf(i + 1, part)
         /\ FindingOf(payload, i, part).kind
              = IF part = 0 THEN DecodeSteps[StepOf(payload.layers[i])].kind ELSE "base64"
<1>. DEFINE decoder == DecoderOf(payload.layers[i], part)
            token == [Under(payload, i) EXCEPT !.part = decoder.part]
<1>1. /\ payload.layers \in Seq(Encodings) /\ Layers \in Nat /\ Layers = Len(payload.layers)
      /\ payload.layers[i] \in Encodings
  BY LayersType DEF Layers
<1>2. decoder.part = part /\ decoder.kind
        = IF part = 0 THEN DecodeSteps[StepOf(payload.layers[i])].kind ELSE "base64"
  BY <1>1, StepOfEncoding DEF DecoderOf, PieceStep, Step
<1>. HIDE DEF decoder
<1>3. token = PieceOf(i, part)
  BY <1>1, <1>2, UnderText, PieceOfText DEF PieceOf
<1>4. Beneath(PieceOf(i, part)) = PieceOf(i + 1, part)
  <2>1. /\ i - 1 \in 0..Len(payload.layers) /\ i - 1 < Len(payload.layers)
        /\ (i - 1) + 1 = i /\ (i - 1) + 2 = i + 1
    BY <1>1
  <2>2. Tail(SubSeq(payload.layers, i, Layers)) = SubSeq(payload.layers, i + 1, Layers)
    BY <1>1, <2>1, Rest
  <2>. QED  BY <2>2, BeneathText DEF PieceOf
<1>5. /\ FindingOf(payload, i, part).original = token
      /\ FindingOf(payload, i, part).decoded = Beneath(token)
      /\ FindingOf(payload, i, part).kind = decoder.kind
  BY DEF FindingOf, Finding, decoder
<1>. QED  BY <1>2, <1>3, <1>4, <1>5

(* What the step at hand decodes is reported once: the first time the      *)
(* layer is met, ...                                                       *)
LEMMA MetAgain ==
  ASSUME payload \in Payloads, NEW k \in 0..Layers, NEW m \in 0..Layers, k < Layers,
         Peeled(k, m), Reported(findings, m),
         NEW finding, finding.original = PieceOf(k + 1, 0),
         finding.decoded = PieceOf(k + 2, 0),
         finding.kind = DecodeSteps[StepOf(payload.layers[k + 1])].kind
  PROVE  Known(findings, finding) <=> m = k + 1
<1>1. Layers \in Nat /\ k + 1 \in 1..Layers /\ (k + 1) + 1 = k + 2 /\ 0 \in 0..2
  BY LayersType
<1>2. /\ DOMAIN findings = 1..Len(findings) /\ Len(findings) \in Nat /\ m <= Len(findings)
      /\ \A i \in 1..m : findings[i] = FindingOf(payload, i, 0)
      /\ \A i \in (m + 1)..Len(findings) : Segmented(m)
  BY DEF Reported
<1>3. CASE m = k + 1
  <2>1. /\ findings[k + 1].original = finding.original /\ findings[k + 1].decoded = finding.decoded
        /\ findings[k + 1].kind = finding.kind
    BY <1>1, <1>2, <1>3, Originals
  <2>2. k + 1 \in DOMAIN findings
    BY <1>1, <1>2, <1>3
  <2>. QED  BY <1>3, <2>1, <2>2 DEF Known
<1>4. CASE m = k
  <2>1. ASSUME NEW i \in DOMAIN findings PROVE findings[i].original # finding.original
    <3>1. i \in 1..m
      BY <1>1, <1>2, <1>4, PiecesLast
    <3>2. i \in 1..Layers /\ i # k + 1
      BY <1>1, <1>4, <3>1
    <3>. QED  BY <1>1, <1>2, <3>1, <3>2, Originals, OriginalsDiffer
  <2>. QED  BY <1>1, <1>4, <2>1 DEF Known
<1>. QED  BY <1>3, <1>4 DEF Peeled

(* ... and so is each of its pieces.                                       *)
LEMMA PieceMetAgain ==
  ASSUME payload \in Payloads, NEW m \in 1..Layers, payload.pieces \subseteq {1, 2},
         Reported(findings, m), NEW part \in {1, 2},
         NEW finding, finding.original = PieceOf(m, part),
         finding.decoded = PieceOf(m + 1, part), finding.kind = "base64"
  PROVE  Known(findings, finding) <=> PieceFound(findings, m, part)
<1>1. Layers \in Nat /\ part \in 0..2 /\ part # 0 /\ 0 \in 0..2 /\ {1, 2} \subseteq 0..2
  BY LayersType
<1>2. /\ DOMAIN findings = 1..Len(findings) /\ Len(findings) \in Nat /\ m <= Len(findings)
      /\ \A i \in 1..m : findings[i] = FindingOf(payload, i, 0)
      /\ \A i \in (m + 1)..Len(findings) :
           \E other \in payload.pieces : findings[i] = FindingOf(payload, m, other)
  BY DEF Reported
<1>3. ASSUME PieceFound(findings, m, part) PROVE Known(findings, finding)
  <2>1. PICK i \in (m + 1)..Len(findings) : findings[i] = FindingOf(payload, m, part)
    BY <1>3 DEF PieceFound
  <2>2. i \in DOMAIN findings
    BY <1>1, <1>2, <2>1
  <2>3. /\ findings[i].original = finding.original /\ findings[i].decoded = finding.decoded
        /\ findings[i].kind = finding.kind
    BY <1>1, <2>1, Originals
  <2>. QED  BY <2>2, <2>3 DEF Known
<1>4. ASSUME Known(findings, finding) PROVE PieceFound(findings, m, part)
  <2>1. PICK i \in DOMAIN findings : findings[i].original = PieceOf(m, part)
    BY <1>4 DEF Known
  <2>2. CASE i \in 1..m
    <3>1. i \in 1..Layers
      BY <1>1, <2>2
    <3>2. PieceOf(i, 0) = PieceOf(m, part)
      BY <1>1, <1>2, <2>1, <2>2, <3>1, Originals
    <3>. QED  BY <1>1, <3>1, <3>2, OriginalsDiffer
  <2>3. CASE i \in (m + 1)..Len(findings)
    <3>1. PICK other \in payload.pieces : findings[i] = FindingOf(payload, m, other)
      BY <1>2, <2>3
    <3>2. PieceOf(m, other) = PieceOf(m, part)
      BY <1>1, <2>1, <3>1, Originals
    <3>. QED  BY <2>3, <3>1, <3>2, OriginalsDiffer DEF PieceFound
  <2>. QED  BY <1>1, <1>2, <2>2, <2>3
<1>. QED  BY <1>3, <1>4

(* A layer that is met for the first time is met in its round.             *)
LEMMA MetInTime ==
  ASSUME payload \in Payloads, NEW k \in 0..Layers, Peeled(k, k), InTime(k, k), Remains(k, k),
         StepOf(payload.layers[k + 1]) = step
  PROVE  RoundOf(payload.layers)[k + 1] = round /\ k + 1 \in FoundLayers(payload)
<1>. DEFINE R == RoundOf(payload.layers)
<1>1. /\ payload.layers \in Seq(Encodings) /\ Layers \in Nat /\ Layers = Len(payload.layers)
      /\ k + 1 \in 1..Layers /\ DOMAIN payload.layers = 1..Layers
  BY LayersType DEF Remains, Layers
<1>2. R[k + 1] = round
  <2>1. SUFFICES ASSUME changed, R[k + 1] = round + 1 PROVE FALSE
    BY DEF InTime
  <2>2. k > 0 /\ R[k] = round /\ StepOf(payload.layers[k]) < step
    BY <2>1 DEF InTime
  <2>3. k \in 1..Layers /\ k \in 1..(Layers - 1)
    BY <1>1, <2>2
  <2>4. StepOf(payload.layers[k]) \in 1..14 /\ StepOf(payload.layers[k + 1]) \in 1..14
    BY <1>1, <2>3, LayersType
  <2>5. R[k + 1] = IF StepOf(payload.layers[k + 1]) <= StepOf(payload.layers[k])
                     THEN R[k] + 1 ELSE R[k]
    BY <1>1, <2>3, Rounds
  <2>6. round \in Nat
    BY RoundsAssumption DEF InTime
  <2>. QED  BY <2>1, <2>2, <2>4, <2>5, <2>6
<1>3. R[k + 1] <= MaxDecodeRounds
  BY <1>2, RoundsAssumption DEF InTime
<1>4. \A j \in 1..(k + 1) : Takes(payload.layers[j], Under(payload, j + 1))
  <2>. TAKE j \in 1..(k + 1)
  <2>1. CASE j = k + 1
    BY <1>1, <2>1 DEF Remains
  <2>2. CASE j # k + 1
    <3>1. j \in 1..k /\ j \in 1..j
      BY <1>1, <2>2
    <3>2. j \in FoundLayers(payload)
      BY <3>1 DEF Peeled
    <3>. QED  BY <3>1, <3>2 DEF FoundLayers
  <2>. QED  BY <2>1, <2>2
<1>5. \A j \in 1..((k + 1) - 1) : DecodeSteps[StepOf(payload.layers[j])].replaces
  <2>1. (k + 1) - 1 = k
    BY <1>1
  <2>. QED  BY <2>1 DEF Peeled, Replaced
<1>. QED  BY <1>1, <1>2, <1>3, <1>4, <1>5 DEF FoundLayers

(* The findings and flags with the layer k + 1 among them, ...             *)
LEMMA OneMoreFound ==
  ASSUME payload \in Payloads, NEW k \in 0..Layers, k < Layers, Reported(findings, k),
         ~Segmented(k)
  PROVE  Reported(Append(findings, FindingOf(payload, k + 1, 0)), k + 1)
<1>. DEFINE f == FindingOf(payload, k + 1, 0)
            more == Append(findings, f)
<1>1. Layers \in Nat /\ k + 1 \in 1..Layers /\ f \in Findings
  BY LayersType DEF Findings
<1>2. /\ findings \in Seq(Findings) /\ Len(findings) \in Nat /\ k <= Len(findings)
      /\ \A i \in 1..k : findings[i] = FindingOf(payload, i, 0)
      /\ \A i \in (k + 1)..Len(findings) : FALSE
  BY DEF Reported
<1>3. Len(findings) = k
  BY <1>1, <1>2
<1>. HIDE DEF f
<1>4. /\ more \in Seq(Findings) /\ Len(more) = k + 1 /\ more[k + 1] = f
      /\ \A i \in 1..k : more[i] = findings[i]
  BY <1>1, <1>2, <1>3
<1>. HIDE DEF more
<1>5. \A i \in 1..(k + 1) : i \in 1..k \/ i = k + 1
  OBVIOUS
<1>6. \A i \in 1..(k + 1) : more[i] = FindingOf(payload, i, 0)
  BY <1>2, <1>4, <1>5 DEF f
<1>7. \A i \in ((k + 1) + 1)..Len(more) : FALSE
  BY <1>1, <1>4
<1>. QED  BY <1>1, <1>4, <1>6, <1>7 DEF Reported, more, f

(* ... and with a piece of it.                                             *)
LEMMA OnePieceMore ==
  ASSUME payload \in Payloads, NEW m \in 1..Layers, Segmented(m), Reported(findings, m),
         NEW part \in payload.pieces, part \in {1, 2}, ~PieceFound(findings, m, part)
  PROVE  LET more == Append(findings, FindingOf(payload, m, part))
         IN  /\ Reported(more, m)
             /\ PieceFound(more, m, part)
             /\ \A other : PieceFound(findings, m, other) => PieceFound(more, m, other)
<1>. DEFINE f == FindingOf(payload, m, part)
            more == Append(findings, f)
            n == Len(findings)
<1>1. Layers \in Nat /\ f \in Findings
  BY LayersType DEF Findings
<1>2. /\ findings \in Seq(Findings) /\ n \in Nat /\ m <= n
      /\ \A i \in 1..m : findings[i] = FindingOf(payload, i, 0)
      /\ \A i \in (m + 1)..n :
           \E other \in payload.pieces : findings[i] = FindingOf(payload, m, other)
      /\ \A i, j \in (m + 1)..n : findings[i] = findings[j] => i = j
  BY DEF Reported
<1>3. \A i \in (m + 1)..n : findings[i] # f
  BY DEF PieceFound
<1>. HIDE DEF f
<1>4. /\ more \in Seq(Findings) /\ Len(more) = n + 1 /\ more[n + 1] = f
      /\ \A i \in 1..n : more[i] = findings[i]
  BY <1>1, <1>2
<1>. HIDE DEF more, n
<1>5. /\ \A i \in 1..m : i \in 1..n
      /\ \A i \in (m + 1)..(n + 1) : i = n + 1 \/ (i \in (m + 1)..n /\ i \in 1..n)
      /\ \A i \in (m + 1)..n : i \in 1..n /\ i \in (m + 1)..(n + 1)
      /\ n + 1 \in (m + 1)..(n + 1) /\ m <= n + 1
  BY <1>1, <1>2
<1>6. \A i \in 1..m : more[i] = FindingOf(payload, i, 0)
  BY <1>2, <1>4, <1>5
<1>7. \A i \in (m + 1)..(n + 1) :
        \E other \in payload.pieces : more[i] = FindingOf(payload, m, other)
  BY <1>2, <1>4, <1>5 DEF f
<1>8. \A i, j \in (m + 1)..(n + 1) : more[i] = more[j] => i = j
  BY <1>2, <1>3, <1>4, <1>5
<1>9. Reported(more, m)
  BY <1>4, <1>5, <1>6, <1>7, <1>8 DEF Reported
<1>10. PieceFound(more, m, part)
  BY <1>4, <1>5 DEF PieceFound, f
<1>11. \A other : PieceFound(findings, m, other) => PieceFound(more, m, other)
  BY <1>4, <1>5 DEF PieceFound, n
<1>. QED  BY <1>9, <1>10, <1>11 DEF more, f

LEMMA OneMoreFlag ==
  ASSUME payload \in Payloads, NEW k \in 0..Layers, k < Layers, NEW flag
  PROVE  Flagged(flag, k + 1)
           <=> Flagged(flag, k) \/ DecodeSteps[StepOf(payload.layers[k + 1])].flag = flag
<1>1. Layers \in Nat /\ 1..(k + 1) = 1..k \cup {k + 1}
  BY LayersType
<1>. QED  BY <1>1 DEF Flagged

(* When no layer remains, the rest of the round leaves it so.              *)
LEMMA NoneRemains ==
  ASSUME payload \in Payloads, payload' = payload, round' = round, step' = step + 1,
         changed' = changed, step \in 1..14, NEW k \in 0..Layers, NEW m, NEW n,
         InTime(k, m), ~Remains(k, n)'
  PROVE  InTime(k, n)'
<1>1. round' \in 1..MaxDecodeRounds /\ step' \in 1..15
  BY DEF InTime
<1>2. changed' \in BOOLEAN
  BY DEF InTime
<1>3. (k > 0 => RoundOf(payload.layers)[k] <= round)'
  BY DEF InTime
<1>4. (changed <=> k > 0 /\ RoundOf(payload.layers)[k] = round)'
  BY DEF InTime
<1>5. (changed => StepOf(payload.layers[k]) < step)'
  <2>1. SUFFICES ASSUME changed PROVE StepOf(payload.layers[k]) < step + 1
    OBVIOUS
  <2>2. k > 0 /\ StepOf(payload.layers[k]) < step
    BY <2>1 DEF InTime
  <2>3. k \in 1..Layers
    BY <2>2, LayersType
  <2>4. StepOf(payload.layers[k]) \in 1..14
    BY <2>3, LayersType
  <2>. QED  BY <2>2, <2>4
<1>. QED  BY <1>1, <1>2, <1>3, <1>4, <1>5 DEF InTime

(* A step that decodes takes the next layer off, or reports it once, ...   *)
LEMMA DecodeWhole ==
  ASSUME NormalizerOK, Decode, DecodeSteps[step].part = 0
  PROVE  NormalizerOK'
<1>. DEFINE R == RoundOf(payload.layers)
            decoder == DecodeSteps[step]
            finding == Finding(decoder, text, round, payload.context)
<1>1. PICK k, m : Decoding(k, m)
  BY DEF NormalizerOK, Decode
<1>2. /\ payload \in Payloads /\ payload' = payload /\ phase' = "decoding"
      /\ round' = round /\ step' = step + 1 /\ changed' = (changed \/ decoder.replaces)
      /\ text' = IF decoder.replaces THEN Beneath(text) ELSE text
      /\ IF Known(findings, finding)
           THEN findings' = findings /\ flags' = flags
           ELSE findings' = Append(findings, finding) /\ flags' = flags \cup {decoder.flag}
      /\ Decodes(decoder, text)
  BY DEF NormalizerOK, Decode
<1>3. /\ k \in 0..Layers /\ m \in 0..Layers /\ text = Read(k)
      /\ Peeled(k, m) /\ InTime(k, m) /\ Reported(findings, m) /\ PiecesInTime(m)
  BY <1>1 DEF Decoding
<1>4. /\ Layers \in Nat /\ Layers' = Layers /\ payload.layers \in Seq(Encodings)
      /\ Layers = Len(payload.layers)
  BY <1>2, LayersType DEF Layers
<1>f. Findings' = Findings
  BY <1>2, <1>4 DEF Findings
<1>5. step \in 1..14
  BY <1>3, Steps DEF InTime, Decode
<1>6. /\ k < Layers /\ StepOf(payload.layers[k + 1]) = step
      /\ Takes(payload.layers[k + 1], Under(payload, k + 2))
  BY <1>2, <1>3, <1>5, DecodesNext
<1>7. k + 1 \in 1..Layers /\ k + 1 \in 0..Layers
  BY <1>3, <1>4, <1>6
<1>8. text = Under(payload, k + 1) /\ Beneath(text) = Read(k + 1)
  BY <1>2, <1>3, <1>6, ReadAt
<1>9. m = k \/ (m = k + 1 /\ ~decoder.replaces)
  BY <1>3, <1>6 DEF Peeled, Replaced
<1>a. decoder = DecoderOf(payload.layers[k + 1], 0)
  BY <1>6 DEF DecoderOf
<1>10. Known(findings, finding) <=> m = k + 1
  <2>1. /\ finding.original = FindingOf(payload, k + 1, 0).original
        /\ finding.decoded = FindingOf(payload, k + 1, 0).decoded
        /\ finding.kind = FindingOf(payload, k + 1, 0).kind
    BY <1>8, <1>a DEF Finding, FindingOf
  <2>2. /\ finding.original = PieceOf(k + 1, 0) /\ finding.decoded = PieceOf(k + 2, 0)
        /\ finding.kind = DecodeSteps[StepOf(payload.layers[k + 1])].kind
    <3>1. (k + 1) + 1 = k + 2 /\ 0 \in 0..2
      BY <1>4, <1>3
    <3>. QED  BY <1>2, <1>7, <2>1, <3>1, Originals
  <2>. HIDE DEF finding
  <2>. QED  BY <1>2, <1>3, <1>6, <2>2, MetAgain
<1>. HIDE DEF finding
<1>b. step # 12 /\ step # 13
  BY <1>5, Steps
<1>c. ~Segmented(k)
  <2>1. k = 0 \/ k \in 1..k
    BY <1>3, <1>4
  <2>. QED  BY <1>2, <1>3, <2>1, PiecesLast DEF Segmented
<1>11. CASE m = k + 1
  <2>1. findings' = findings /\ flags' = flags /\ text' = text /\ changed' = changed
    <3>1. ~decoder.replaces /\ Known(findings, finding)
      BY <1>3, <1>9, <1>10, <1>11
    <3>2. findings' = findings /\ flags' = flags /\ text' = text
      BY <1>2, <3>1
    <3>3. changed \in BOOLEAN
      BY <1>3 DEF InTime
    <3>. QED  BY <1>2, <3>1, <3>2, <3>3
  <2>2. InTime(k, m)'
    <3>1. ~Remains(k, m)'
      BY <1>3, <1>11 DEF Remains
    <3>. QED  BY <1>2, <1>3, <1>5, <2>1, <3>1, NoneRemains
  <2>3. PiecesInTime(m)'
    <3>1. SUFFICES ASSUME Segmented(m), NEW part \in payload.pieces,
                          ~PieceFound(findings, m, part)
                   PROVE  R[m] = round /\ step + 1 <= PieceAt(part)
      BY <1>2, <2>1 DEF PiecesInTime, Segmented, PieceFound, Layers
    <3>2. R[m] = round /\ step <= PieceAt(part) /\ part \in {1, 2}
      BY <1>2, <1>3, <3>1, PiecesLast DEF PiecesInTime
    <3>. QED  BY <1>5, <1>b, <3>2 DEF PieceAt
  <2>4. Peeled(k, m)' /\ Reported(findings, m)' /\ (text = Read(k))'
    BY <1>2, <1>3, <1>f, <2>1 DEF Peeled, Reported, Read, Layers, Flagged, Replaced, Segmented
  <2>5. Decoding(k, m)'
    BY <1>2, <1>3, <1>4, <2>1, <2>2, <2>3, <2>4 DEF Decoding
  <2>. QED  BY <1>2, <2>5 DEF NormalizerOK
<1>12. CASE m = k
  <2>1. R[k + 1] = round /\ k + 1 \in FoundLayers(payload)
    BY <1>2, <1>3, <1>6, <1>12, MetInTime DEF Remains
  <2>2. finding = FindingOf(payload, k + 1, 0)
    BY <1>8, <1>a, <2>1 DEF finding, FindingOf
  <2>3. ~Known(findings, finding)
    BY <1>3, <1>10, <1>12
  <2>4. findings' = Append(findings, FindingOf(payload, k + 1, 0)) /\ flags' = flags \cup {decoder.flag}
    BY <1>2, <2>2, <2>3
  <2>5. Reported(findings, k + 1)'
    <3>1. Reported(Append(findings, FindingOf(payload, k + 1, 0)), k + 1)
      BY <1>2, <1>3, <1>6, <1>12, <1>c, OneMoreFound
    <3>. DEFINE found == Append(findings, FindingOf(payload, k + 1, 0))
    <3>. HIDE DEF found
    <3>2. Reported(found, k + 1) /\ findings' = found
      BY <2>4, <3>1 DEF found
    <3>. QED  BY <1>2, <1>f, <3>2 DEF Reported, Layers, Segmented
  <2>6. \A i \in 1..14 : DecodeSteps[i].flag \in flags' <=> Flagged(DecodeSteps[i].flag, k + 1)
    <3>1. \A i \in 1..14 : DecodeSteps[i].flag \in flags <=> Flagged(DecodeSteps[i].flag, k)
      BY <1>3, <1>12 DEF Peeled
    <3>. QED  BY <1>2, <1>3, <1>6, <2>4, <3>1, OneMoreFlag
  <2>7. \A i \in 1..(k + 1) : i \in FoundLayers(payload)
    <3>1. \A i \in 1..(k + 1) : i \in 1..k \/ i = k + 1
      BY <1>3, <1>4
    <3>. QED  BY <1>3, <1>12, <2>1, <3>1 DEF Peeled
  <2>a. PiecesInTime(k + 1)'
    <3>1. SUFFICES ASSUME Segmented(k + 1), NEW part \in payload.pieces
                   PROVE  R[k + 1] = round /\ step + 1 <= PieceAt(part)
      BY <1>2 DEF PiecesInTime, Segmented, Layers
    <3>2. step = 10
      <4>1. 10 \in 1..14
        OBVIOUS
      <4>. QED  BY <1>6, <3>1, <4>1, Steps, StepIs DEF Segmented
    <3>3. part \in {1, 2}
      BY <1>2, <1>3, <3>1, PiecesLast
    <3>. QED  BY <2>1, <3>2, <3>3 DEF PieceAt
  <2>8. CASE decoder.replaces
    <3>1. text' = Read(k + 1) /\ changed'
      BY <1>2, <1>8, <2>8
    <3>2. Peeled(k + 1, k + 1)'
      <4>1. \A i \in 1..(k + 1) : i \in 1..k \/ i = k + 1
        BY <1>3, <1>4
      <4>2. \A i \in 1..(k + 1) : Replaced(i)
        BY <1>3, <1>6, <1>12, <2>8, <4>1 DEF Peeled, Replaced
      <4>. QED  BY <1>2, <2>6, <2>7, <4>2 DEF Peeled, Replaced, Flagged
    <3>3. InTime(k + 1, k + 1)'
      <4>1. round' \in 1..MaxDecodeRounds /\ step' \in 1..15
        BY <1>2, <1>3, <1>5 DEF InTime
      <4>2. changed' \in BOOLEAN
        BY <1>2, <1>3, <2>8 DEF InTime
      <4>3. Remains(k + 1, k + 1)'
              => \/ R[k + 1 + 1] = round /\ StepOf(payload.layers[k + 1 + 1]) >= step + 1
                 \/ R[k + 1 + 1] = round + 1
        <5>1. SUFFICES ASSUME k + 1 < Layers
                       PROVE  \/ R[k + 1 + 1] = round /\ StepOf(payload.layers[k + 1 + 1]) >= step + 1
                              \/ R[k + 1 + 1] = round + 1
          BY <1>4 DEF Remains
        <5>2. k + 1 \in 1..(Layers - 1) /\ k + 1 + 1 \in 1..Layers
          BY <1>3, <1>4, <5>1
        <5>3. StepOf(payload.layers[k + 1 + 1]) \in 1..14
          BY <1>2, <5>2, LayersType
        <5>4. R[k + 1 + 1] = IF StepOf(payload.layers[k + 1 + 1]) <= StepOf(payload.layers[k + 1])
                               THEN R[k + 1] + 1 ELSE R[k + 1]
          BY <1>4, <5>2, Rounds
        <5>. QED  BY <1>5, <1>6, <2>1, <5>3, <5>4
      <4>4. k + 1 > 0
        BY <1>3
      <4>. QED  BY <1>2, <1>5, <1>6, <2>1, <3>1, <4>1, <4>2, <4>3, <4>4 DEF InTime
    <3>4. Decoding(k + 1, k + 1)'
      <4>1. Read(k + 1)' = Read(k + 1)
        BY <1>2 DEF Read, Layers
      <4>. QED  BY <1>4, <1>7, <2>5, <2>a, <3>1, <3>2, <3>3, <4>1 DEF Decoding
    <3>. QED  BY <1>2, <3>4 DEF NormalizerOK
  <2>9. CASE ~decoder.replaces
    <3>1. text' = Read(k)
      BY <1>2, <1>3, <2>9
    <3>2. changed' = changed
      BY <1>2, <1>3, <2>9 DEF InTime
    <3>3. Peeled(k, k + 1)'
      BY <1>2, <1>3, <1>6, <1>12, <2>6, <2>7, <2>9 DEF Peeled, Replaced, Flagged
    <3>4. InTime(k, k + 1)'
      <4>1. ~Remains(k, k + 1)'
        BY <1>3 DEF Remains
      <4>. QED  BY <1>2, <1>3, <1>5, <3>2, <4>1, NoneRemains
    <3>5. Decoding(k, k + 1)'
      <4>1. Read(k)' = Read(k)
        BY <1>2 DEF Read, Layers
      <4>. QED  BY <1>3, <1>4, <1>7, <2>5, <2>a, <3>1, <3>3, <3>4, <4>1 DEF Decoding
    <3>. QED  BY <1>2, <3>5 DEF NormalizerOK
  <2>. QED  BY <2>8, <2>9
<1>. QED  BY <1>9, <1>11, <1>12

(* ... or reports a segment of the layer that is reported, once.           *)
LEMMA DecodePiece ==
  ASSUME NormalizerOK, Decode, DecodeSteps[step].part # 0
  PROVE  NormalizerOK'
<1>. DEFINE R == RoundOf(payload.layers)
            decoder == DecodeSteps[step]
            finding == Finding(decoder, text, round, payload.context)
<1>1. PICK k, m : Decoding(k, m)
  BY DEF NormalizerOK, Decode
<1>2. /\ payload \in Payloads /\ payload' = payload /\ phase' = "decoding"
      /\ round' = round /\ step' = step + 1 /\ changed' = (changed \/ decoder.replaces)
      /\ text' = IF decoder.replaces THEN Beneath(text) ELSE text
      /\ IF Known(findings, finding)
           THEN findings' = findings /\ flags' = flags
           ELSE findings' = Append(findings, finding) /\ flags' = flags \cup {decoder.flag}
      /\ Decodes(decoder, text)
  BY DEF NormalizerOK, Decode
<1>3. /\ k \in 0..Layers /\ m \in 0..Layers /\ text = Read(k)
      /\ Peeled(k, m) /\ InTime(k, m) /\ Reported(findings, m) /\ PiecesInTime(m)
  BY <1>1 DEF Decoding
<1>4. /\ Layers \in Nat /\ Layers' = Layers /\ payload.layers \in Seq(Encodings)
      /\ Layers = Len(payload.layers)
  BY <1>2, LayersType DEF Layers
<1>5. step \in {12, 13}
  <2>1. step \in 1..14
    BY <1>3, Steps DEF InTime, Decode
  <2>. QED  BY <2>1, Steps
<1>6. PICK part \in {1, 2} : step = PieceAt(part)
  BY <1>5 DEF PieceAt
<1>7. /\ decoder = PieceStep(part) /\ decoder.flag = "base64_decoded" /\ ~decoder.replaces
      /\ decoder.part = part
  BY <1>6, Steps
<1>8. /\ Segmented(k + 1) /\ part \in payload.pieces
      /\ Takes(payload.layers[k + 1], Under(payload, k + 2))
  BY <1>2, <1>3, <1>5, <1>6, DecodesNext
<1>9. k < Layers /\ k + 1 \in 1..Layers /\ StepOf(payload.layers[k + 1]) = 10
  <2>1. 10 \in 1..14
    OBVIOUS
  <2>. QED  BY <1>3, <1>4, <1>8, <2>1, Steps, StepIs DEF Segmented
(* The whole was found by a step before.                                   *)
<1>10. m = k + 1
  <2>1. SUFFICES ASSUME m = k PROVE FALSE
    BY <1>3 DEF Peeled
  <2>2. Remains(k, m)
    BY <1>8, <1>9, <2>1 DEF Remains
  <2>3. ~(StepOf(payload.layers[k + 1]) >= step)
    BY <1>5, <1>9
  <2>4. /\ changed /\ R[k + 1] = round + 1 /\ k > 0 /\ R[k] = round
        /\ StepOf(payload.layers[k]) < step
    BY <1>3, <2>2, <2>3 DEF InTime
  <2>5. k \in 1..k /\ k \in 1..Layers /\ k \in 1..(Layers - 1)
    BY <1>3, <1>4, <1>9, <2>4
  <2>6. StepOf(payload.layers[k]) \in 1..14 /\ DecodeSteps[StepOf(payload.layers[k])].replaces
    BY <1>2, <1>3, <2>5, LayersType DEF Peeled, Replaced
  <2>7. StepOf(payload.layers[k]) \in 1..7
    <3>1. StepOf(payload.layers[k]) \notin 8..13
      BY <2>6, Steps
    <3>. QED  BY <1>5, <2>4, <2>6, <3>1
  <2>8. R[k + 1] = IF StepOf(payload.layers[k + 1]) <= StepOf(payload.layers[k])
                     THEN R[k] + 1 ELSE R[k]
    BY <1>4, <2>5, Rounds
  <2>9. round \in Nat
    BY <1>3, RoundsAssumption DEF InTime
  <2>. QED  BY <1>9, <2>4, <2>7, <2>8, <2>9
<1>11. Segmented(m) /\ m \in 1..Layers /\ text = Under(payload, m)
  BY <1>2, <1>3, <1>8, <1>9, <1>10, ReadAt
<1>12. text' = text /\ changed' = changed
  BY <1>2, <1>3, <1>7 DEF InTime
<1>13. DecoderOf(payload.layers[m], part) = decoder
  BY <1>7 DEF DecoderOf
<1>14. R[m] = round => finding = FindingOf(payload, m, part)
  BY <1>11, <1>13 DEF FindingOf
<1>15. Known(findings, finding) <=> PieceFound(findings, m, part)
  <2>1. /\ finding.original = FindingOf(payload, m, part).original
        /\ finding.decoded = FindingOf(payload, m, part).decoded
        /\ finding.kind = FindingOf(payload, m, part).kind
    BY <1>11, <1>13 DEF Finding, FindingOf
  <2>2. /\ finding.original = PieceOf(m, part) /\ finding.decoded = PieceOf(m + 1, part)
        /\ finding.kind = "base64"
    <3>1. part \in 0..2 /\ part # 0
      BY <1>6
    <3>. QED  BY <1>2, <1>11, <2>1, <3>1, Originals
  <2>. HIDE DEF finding
  <2>3. payload.pieces \subseteq {1, 2}
    BY <1>2, <1>3, PiecesLast
  <2>. QED  BY <1>2, <1>3, <1>6, <1>11, <2>2, <2>3, PieceMetAgain
<1>. HIDE DEF finding
<1>16. /\ Reported(findings', m) /\ PieceFound(findings', m, part)
       /\ \A other : PieceFound(findings, m, other) => PieceFound(findings', m, other)
       /\ flags' = flags \/ flags' = flags \cup {"base64_decoded"}
  <2>1. CASE PieceFound(findings, m, part)
    BY <1>2, <1>3, <1>15, <2>1
  <2>2. CASE ~PieceFound(findings, m, part)
    <3>1. R[m] = round
      BY <1>3, <1>8, <1>11, <2>2 DEF PiecesInTime
    <3>2. findings' = Append(findings, FindingOf(payload, m, part))
      BY <1>2, <1>14, <1>15, <2>2, <3>1
    <3>3. flags' = flags \cup {"base64_decoded"}
      BY <1>2, <1>7, <1>15, <2>2
    <3>. QED  BY <1>2, <1>3, <1>6, <1>8, <1>11, <2>2, <3>2, <3>3, OnePieceMore
  <2>. QED  BY <2>1, <2>2
<1>17. Reported(findings, m)'
  BY <1>2, <1>16 DEF Reported, Segmented, Findings, Layers
<1>18. PiecesInTime(m)'
  <2>1. SUFFICES ASSUME NEW other \in payload.pieces, ~PieceFound(findings', m, other)
                 PROVE  R[m] = round /\ step + 1 <= PieceAt(other)
    BY <1>2 DEF PiecesInTime, PieceFound
  <2>2. R[m] = round /\ step <= PieceAt(other) /\ other \in {1, 2} /\ other # part
    BY <1>2, <1>3, <1>11, <1>16, <2>1, PiecesLast DEF PiecesInTime
  <2>. QED  BY <1>5, <1>6, <2>2 DEF PieceAt
<1>19. Peeled(k, m)'
  <2>1. \A i \in 1..14 : DecodeSteps[i].flag \in flags' <=> Flagged(DecodeSteps[i].flag, m)
    <3>1. Flagged("base64_decoded", m)
      <4>1. m \in 1..m
        BY <1>4, <1>11
      <4>. QED  BY <1>9, <1>10, <4>1, Steps DEF Flagged
    <3>2. \A i \in 1..14 : DecodeSteps[i].flag \in flags <=> Flagged(DecodeSteps[i].flag, m)
      BY <1>3 DEF Peeled
    <3>. QED  BY <1>16, <3>1, <3>2
  <2>. QED  BY <1>2, <1>3, <2>1 DEF Peeled, Replaced, Flagged
<1>20. InTime(k, m)'
  <2>1. ~Remains(k, m)'
    BY <1>3, <1>10 DEF Remains
  <2>2. step \in 1..14
    BY <1>5
  <2>. QED  BY <1>2, <1>3, <1>12, <2>1, <2>2, NoneRemains
<1>21. Decoding(k, m)'
  <2>1. Read(k)' = Read(k)
    BY <1>2 DEF Read, Layers
  <2>. QED  BY <1>3, <1>4, <1>12, <1>17, <1>18, <1>19, <1>20, <2>1 DEF Decoding
<1>. QED  BY <1>2, <1>21 DEF NormalizerOK

(* At the end of a round what remains waits for the next one, if any.      *)
LEMMA EndRoundStep ==
  ASSUME NormalizerOK, EndRound
  PROVE  NormalizerOK'
<1>. DEFINE R == RoundOf(payload.layers)
<1>1. PICK k, m : Decoding(k, m)
  BY DEF NormalizerOK, EndRound
<1>2. /\ payload \in Payloads /\ payload' = payload /\ text' = text
      /\ findings' = findings /\ flags' = flags /\ changed' = FALSE
  BY DEF NormalizerOK, EndRound
<1>3. /\ k \in 0..Layers /\ m \in 0..Layers /\ Layers \in Nat /\ Layers' = Layers
      /\ Peeled(k, m) /\ InTime(k, m) /\ Reported(findings, m) /\ text = Read(k)
      /\ PiecesInTime(m)
  BY <1>1, <1>2, LayersType DEF Decoding, Layers
<1>4. step = 15
  BY <1>3, Steps DEF InTime, EndRound
<1>5. round \in 1..MaxDecodeRounds /\ MaxDecodeRounds \in Nat
  BY <1>3, RoundsAssumption DEF InTime
<1>6. Remains(k, m) => changed /\ R[k + 1] = round + 1 /\ StepOf(payload.layers[k + 1]) \in 1..14
  <2>1. SUFFICES ASSUME Remains(k, m)
                 PROVE  /\ changed /\ R[k + 1] = round + 1
                        /\ StepOf(payload.layers[k + 1]) \in 1..14
    OBVIOUS
  <2>2. k + 1 \in 1..Layers
    BY <1>3, <2>1 DEF Remains
  <2>3. StepOf(payload.layers[k + 1]) \in 1..14
    BY <1>2, <2>2, LayersType
  <2>4. ~(StepOf(payload.layers[k + 1]) >= 15)
    BY <2>3
  <2>. QED  BY <1>3, <1>4, <2>1, <2>3, <2>4 DEF InTime
<1>7. /\ Peeled(k, m)' /\ Reported(findings, m)' /\ text' = Read(k)'
  BY <1>2, <1>3 DEF Peeled, Reported, Read, Layers, Flagged, Replaced, Segmented, Findings
<1>a. PiecesFound(findings, m)' /\ PiecesInTime(m)'
  <2>1. PiecesFound(findings, m)
    <3>1. \A part \in payload.pieces : Segmented(m) => ~(15 <= PieceAt(part))
      BY <1>2, <1>3, PiecesLast DEF PieceAt
    <3>. QED  BY <1>3, <1>4, <3>1 DEF PiecesInTime, PiecesFound
  <2>2. PiecesFound(findings, m)'
    BY <1>2, <2>1 DEF PiecesFound, PieceFound, Segmented, Layers
  <2>. QED  BY <2>2 DEF PiecesFound, PiecesInTime
<1>8. Remains(k, m)' <=> Remains(k, m)
  BY <1>2 DEF Remains, Layers
<1>9. CASE MoreRounds
  <2>1. round' = round + 1 /\ step' = 1 /\ phase' = "decoding"
    BY <1>9 DEF EndRound
  <2>2. round + 1 \in 1..MaxDecodeRounds
    BY <1>5, <1>9 DEF MoreRounds
  <2>3. InTime(k, m)'
    <3>1. k > 0 => R[k] \in Nat /\ R[k] <= round
      <4>1. SUFFICES ASSUME k > 0 PROVE R[k] \in Nat /\ R[k] <= round
        OBVIOUS
      <4>2. k \in 1..Len(payload.layers) /\ payload.layers \in Seq(Encodings)
        BY <1>2, <1>3, <4>1, LayersType DEF Layers
      <4>3. R[k] \in Nat
        BY <4>2, Rounds
      <4>. QED  BY <1>3, <4>1, <4>3 DEF InTime
    <3>2. changed' \in BOOLEAN /\ ~changed'
      BY <1>2
    <3>3. (k > 0 => RoundOf(payload.layers)[k] <= round)'
      BY <1>2, <1>5, <2>1, <3>1
    <3>4. (changed <=> k > 0 /\ RoundOf(payload.layers)[k] = round)'
      BY <1>2, <1>5, <2>1, <3>1, <3>2
    <3>5. Remains(k, m)' => R[k + 1] = round' /\ StepOf(payload.layers[k + 1]) >= step'
      BY <1>6, <1>8, <2>1
    <3>. QED  BY <1>2, <2>1, <2>2, <3>2, <3>3, <3>4, <3>5 DEF InTime
  <2>. QED  BY <1>2, <1>3, <1>7, <1>a, <2>1, <2>3 DEF NormalizerOK, Decoding
<1>10. CASE ~MoreRounds
  <2>1. phase' = "decoded"
    BY <1>10 DEF EndRound
  <2>2. Remains(k, m) => R[k + 1] > MaxDecodeRounds
    BY <1>5, <1>6, <1>10 DEF MoreRounds
  <2>3. Exhausted(k, m)'
    BY <1>2, <1>8, <2>2 DEF Exhausted
  <2>. QED  BY <1>2, <1>3, <1>7, <1>a, <2>1, <2>3 DEF NormalizerOK, Decoded
<1>. QED  BY <1>9, <1>10

(* The cleaners that follow find no more than a confusable skeleton.       *)
LEMMA CleanAfterStep ==
  ASSUME NormalizerOK, CleanAfter
  PROVE  NormalizerOK'
<1>1. PICK k, m : Decoded(k, m)
  BY DEF NormalizerOK, CleanAfter
<1>2. /\ payload \in Payloads /\ payload' = payload /\ phase' = "normalized"
  BY DEF NormalizerOK, CleanAfter
<1>3. /\ k \in 0..Layers /\ m \in 0..Layers /\ Layers' = Layers
      /\ Peeled(k, m) /\ Exhausted(k, m) /\ Reported(findings, m) /\ text = Read(k)
      /\ PiecesFound(findings, m)
  BY <1>1, <1>2 DEF Decoded, Layers
<1>4. /\ text' = CleanedAfter(text)
      /\ findings' = IF contains_mixed_latin_cyrillic(text') THEN Append(findings, Skeleton(text'))
                     ELSE findings
  BY DEF CleanAfter, CleanedAfter
<1>5. text' = CleanedAfter(Read(k))'
  BY <1>2, <1>3, <1>4 DEF CleanedAfter, Read, Layers
<1>6. \A i \in 1..14 : DecodeSteps[i].flag \in flags' <=> DecodeSteps[i].flag \in flags
  <2>1. \A i \in 1..14 :
          DecodeSteps[i].flag \notin {"multi_round_decoding", "zero_width_removed",
            "control_chars_removed", "obfuscation_collapsed", "combining_marks_removed",
            "mixed_script_detected", "confusable_skeleton_generated",
            "suspicious_instruction_override_detected"}
    BY RowFlags
  <2>2. \A condition, flag, f : f \in Raise(condition, flag) => f = flag
    BY DEF Raise
  <2>. QED  BY <2>1, <2>2 DEF CleanAfter
<1>7. Peeled(k, m)' /\ Exhausted(k, m)'
  BY <1>2, <1>3, <1>6 DEF Peeled, Exhausted, Remains, Layers, Flagged, Replaced
<1>8. \E found : /\ Reported(found, m)' /\ PiecesFound(found, m)'
                /\ findings' = IF contains_mixed_latin_cyrillic(text')
                                 THEN Append(found, Skeleton(text')) ELSE found
  <2>1. \A found : found = findings => Reported(found, m)' /\ PiecesFound(found, m)'
    BY <1>2, <1>3 DEF Reported, PiecesFound, PieceFound, Segmented, Findings, Layers
  <2>. QED  BY <1>3, <1>4, <2>1
<1>9. Concluded(k, m)'
  BY <1>3, <1>5, <1>7, <1>8 DEF Concluded
<1>. QED  BY <1>2, <1>9 DEF NormalizerOK

LEMMA NormalizerStep ==
  ASSUME NormalizerOK, [NormalizerNext]_normalizerVars
  PROVE  NormalizerOK'
<1>1. CASE UNCHANGED normalizerVars
  <2>1. /\ payload' = payload /\ text' = text /\ phase' = phase /\ round' = round /\ step' = step
        /\ changed' = changed /\ findings' = findings /\ flags' = flags
    BY <1>1 DEF normalizerVars
  <2>2. ASSUME NEW k, NEW m
        PROVE  /\ Peeled(k, m) => Peeled(k, m)'
               /\ InTime(k, m) => InTime(k, m)'
               /\ Exhausted(k, m) => Exhausted(k, m)'
               /\ Reported(findings, m) => Reported(findings, m)'
               /\ Layers' = Layers /\ Read(k)' = Read(k)
               /\ \A found : Reported(found, m) => Reported(found, m)'
               /\ \A found : PiecesFound(found, m) => PiecesFound(found, m)'
               /\ PiecesFound(findings, m) => PiecesFound(findings, m)'
               /\ PiecesInTime(m) => PiecesInTime(m)'
    <3>1. Peeled(k, m) => Peeled(k, m)'
      BY <2>1 DEF Peeled, Flagged, Replaced
    <3>2. InTime(k, m) => InTime(k, m)'
      BY <2>1 DEF InTime, Remains, Layers
    <3>3. Exhausted(k, m) => Exhausted(k, m)'
      BY <2>1 DEF Exhausted, Remains, Layers
    <3>4. Layers' = Layers /\ Read(k)' = Read(k)
      BY <2>1 DEF Read, Layers
    <3>5. /\ Reported(findings, m) => Reported(findings, m)'
          /\ \A found : Reported(found, m) => Reported(found, m)'
      BY <2>1 DEF Reported, Layers, Segmented, Findings
    <3>6. /\ \A found : PiecesFound(found, m) => PiecesFound(found, m)'
          /\ PiecesFound(findings, m) => PiecesFound(findings, m)'
          /\ PiecesInTime(m) => PiecesInTime(m)'
      BY <2>1 DEF PiecesFound, PiecesInTime, PieceFound, Segmented, Layers
    <3>. QED  BY <3>1, <3>2, <3>3, <3>4, <3>5, <3>6
  <2>3. \A k, m : Decoding(k, m) => Decoding(k, m)'
    BY <2>1, <2>2 DEF Decoding
  <2>4. \A k, m : Decoded(k, m) => Decoded(k, m)'
    BY <2>1, <2>2 DEF Decoded
  <2>5. \A k, m : Concluded(k, m) => Concluded(k, m)'
    BY <2>1, <2>2 DEF Concluded
  <2>. QED  BY <2>1, <2>3, <2>4, <2>5 DEF NormalizerOK
<1>. QED  BY <1>1, CleanBeforeStep, PassStep, DecodeWhole, DecodePiece, EndRoundStep, CleanAfterStep
          DEF NormalizerNext
-----------------------------------------------------------------------------
(* The layers found are those the rounds could reach.                      *)
LEMMA FoundAreReached ==
  ASSUME payload \in Payloads, NEW k \in 0..Layers, NEW m \in 0..Layers,
         Peeled(k, m), Exhausted(k, m)
  PROVE  FoundLayers(payload) = 1..m
<1>. DEFINE R == RoundOf(payload.layers)
<1>1. /\ payload.layers \in Seq(Encodings) /\ Layers \in Nat /\ Layers = Len(payload.layers)
      /\ DOMAIN payload.layers = 1..Layers
  BY LayersType DEF Layers
<1>2. ASSUME NEW j \in FoundLayers(payload), ~(j \in 1..m) PROVE FALSE
  <2>1. /\ j \in 1..Layers /\ R[j] <= MaxDecodeRounds
        /\ \A i \in 1..j : Takes(payload.layers[i], Under(payload, i + 1))
        /\ \A i \in 1..(j - 1) : Replaced(i)
    BY <1>1 DEF FoundLayers, Replaced
  <2>2. m < j
    BY <1>1, <1>2, <2>1
  <2>3. m = k
    <3>1. m > 0 => m \in 1..(j - 1)
      BY <2>1, <2>2
    <3>. QED  BY <2>1, <3>1 DEF Peeled
  <2>4. k + 1 \in 1..j /\ k + 1 \in 1..Layers
    BY <1>1, <2>1, <2>2, <2>3
  <2>5. Remains(k, m)
    <3>1. (k + 1) + 1 = k + 2
      OBVIOUS
    <3>2. Takes(payload.layers[k + 1], Under(payload, (k + 1) + 1))
      BY <2>1, <2>4
    <3>. QED  BY <1>1, <2>3, <2>4, <3>1, <3>2 DEF Remains
  <2>6. R[k + 1] <= R[j] /\ R[k + 1] \in Nat /\ R[j] \in Nat
    BY <1>1, <2>1, <2>4, Rounds
  <2>. QED  BY <2>1, <2>5, <2>6, RoundsAssumption DEF Exhausted
<1>. QED  BY <1>2 DEF Peeled

(* The findings are those of the decoders, and the skeleton of a text      *)
(* that is still mixed.                                                    *)
LEMMA FindingsListed ==
  ASSUME payload \in Payloads, NEW k, NEW m, Concluded(k, m)
  PROVE  \E n \in Nat :
           /\ contains_mixed_latin_cyrillic(text) =>
                DOMAIN findings = 1..(n + 1) /\ findings[n + 1] = Skeleton(text)
           /\ ~contains_mixed_latin_cyrillic(text) => DOMAIN findings = 1..n
           /\ m <= n
           /\ \A i \in 1..m : findings[i] = FindingOf(payload, i, 0)
           /\ \A i \in (m + 1)..n :
                Segmented(m) /\ \E part \in payload.pieces : findings[i] = FindingOf(payload, m, part)
           /\ \A i, j \in (m + 1)..n : findings[i] = findings[j] => i = j
           /\ Segmented(m) =>
                \A part \in payload.pieces :
                  \E i \in (m + 1)..n : findings[i] = FindingOf(payload, m, part)
<1>1. PICK found : /\ Reported(found, m) /\ PiecesFound(found, m)
                   /\ findings = IF contains_mixed_latin_cyrillic(text)
                                   THEN Append(found, Skeleton(text)) ELSE found
  BY DEF Concluded
<1>. DEFINE n == Len(found)
<1>2. /\ found \in Seq(Findings) /\ n \in Nat /\ m \in Nat /\ m <= n /\ DOMAIN found = 1..n
      /\ \A i \in 1..m : found[i] = FindingOf(payload, i, 0)
      /\ \A i \in (m + 1)..n :
           Segmented(m) /\ \E part \in payload.pieces : found[i] = FindingOf(payload, m, part)
      /\ \A i, j \in (m + 1)..n : found[i] = found[j] => i = j
      /\ Segmented(m) =>
           \A part \in payload.pieces :
             \E i \in (m + 1)..n : found[i] = FindingOf(payload, m, part)
  BY <1>1, LayersType DEF Reported, PiecesFound, PieceFound, Concluded
<1>3. /\ contains_mixed_latin_cyrillic(text) =>
           DOMAIN findings = 1..(n + 1) /\ findings[n + 1] = Skeleton(text)
      /\ ~contains_mixed_latin_cyrillic(text) => DOMAIN findings = 1..n
      /\ \A i \in 1..n : findings[i] = found[i]
  <2>1. CASE contains_mixed_latin_cyrillic(text)
    <3>. DEFINE s == Skeleton(text)
    <3>. HIDE DEF s
    <3>1. found \in Seq(Findings \cup {s}) /\ s \in Findings \cup {s}
      BY <1>2
    <3>2. /\ DOMAIN Append(found, s) = 1..(n + 1) /\ Append(found, s)[n + 1] = s
          /\ \A i \in 1..n : Append(found, s)[i] = found[i]
      BY <1>2, <3>1
    <3>3. findings = Append(found, s)
      BY <1>1, <2>1 DEF s
    <3>. QED  BY <2>1, <3>2, <3>3 DEF s
  <2>2. CASE ~contains_mixed_latin_cyrillic(text)
    BY <1>1, <1>2, <2>2
  <2>. QED  BY <2>1, <2>2
<1>. HIDE DEF n
<1>4. /\ \A i \in 1..m : i \in 1..n
      /\ \A i \in (m + 1)..n : i \in 1..n
  BY <1>2
<1>5. /\ \A i \in 1..m : findings[i] = FindingOf(payload, i, 0)
      /\ \A i \in (m + 1)..n : findings[i] = found[i]
  BY <1>2, <1>3, <1>4
<1>6. /\ \A i \in (m + 1)..n :
           Segmented(m) /\ \E part \in payload.pieces : findings[i] = FindingOf(payload, m, part)
      /\ \A i, j \in (m + 1)..n : findings[i] = findings[j] => i = j
  BY <1>2, <1>5
<1>7. ASSUME Segmented(m), NEW part \in payload.pieces
      PROVE  \E i \in (m + 1)..n : findings[i] = FindingOf(payload, m, part)
  BY <1>2, <1>5, <1>7
<1>. QED  BY <1>2, <1>3, <1>5, <1>6, <1>7

(* What the decoders found: each layer, and the pieces of the last.        *)
LEMMA FoundOnce ==
  ASSUME payload \in Payloads, NEW k, NEW m, Concluded(k, m)
  PROVE  LET decoded == { i \in DOMAIN findings : findings[i].kind # "confusable_skeleton" }
             Is(i, f) == findings[i] = FindingOf(payload, f[1], f[2])
         IN  /\ FoundLayers(payload) = 1..m
             /\ \E n \in Nat : decoded = 1..n
             /\ \A i \in decoded : \E f \in FoundParts(payload) : Is(i, f)
             /\ \A f \in FoundParts(payload) : \E i \in decoded : Is(i, f)
             /\ \A i, j \in decoded : findings[i] = findings[j] => i = j
             /\ \A f, g \in FoundParts(payload) :
                  FindingOf(payload, f[1], f[2]) = FindingOf(payload, g[1], g[2]) => f = g
             /\ \A i \in 1..14 : DecodeSteps[i].flag \in flags <=> Flagged(DecodeSteps[i].flag, m)
<1>. DEFINE decoded == { i \in DOMAIN findings : findings[i].kind # "confusable_skeleton" }
            Parts == FoundParts(payload)
            Of(f) == FindingOf(payload, f[1], f[2])
            mixed == contains_mixed_latin_cyrillic(text)
<1>1. /\ k \in 0..Layers /\ m \in 0..Layers /\ m \in Nat /\ Layers \in Nat
      /\ DOMAIN payload.layers = 1..Layers /\ Peeled(k, m)
  BY LayersType DEF Concluded
<1>2. FoundLayers(payload) = 1..m
  BY <1>1, FoundAreReached DEF Concluded
<1>3. PICK n \in Nat :
        /\ mixed => DOMAIN findings = 1..(n + 1) /\ findings[n + 1] = Skeleton(text)
        /\ ~mixed => DOMAIN findings = 1..n
        /\ m <= n
        /\ \A i \in 1..m : findings[i] = FindingOf(payload, i, 0)
        /\ \A i \in (m + 1)..n :
             Segmented(m) /\ \E part \in payload.pieces : findings[i] = FindingOf(payload, m, part)
        /\ \A i, j \in (m + 1)..n : findings[i] = findings[j] => i = j
        /\ Segmented(m) =>
             \A part \in payload.pieces :
               \E i \in (m + 1)..n : findings[i] = FindingOf(payload, m, part)
  BY FindingsListed
<1>4. payload.pieces \subseteq {1, 2}
  BY <1>1, PiecesLast
<1>5. ASSUME NEW f
      PROVE  f \in Parts <=> \/ \E i \in 1..m : f = << i, 0 >>
                             \/ Segmented(m) /\ \E part \in payload.pieces : f = << m, part >>
  <2>1. \A i \in 1..m : i \in 1..Layers
    BY <1>1
  <2>2. \A i \in 1..m : Segmented(i) => i = m
    <3>1. \A i \in 1..m : i \in 1..k \/ i = m
      BY <1>1 DEF Peeled
    <3>. QED  BY <1>1, <3>1, PiecesLast
  <2>3. \A i \in 1..m :
          PartsOf(payload, i) = {0} \cup (IF Segmented(i) THEN payload.pieces ELSE {})
    BY <2>1 DEF PartsOf, Segmented
  <2>4. f \in Parts <=> \E i \in 1..m : \E part \in PartsOf(payload, i) : f = << i, part >>
    BY <1>2 DEF FoundParts
  <2>5. \A i \in 1..m : \A part : part \in PartsOf(payload, i) <=>
          part = 0 \/ (Segmented(i) /\ part \in payload.pieces)
    BY <2>3
  <2>6. Segmented(m) => m \in 1..m
    BY <1>1 DEF Segmented
  <2>. QED  BY <2>2, <2>4, <2>5, <2>6
<1>. HIDE DEF Parts
<1>6. \A f \in Parts : /\ f[1] \in 1..Layers /\ f[2] \in 0..2 /\ f = << f[1], f[2] >>
  <2>1. \A i \in 1..m : i \in 1..Layers
    BY <1>1
  <2>. QED  BY <1>4, <1>5, <2>1 DEF Segmented
<1>7. ASSUME NEW f \in Parts, NEW g \in Parts, Of(f) = Of(g)
      PROVE  f = g
  <2>1. PieceOf(f[1], f[2]) = PieceOf(g[1], g[2])
    BY <1>6, <1>7, Originals
  <2>2. f[1] = g[1] /\ f[2] = g[2]
    BY <1>6, <2>1, OriginalsDiffer
  <2>. QED  BY <1>6, <2>2
<1>8. \A i \in 1..n : \E f \in Parts : findings[i] = Of(f)
  <2>. TAKE i \in 1..n
  <2>1. CASE i \in 1..m
    <3>1. << i, 0 >> \in Parts
      BY <1>5, <2>1
    <3>. QED  BY <1>3, <2>1, <3>1
  <2>2. CASE i \in (m + 1)..n
    <3>1. PICK part \in payload.pieces : Segmented(m) /\ findings[i] = FindingOf(payload, m, part)
      BY <1>3, <2>2
    <3>2. << m, part >> \in Parts
      BY <1>5, <3>1
    <3>. QED  BY <3>1, <3>2
  <2>. QED  BY <1>1, <2>1, <2>2
<1>9. \A f \in Parts : \E i \in 1..n : findings[i] = Of(f)
  <2>. TAKE f \in Parts
  <2>1. CASE \E i \in 1..m : f = << i, 0 >>
    <3>1. PICK i \in 1..m : f = << i, 0 >>
      BY <2>1
    <3>2. i \in 1..n /\ findings[i] = FindingOf(payload, i, 0)
      BY <1>1, <1>3, <3>1
    <3>. QED  BY <3>1, <3>2
  <2>2. CASE Segmented(m) /\ \E part \in payload.pieces : f = << m, part >>
    <3>1. PICK part \in payload.pieces : f = << m, part >>
      BY <2>2
    <3>2. PICK i \in (m + 1)..n : findings[i] = FindingOf(payload, m, part)
      BY <1>3, <2>2
    <3>3. i \in 1..n
      BY <1>1
    <3>. QED  BY <3>1, <3>2, <3>3
  <2>. QED  BY <1>5, <2>1, <2>2
<1>10. ASSUME NEW i \in 1..n, NEW j \in 1..n, findings[i] = findings[j]
       PROVE  i = j
  <2>1. ASSUME NEW a \in 1..m, NEW b \in 1..n, findings[a] = findings[b]
        PROVE  a = b
    <3>1. << a, 0 >> \in Parts /\ findings[a] = Of(<< a, 0 >>)
      BY <1>3, <1>5
    <3>2. CASE b \in 1..m
      <4>1. << b, 0 >> \in Parts /\ findings[b] = Of(<< b, 0 >>)
        BY <1>3, <1>5, <3>2
      <4>2. << a, 0 >> = << b, 0 >>
        BY <1>7, <2>1, <3>1, <4>1
      <4>. QED  BY <4>2
    <3>3. CASE b \in (m + 1)..n
      <4>1. PICK part \in payload.pieces :
              Segmented(m) /\ findings[b] = FindingOf(payload, m, part)
        BY <1>3, <3>3
      <4>2. << m, part >> \in Parts /\ findings[b] = Of(<< m, part >>)
        BY <1>5, <4>1
      <4>3. << a, 0 >> = << m, part >>
        BY <1>7, <2>1, <3>1, <4>2
      <4>4. part # 0
        BY <1>4, <4>1
      <4>. QED  BY <4>3, <4>4
    <3>. QED  BY <1>1, <3>2, <3>3
  <2>2. \A a \in 1..n : a \in 1..m \/ a \in (m + 1)..n
    BY <1>1
  <2>. QED  BY <1>3, <1>10, <2>1, <2>2
<1>11. decoded = 1..n
  <2>1. \A i \in 1..n : findings[i].kind # "confusable_skeleton"
    <3>. TAKE i \in 1..n
    <3>1. PICK f \in Parts : findings[i] = Of(f)
      BY <1>8
    <3>2. StepOf(payload.layers[f[1]]) \in 1..14
      BY <1>6, LayersType
    <3>. QED  BY <1>6, <3>1, <3>2, Originals, Steps
  <2>2. Skeleton(text).kind = "confusable_skeleton"
    BY DEF Skeleton
  <2>3. \A i \in 1..(n + 1) : i \in 1..n \/ i = n + 1
    OBVIOUS
  <2>4. \A i \in 1..n : i \in 1..(n + 1)
    OBVIOUS
  <2>. QED  BY <1>3, <2>1, <2>2, <2>3, <2>4
<1>12. \A i \in 1..14 : DecodeSteps[i].flag \in flags <=> Flagged(DecodeSteps[i].flag, m)
  BY <1>1 DEF Peeled
<1>. HIDE DEF decoded
<1>. QED  BY <1>2, <1>7, <1>8, <1>9, <1>10, <1>11, <1>12 DEF decoded, Parts

(* Two lists of the same things, each without repetition, are as long.     *)
LEMMA SameNumber ==
  ASSUME NEW n \in Nat, NEW T, NEW f \in [1..n -> T],
         \A t \in T : \E i \in 1..n : f[i] = t,
         \A i, j \in 1..n : f[i] = f[j] => i = j
  PROVE  Cardinality(T) = Cardinality(1..n)
<1>1. IsFiniteSet(1..n)
  BY FS_Interval
<1>2. f \in Bijection(1..n, T)
  BY DEF Bijection, Injection, Surjection, IsInjective
<1>. QED  BY <1>1, <1>2, FS_Bijection DEF ExistsBijection

LEMMA FoundNow == NormalizerOK => FoundOnceAndInTime
<1>1. SUFFICES ASSUME NormalizerOK, phase = "normalized" PROVE FoundOnceAndInTime
  BY DEF FoundOnceAndInTime
<1>2. payload \in Payloads
  BY <1>1 DEF NormalizerOK
<1>3. PICK k, m : Concluded(k, m)
  BY <1>1 DEF NormalizerOK
<1>. DEFINE decoded == { i \in DOMAIN findings : findings[i].kind # "confusable_skeleton" }
            Parts == FoundParts(payload)
            Of(f) == FindingOf(payload, f[1], f[2])
<1>4. /\ FoundLayers(payload) = 1..m
      /\ \E n \in Nat : decoded = 1..n
      /\ \A i \in decoded : \E f \in Parts : findings[i] = Of(f)
      /\ \A f \in Parts : \E i \in decoded : findings[i] = Of(f)
      /\ \A i, j \in decoded : findings[i] = findings[j] => i = j
      /\ \A f, g \in Parts : Of(f) = Of(g) => f = g
      /\ \A i \in 1..14 : DecodeSteps[i].flag \in flags <=> Flagged(DecodeSteps[i].flag, m)
  BY <1>2, <1>3, FoundOnce
<1>. HIDE DEF decoded, Parts
<1>5. { findings[i] : i \in decoded } = { Of(f) : f \in Parts }
  BY <1>4
<1>6. Cardinality(decoded) = Cardinality(Parts)
  <2>1. PICK n \in Nat : decoded = 1..n
    BY <1>4
  <2>. DEFINE entry == [i \in 1..n |-> CHOOSE f \in Parts : findings[i] = Of(f)]
  <2>. HIDE DEF Of
  <2>2. \A i \in 1..n : entry[i] \in Parts /\ findings[i] = Of(entry[i])
    BY <1>4, <2>1
  <2>3. entry \in [1..n -> Parts]
    BY <2>2
  <2>. HIDE DEF entry
  <2>4. ASSUME NEW f \in Parts
        PROVE  \E i \in 1..n : entry[i] = f
    <3>1. PICK i \in 1..n : findings[i] = Of(f)
      BY <1>4, <2>1
    <3>2. entry[i] \in Parts /\ Of(entry[i]) = Of(f)
      BY <2>2, <3>1
    <3>3. entry[i] = f
      BY <1>4, <3>2
    <3>. QED  BY <3>3
  <2>5. \A i, j \in 1..n : entry[i] = entry[j] => i = j
    BY <1>4, <2>1, <2>2
  <2>. QED  BY <2>1, <2>3, <2>4, <2>5, SameNumber
<1>7. \A i \in DOMAIN DecodeSteps :
        DecodeSteps[i].flag \in flags <=>
          \E j \in FoundLayers(payload) :
            DecodeSteps[StepOf(payload.layers[j])].flag = DecodeSteps[i].flag
  BY <1>4, Steps DEF Flagged
<1>. QED  BY <1>5, <1>6, <1>7 DEF FoundOnceAndInTime, decoded, Parts
-----------------------------------------------------------------------------
(* The matches that scan and scan_tool_call can have.                      *)
TextFields == {"normalized", "findings.decoded"}

Written(r, field) ==
  [rule |-> PackRules[r].rule, field |-> field, severity |-> PackRules[r].severity,
   hint |-> PackRules[r].hint, risk |-> PackRules[r].risk, codes |-> << >>]

Told(i) == Mk(i, Validators[i])

Possible == { Written(r, field) : r \in 1..4, field \in TextFields } \cup { Told(i) : i \in 1..37 }

LEMMA Pack ==
  /\ \A r \in 1..4 : PackRules[r].rule = 37 + r /\ PackRules[r].risk \in 0..100
  /\ PackRules[3].risk = 35 /\ PackRules[2].risk = 85
  /\ \A r \in 1..3 : PackRules[r].words = "command" /\ PackRules[r].fields = TextFields
  /\ PackRules[4].words = "documentation" /\ PackRules[4].fields = {"normalized"}
  /\ PackRules[1].suppress_if = Examples /\ PackRules[2].suppress_if = Examples
  /\ PackRules[3].suppress_if = {"documentation", "benchmark"} /\ PackRules[4].suppress_if = {}
BY DEF PackRules, PackRule, Examples, TextFields

LEMMA WrittenMatch ==
  ASSUME NEW r \in 1..4, NEW field
  PROVE  Written(r, field).rule = 37 + r /\ Written(r, field).risk \in 0..100
<1>1. PackRules[r].rule = 37 + r /\ PackRules[r].risk \in 0..100
  BY Pack
<1>. QED  BY <1>1 DEF Written

LEMMA WrittenVotes ==
  ASSUME NEW field
  PROVE  /\ Vote(Written(1, field)) = "block" /\ Vote(Written(2, field)) = "block"
         /\ Vote(Written(3, field)) = "log_only" /\ Vote(Written(4, field)) = "log_only"
BY DEF Vote, Written, PackRules, PackRule

LEMMA ValidatorRows ==
  /\ DOMAIN Validators = 1..37 /\ {1, 16, 18} \subseteq 1..37
  /\ \A i \in 1..37 : Validators[i].risk \in 0..100
  /\ Validators[1].name = "missing_trusted_user_intent" /\ Vote(Told(1)) = "block"
  /\ Validators[16].name = "foreign_tool_result_injection" /\ Vote(Told(16)) = "block"
  /\ Validators[18].name = "result_source_mismatch" /\ Vote(Told(18)) = "block"
<1>1. DOMAIN Validators = 1..37 /\ {1, 16, 18} \subseteq 1..37
  BY DEF Validators
<1>2. \A i \in 1..37 : Validators[i].risk \in 0..100
  BY DEF Validators, Row
<1>3. Validators[1].name = "missing_trusted_user_intent" /\ Vote(Told(1)) = "block"
  BY DEF Validators, Row, Told, Mk, Vote
<1>4. Validators[16].name = "foreign_tool_result_injection" /\ Vote(Told(16)) = "block"
  BY DEF Validators, Row, Told, Mk, Vote
<1>5. Validators[18].name = "result_source_mismatch" /\ Vote(Told(18)) = "block"
  BY DEF Validators, Row, Told, Mk, Vote
<1>. QED  BY <1>1, <1>2, <1>3, <1>4, <1>5

(* Rules and rows go together, and the soft rule yields to its base.       *)
LEMMA PossibleAgreed == Agreed(Possible)
<1>1. ASSUME NEW m \in Possible PROVE IsMatch(m)
  <2>1. CASE \E r \in 1..4, field \in TextFields : m = Written(r, field)
    <3>1. PICK r \in 1..4 : \E field \in TextFields : m = Written(r, field)
      BY <2>1
    <3>2. m.rule = 37 + r /\ m.risk \in 0..100
      BY <3>1, WrittenMatch
    <3>3. m.rule \in 1..41
      BY <3>2
    <3>. QED  BY <3>2, <3>3, PackAssumption DEF IsMatch
  <2>2. CASE \E i \in 1..37 : m = Told(i)
    <3>1. PICK i \in 1..37 : m = Told(i)
      BY <2>2
    <3>2. m.rule = i /\ m.risk \in 0..100
      BY <3>1, ValidatorRows DEF Told, Mk
    <3>3. i \in 1..41
      OBVIOUS
    <3>. QED  BY <3>2, <3>3, PackAssumption DEF IsMatch
  <2>. QED  BY <2>1, <2>2 DEF Possible
<1>2. ASSUME NEW m \in Possible
      PROVE  \/ \E r \in 1..4, field \in TextFields : m = Written(r, field) /\ m.rule = 37 + r
             \/ \E i \in 1..37 : m = Told(i) /\ m.rule = i
  BY Pack DEF Possible, Written, Told, Mk
<1>3. ASSUME NEW m \in Possible, NEW n \in Possible, m.rule = n.rule PROVE Vote(m) = Vote(n)
  <2>1. CASE \E i \in 1..37 : m = Told(i) /\ m.rule = i
    <3>1. n = m
      BY <1>2, <1>3, <2>1
    <3>. QED  BY <3>1
  <2>2. CASE \E r \in 1..4, field \in TextFields : m = Written(r, field) /\ m.rule = 37 + r
    <3>1. PICK r \in 1..4 : \E field \in TextFields : m = Written(r, field) /\ m.rule = 37 + r
      BY <2>2
    <3>2. \E field \in TextFields : n = Written(r, field)
      BY <1>2, <1>3, <3>1
    <3>. QED  BY <3>1, <3>2, WrittenVotes
  <2>. QED  BY <1>2, <2>1, <2>2
<1>4. ASSUME NEW m \in Possible, NEW n \in Possible,
             m.rule \in DOMAIN SoftBase, n.rule = SoftBase[m.rule]
      PROVE  Rank(Vote(m)) <= Rank(Vote(n)) /\ m.risk <= n.risk
  <2>1. m.rule \in 1..41
    BY <1>2
  <2>2. m.rule = 40 /\ n.rule = 39
    BY <1>4, <2>1, PackAssumption
  <2>3. \E field \in TextFields : m = Written(3, field)
    BY <1>2, <2>2
  <2>4. \E field \in TextFields : n = Written(2, field)
    BY <1>2, <2>2
  <2>5. m.risk = 35 /\ n.risk = 85
    BY <2>3, <2>4, Pack DEF Written
  <2>6. Vote(m) = "log_only" /\ Vote(n) = "block"
    BY <2>3, <2>4, WrittenVotes
  <2>. QED  BY <2>5, <2>6 DEF Rank
<1>5. \A m, n \in Possible :
        m.rule = n.rule /\ m.risk >= n.risk => Rank(Vote(m)) >= Rank(Vote(n))
  BY <1>3, VoteRank
<1>. QED  BY <1>1, <1>4, <1>5 DEF Agreed, Consistent

(* The matches of a text are those of the rules that speak in a field.     *)
Heard(r, field) ==
  /\ ~_suppress_match(PackRules[r]) /\ field \in PackRules[r].fields
  /\ Says(field, PackRules[r].words)

LEMMA BothTexts ==
  ASSUME NEW S, NEW s \in Seq(S), NEW t \in Seq(S)
  PROVE  s \o t \in Seq(S) /\ ToSet(s \o t) = ToSet(s) \cup ToSet(t)
<1>1. ConcatOf(s, t)
  BY Concatenated
<1>2. /\ s \o t \in Seq(S) /\ DOMAIN s = 1..Len(s) /\ DOMAIN t = 1..Len(t)
      /\ Len(s) \in Nat /\ Len(t) \in Nat
  OBVIOUS
<1>3. \A i \in 1..(Len(s) + Len(t)) :
        i \in 1..Len(s) \/ \E k \in 1..Len(t) : i = Len(s) + k
  <2>. TAKE i \in 1..(Len(s) + Len(t))
  <2>1. i \in 1..Len(s) \/ (i - Len(s) \in 1..Len(t) /\ i = Len(s) + (i - Len(s)))
    BY <1>2
  <2>. QED  BY <2>1
<1>4. /\ \A i \in 1..Len(s) : i \in 1..(Len(s) + Len(t))
      /\ \A k \in 1..Len(t) : Len(s) + k \in 1..(Len(s) + Len(t))
  BY <1>2
<1>. DEFINE both == s \o t
            n == Len(s)  m == Len(t)
<1>5. /\ DOMAIN both = 1..(n + m)
      /\ \A i \in 1..n : both[i] = s[i]
      /\ \A k \in 1..m : both[n + k] = t[k]
  BY <1>1 DEF ConcatOf
<1>6. ASSUME NEW x \in ToSet(both) PROVE x \in ToSet(s) \cup ToSet(t)
  <2>1. PICK i \in 1..(n + m) : x = both[i]
    BY <1>5 DEF ToSet
  <2>2. CASE i \in 1..n
    BY <1>2, <1>5, <2>1, <2>2 DEF ToSet
  <2>3. CASE \E k \in 1..m : i = n + k
    BY <1>2, <1>5, <2>1, <2>3 DEF ToSet
  <2>. QED  BY <1>3, <2>2, <2>3
<1>7. ASSUME NEW x \in ToSet(s) \cup ToSet(t) PROVE x \in ToSet(both)
  <2>1. CASE x \in ToSet(s)
    BY <1>2, <1>4, <1>5, <2>1 DEF ToSet
  <2>2. CASE x \in ToSet(t)
    BY <1>2, <1>4, <1>5, <2>2 DEF ToSet
  <2>. QED  BY <1>7, <2>1, <2>2
<1>. QED  BY <1>2, <1>6, <1>7

LEMMA TriedMatches ==
  ASSUME NEW r \in 1..4
  PROVE  /\ Tried(PackRules[r]) \in Seq(Possible)
         /\ ToSet(Tried(PackRules[r])) = { Written(r, field) : field \in {f \in TextFields : Heard(r, f)} }
<1>. DEFINE one(field) == MatchIn(PackRules[r], field)
<1>1. ASSUME NEW field \in TextFields
      PROVE  one(field) = IF field \in PackRules[r].fields /\ Says(field, PackRules[r].words)
                            THEN << Written(r, field) >> ELSE << >>
  BY DEF MatchIn, Written
<1>2. \A field \in TextFields : Written(r, field) \in Possible
  BY DEF Possible
<1>3. ASSUME NEW field \in TextFields
      PROVE  /\ one(field) \in Seq(Possible)
             /\ ToSet(one(field)) = IF field \in PackRules[r].fields /\ Says(field, PackRules[r].words)
                                    THEN {Written(r, field)} ELSE {}
  <2>1. \A m \in Possible : << m >> \in Seq(Possible) /\ ToSet(<< m >>) = {m}
    BY DEF ToSet
  <2>2. << >> \in Seq(Possible) /\ ToSet(<< >>) = {}
    BY DEF ToSet
  <2>. QED  BY <1>1, <1>2, <2>1, <2>2
<1>. HIDE DEF one
<1>4. _rule_matches(PackRules[r]) = one("normalized") \o one("findings.decoded")
  BY DEF _rule_matches, one
<1>5. "normalized" \in TextFields /\ "findings.decoded" \in TextFields
        /\ \A f \in TextFields : f = "normalized" \/ f = "findings.decoded"
  BY DEF TextFields
<1>6. /\ one("normalized") \o one("findings.decoded") \in Seq(Possible)
      /\ ToSet(one("normalized") \o one("findings.decoded"))
           = ToSet(one("normalized")) \cup ToSet(one("findings.decoded"))
  BY <1>3, <1>5, BothTexts
<1>7. << >> \in Seq(Possible) /\ ToSet(<< >>) = {}
  BY DEF ToSet
<1>8. ASSUME NEW f \in TextFields
      PROVE  ~_suppress_match(PackRules[r]) =>
               ToSet(one(f)) = IF Heard(r, f) THEN {Written(r, f)} ELSE {}
  BY <1>3 DEF Heard
<1>9. CASE _suppress_match(PackRules[r])
  <2>1. Tried(PackRules[r]) = << >>
    BY <1>9 DEF Tried
  <2>2. \A f \in TextFields : ~Heard(r, f)
    BY <1>9 DEF Heard
  <2>. QED  BY <1>7, <2>1, <2>2
<1>10. CASE ~_suppress_match(PackRules[r])
  <2>1. Tried(PackRules[r]) = one("normalized") \o one("findings.decoded")
    BY <1>4, <1>10 DEF Tried
  <2>2. ToSet(Tried(PackRules[r]))
          = { Written(r, field) : field \in {f \in TextFields : Heard(r, f)} }
    BY <1>5, <1>6, <1>8, <1>10, <2>1
  <2>. QED  BY <1>6, <2>1, <2>2
<1>. QED  BY <1>9, <1>10

LEMMA ScannedMatches ==
  /\ Scanned \in Seq(Possible)
  /\ \A m : m \in ToSet(Scanned) <=>
       \E r \in 1..4 : \E field \in TextFields : Heard(r, field) /\ m = Written(r, field)
<1>. DEFINE T(r)  == Tried(PackRules[r])
            two   == T(1) \o T(2)
            three == two \o T(3)
<1>1. \A r \in 1..4 : T(r) \in Seq(Possible)
  BY TriedMatches
<1>2. \A r \in 1..4 : \A m : m \in ToSet(T(r)) <=>
        \E field \in TextFields : Heard(r, field) /\ m = Written(r, field)
  BY TriedMatches
<1>3. Scanned = three \o T(4)
  BY DEF Scanned
<1>. HIDE DEF T
<1>a. /\ T(1) \in Seq(Possible) /\ T(2) \in Seq(Possible)
      /\ T(3) \in Seq(Possible) /\ T(4) \in Seq(Possible)
  BY <1>1
<1>4. two \in Seq(Possible) /\ ToSet(two) = ToSet(T(1)) \cup ToSet(T(2))
  BY <1>a, BothTexts
<1>. HIDE DEF two
<1>5. three \in Seq(Possible) /\ ToSet(three) = ToSet(two) \cup ToSet(T(3))
  BY <1>a, <1>4, BothTexts
<1>. HIDE DEF three
<1>6. Scanned \in Seq(Possible) /\ ToSet(Scanned) = ToSet(three) \cup ToSet(T(4))
  BY <1>a, <1>3, <1>5, BothTexts
<1>7. \A m : m \in ToSet(Scanned) <=> \E r \in 1..4 : m \in ToSet(T(r))
  <2>1. ToSet(Scanned) = ToSet(T(1)) \cup ToSet(T(2)) \cup ToSet(T(3)) \cup ToSet(T(4))
    BY <1>4, <1>5, <1>6
  <2>2. \A r : r \in 1..4 <=> r = 1 \/ r = 2 \/ r = 3 \/ r = 4
    OBVIOUS
  <2>. QED  BY <2>1, <2>2, Zenon
<1>8. \A m : (\E r \in 1..4 : m \in ToSet(T(r))) <=>
        \E r \in 1..4 : \E field \in TextFields : Heard(r, field) /\ m = Written(r, field)
  BY <1>2, Zenon
<1>. QED  BY <1>6, <1>7, <1>8, Zenon

(* Those of a call are those of the validators it hits.                    *)
LEMMA ValidatorList ==
  ASSUME NEW c
  PROVE  /\ ValidatorMatches(c) \in Seq(Possible)
         /\ \A m : m \in ToSet(ValidatorMatches(c)) <=>
              \E i \in 1..37 : Validators[i].name \in Hits(c) /\ m = Told(i)
<1>. DEFINE hit == { i \in 1..37 : Validators[i].name \in Hits(c) }
            R == { p \in hit \X hit : p[1] < p[2] }
            Place(i) == Cardinality({ j \in hit : j < i }) + 1
            n == Cardinality(hit)
            list == [k \in 1..n |-> Told(CHOOSE i \in hit : Place(i) = k)]
<1>1. ValidatorMatches(c) = list
  BY ValidatorRows DEF ValidatorMatches, Told
<1>2. IsFiniteSet(hit) /\ n \in Nat
  <2>1. IsFiniteSet(1..37)
    <3>1. 1 \in Int /\ 37 \in Int
      OBVIOUS
    <3>. QED  BY <3>1, FS_Interval, Zenon
  <2>2. IsFiniteSet(hit)
    BY <2>1, FS_Subset
  <2>. QED  BY <2>2, FS_CardinalityType
<1>3. /\ \A i \in hit : Place(i) \in 1..n
      /\ \A k \in 1..n : \E i \in hit : Place(i) = k
      /\ \A i, j \in hit : Place(i) = Place(j) => i = j
  <2>1. hit \subseteq Nat
    OBVIOUS
  <2>2. \A i, j \in hit : << i, j >> \in R <=> i < j
    OBVIOUS
  <2>3. \A i \in hit : { j \in hit : j < i } = Before(R, hit, i)
    BY <2>2 DEF Before
  <2>. HIDE DEF hit, R
  <2>4. /\ \A i \in hit : << i, i >> \notin R
        /\ \A i, j, k \in hit : << i, j >> \in R /\ << j, k >> \in R => << i, k >> \in R
        /\ \A i, j \in hit : i = j \/ << i, j >> \in R \/ << j, i >> \in R
    BY <2>1, <2>2
  <2>5. /\ \A i \in hit : Cardinality(Before(R, hit, i)) + 1 \in 1..n
        /\ \A i, j \in hit :
             Cardinality(Before(R, hit, i)) = Cardinality(Before(R, hit, j)) => i = j
        /\ \A k \in 1..n : \E i \in hit : Cardinality(Before(R, hit, i)) + 1 = k
    BY <1>2, <2>4, PlacesTaken
  <2>6. \A i \in hit : Place(i) = Cardinality(Before(R, hit, i)) + 1
    BY <2>3
  <2>7. \A i \in hit : Cardinality(Before(R, hit, i)) \in Nat
    <3>1. \A i \in hit : Before(R, hit, i) \subseteq hit
      BY DEF Before
    <3>. QED  BY <1>2, <3>1, FS_Subset, FS_CardinalityType
  <2>. QED  BY <2>5, <2>6, <2>7
<1>. HIDE DEF Place
<1>4. \A k \in 1..n : list[k] = Told(CHOOSE i \in hit : Place(i) = k)
  OBVIOUS
<1>5. \A k \in 1..n : \E i \in hit : list[k] = Told(i)
  BY <1>3, <1>4
<1>6. \A i \in hit : list[Place(i)] = Told(i)
  <2>. TAKE i \in hit
  <2>1. (CHOOSE j \in hit : Place(j) = Place(i)) = i
    BY <1>3
  <2>. QED  BY <1>3, <1>4, <2>1
<1>7. DOMAIN list = 1..n
  OBVIOUS
<1>. HIDE DEF list, n
<1>8. \A i \in hit : Told(i) \in Possible
  BY DEF Possible
<1>9. list \in Seq(Possible)
  <2>1. \A k \in 1..n : list[k] \in Possible
    BY <1>5, <1>8
  <2>2. list = [k \in 1..n |-> list[k]]
    BY DEF list
  <2>. QED  BY <1>2, <2>1, <2>2
<1>10. \A m : m \in ToSet(list) <=> \E i \in hit : m = Told(i)
  BY <1>3, <1>5, <1>6, <1>7 DEF ToSet
<1>. QED  BY <1>1, <1>9, <1>10

(* So the decision is the strongest vote of what is heard and hit.         *)
Evident(c) == ToSet(Scanned) \cup ToSet(Validated(c))

LEMMA Deciding ==
  ASSUME NEW c
  PROVE  /\ DecisionFor(c) \in Decisions
         /\ \A m \in Evident(c) : Rank(DecisionFor(c)) >= Rank(Vote(m))
         /\ DecisionFor(c) = "allow" \/ \E m \in Evident(c) : DecisionFor(c) = Vote(m)
<1>1. Scanned \in Seq(Possible) /\ Validated(c) \in Seq(Possible)
  <2>1. << >> \in Seq(Possible)
    OBVIOUS
  <2>. QED  BY <2>1, ScannedMatches, ValidatorList DEF Validated
<1>. QED  BY <1>1, PossibleAgreed, StrongestVote DEF DecisionFor, Evident

LEMMA StrongerCall ==
  ASSUME NEW c, NEW d,
         \A m \in Evident(c) : \E n \in Evident(d) : Rank(Vote(n)) >= Rank(Vote(m))
  PROVE  Rank(DecisionFor(d)) >= Rank(DecisionFor(c))
<1>1. << >> \in Seq(Possible)
  OBVIOUS
<1>2. /\ Scanned \in Seq(Possible)
      /\ Validated(c) \in Seq(Possible) /\ Validated(d) \in Seq(Possible)
  BY <1>1, ScannedMatches, ValidatorList DEF Validated
<1>. QED  BY <1>2, PossibleAgreed, StrongerEvidence DEF DecisionFor, Evident
-----------------------------------------------------------------------------
(* One call is at least as dangerous as another.  That its physical action *)
(* is as badly approved does not follow from its traits.                   *)
Endangers(d, c) ==
  /\ d.tool = c.tool /\ d.trace = c.trace /\ d.key = c.key
  /\ \A trait \in HazardTraits : Has(c, trait) => Has(d, trait)
  /\ \A trait \in TrustTraits : Has(d, trait) => Has(c, trait)
  /\ \A trait \in OtherTraits : Has(c, trait) <=> Has(d, trait)
  /\ physical_action_without_strong_approval(c) => physical_action_without_strong_approval(d)
  /\ \A methods : UrisOf(c, methods) \subseteq UrisOf(d, methods)
  /\ min_delay(c) <= 10 => min_delay(d) <= 10

LEMMA ProvenanceKept ==
  ASSUME NEW c, NEW d, Endangers(d, c)
  PROVE  /\ trusted_user_intent_bound(d) => trusted_user_intent_bound(c)
         /\ untrusted_action_provenance(c) => untrusted_action_provenance(d)
         /\ untrusted_plan_context(c) => untrusted_plan_context(d)
         /\ poisoned_observation_source(c) => poisoned_observation_source(d)
<1>1. trusted_user_intent_bound(d) => trusted_user_intent_bound(c)
  BY DEF Endangers, trusted_user_intent_bound, TrustTraits
<1>2. untrusted_action_provenance(c) => untrusted_action_provenance(d)
  BY DEF Endangers, untrusted_action_provenance, SourceValues, HazardTraits, Has
<1>3. untrusted_plan_context(c) => untrusted_plan_context(d)
  BY <1>2 DEF Endangers, untrusted_plan_context, HazardTraits
<1>4. poisoned_observation_source(c) => poisoned_observation_source(d)
  BY DEF Endangers, poisoned_observation_source, HazardTraits
<1>. QED  BY <1>1, <1>2, <1>3, <1>4

(* A source in the arguments, even a bad one, is provenance.               *)
LEMMA ActionHitsKept ==
  ASSUME NEW c, NEW d, Endangers(d, c), NEW rule \in ActionHits(c)
  PROVE  \/ rule \in ActionHits(d)
         \/ rule = "provenance_gap" /\ "missing_trusted_user_intent" \in ActionHits(d)
<1>1. /\ Has(c, "requires_intent") => Has(d, "requires_intent")
      /\ Has(c, "summary_request") => Has(d, "summary_request")
      /\ Has(c, "other_event") => Has(d, "other_event")
      /\ high_impact(c) => high_impact(d)
  BY DEF Endangers, HazardTraits, high_impact, side_effecting
<1>. QED  BY <1>1, ProvenanceKept DEF ActionHits

LEMMA PlanHitsKept ==
  ASSUME NEW c, NEW d, Endangers(d, c)
  PROVE  PlanHits(c) \subseteq PlanHits(d)
<1>1. /\ Has(c, "validation_off") => Has(d, "validation_off")
      /\ plan_sensitive(c) => plan_sensitive(d)
      /\ tool_scope_violation(c) => tool_scope_violation(d)
      /\ tool_switch_premise(c) => tool_switch_premise(d)
      /\ goal_hijack_marker(c) => goal_hijack_marker(d)
      /\ expected_action_kind_violation(c) => expected_action_kind_violation(d)
  BY DEF Endangers, HazardTraits, TrustTraits, plan_sensitive, high_impact, side_effecting,
         tool_scope_violation, tool_switch_premise, goal_hijack_marker,
         expected_action_kind_violation
<1>. QED  BY <1>1, ProvenanceKept DEF PlanHits

LEMMA TraceHitsKept ==
  ASSUME NEW c, NEW d, Endangers(d, c)
  PROVE  TraceHits(c) \subseteq TraceHits(d)
<1>1. \A field : Expected(c, field) = Expected(d, field) /\ Observed(c, field) = Observed(d, field)
  BY DEF Endangers, Expected, Observed
<1>2. /\ is_trace_result_event(c) => is_trace_result_event(d)
      /\ unbound_tool_result(c) => unbound_tool_result(d)
      /\ stdio_frame_boundary_artifact(c) => stdio_frame_boundary_artifact(d)
  BY DEF Endangers, HazardTraits, OtherTraits, is_trace_result_event, unbound_tool_result,
         stdio_frame_boundary_artifact
<1>3. /\ \A field : Differs(c, field) <=> Differs(d, field)
      /\ source_mismatch(c) <=> source_mismatch(d)
  BY <1>1 DEF Differs, source_mismatch
<1>. QED  BY <1>1, <1>2, <1>3 DEF TraceHits

LEMMA BoundaryHitsKept ==
  ASSUME NEW c, NEW d, Endangers(d, c)
  PROVE  BoundaryHits(c) \subseteq BoundaryHits(d)
<1>1. trusted_update(d) => trusted_update(c)
  BY DEF Endangers, TrustTraits, OtherTraits, trusted_update
<1>2. persistent_memory_authority_poisoning(c) => persistent_memory_authority_poisoning(d)
  BY <1>1, ProvenanceKept DEF Endangers, HazardTraits, persistent_memory_authority_poisoning
<1>3. privileged_auth_to_untrusted_origin(c) => privileged_auth_to_untrusted_origin(d)
  BY DEF Endangers, HazardTraits, TrustTraits, privileged_auth_to_untrusted_origin
<1>4. /\ physical_action_without_strong_approval(c) => physical_action_without_strong_approval(d)
      /\ synthetic_evidence_physical_source(c) => synthetic_evidence_physical_source(d)
      /\ security_alert_suppression(c) => security_alert_suppression(d)
  BY DEF Endangers, HazardTraits, TrustTraits, synthetic_evidence_physical_source,
         security_alert_suppression
<1>5. cross_agent_delegation_poisoning(c) => cross_agent_delegation_poisoning(d)
  BY DEF Endangers, HazardTraits, TrustTraits, cross_agent_delegation_poisoning
<1>. QED  BY <1>2, <1>3, <1>4, <1>5 DEF BoundaryHits

LEMMA SessionHitsKept ==
  ASSUME NEW c, NEW d, Endangers(d, c)
  PROVE  SessionHits(c) \subseteq SessionHits(d)
<1>1. /\ c.tool = d.tool
      /\ Has(c, "incomplete") => Has(d, "incomplete")
      /\ Has(c, "resource") => Has(d, "resource")
      /\ Has(c, "takeover") => Has(d, "takeover")
      /\ Has(c, "corrupt") => Has(d, "corrupt")
      /\ Has(c, "stolen_token") => Has(d, "stolen_token")
      /\ Has(c, "after_free") => Has(d, "after_free")
  BY DEF Endangers, HazardTraits
<1>. QED  BY <1>1 DEF SessionHits

LEMMA RaceHitsKept ==
  ASSUME NEW c, NEW d, Endangers(d, c)
  PROVE  RaceHits(c) \subseteq RaceHits(d)
<1>1. \A methods : /\ UrisOf(c, methods) \subseteq UrisOf(d, methods)
                   /\ contains_same_uri_ops(c, methods) \subseteq contains_same_uri_ops(d, methods)
  BY DEF Endangers, contains_same_uri_ops
<1>2. c.tool = d.tool /\ c.key = d.key /\ (min_delay(c) <= 10 => min_delay(d) <= 10)
  BY DEF Endangers
<1>. QED  BY <1>1, <1>2 DEF RaceHits

LEMMA HitsKept ==
  ASSUME NEW c, NEW d, Endangers(d, c), NEW rule \in Hits(c)
  PROVE  \/ rule \in Hits(d)
         \/ rule = "provenance_gap" /\ "missing_trusted_user_intent" \in Hits(d)
BY ActionHitsKept, PlanHitsKept, TraceHitsKept, BoundaryHitsKept, SessionHitsKept, RaceHitsKept
   DEF Hits

(* So a call that is more dangerous is decided no more leniently.          *)
LEMMA CallIsNotNone ==
  ASSUME NEW c, c = [tool |-> c.tool, traits |-> c.traits, trace |-> c.trace,
                     operations |-> c.operations, key |-> c.key]
  PROVE  c # NoCall
<1>1. "key" \in DOMAIN c
  OBVIOUS
<1>2. "key" \notin DOMAIN NoCall
  BY DEF NoCall
<1>. QED  BY <1>1, <1>2

LEMMA DangerDecides ==
  ASSUME NEW c, NEW d, c # NoCall, d # NoCall, Endangers(d, c)
  PROVE  Rank(DecisionFor(d)) >= Rank(DecisionFor(c))
<1>1. ASSUME NEW m \in Evident(c)
      PROVE  \E n \in Evident(d) : Rank(Vote(n)) >= Rank(Vote(m))
  <2>0. Rank(Vote(m)) \in 0..3 /\ Rank("block") = 3
    BY VoteRank DEF Rank
  <2>1. CASE m \in ToSet(Scanned)
    <3>1. m \in Evident(d)
      BY <2>1 DEF Evident
    <3>. QED  BY <2>0, <3>1
  <2>2. CASE m \in ToSet(ValidatorMatches(c))
    <3>1. PICK i \in 1..37 : Validators[i].name \in Hits(c) /\ m = Told(i)
      BY <2>2, ValidatorList
    <3>2. CASE Validators[i].name \in Hits(d)
      <4>1. m \in ToSet(ValidatorMatches(d))
        BY <3>1, <3>2, ValidatorList
      <4>2. m \in Evident(d)
        BY <4>1 DEF Evident, Validated
      <4>. QED  BY <2>0, <4>2
    <3>3. CASE "missing_trusted_user_intent" \in Hits(d)
      <4>1. Told(1) \in Evident(d)
        <5>1. 1 \in 1..37
          OBVIOUS
        <5>2. Validators[1].name \in Hits(d)
          BY <3>3, ValidatorRows
        <5>. QED  BY <5>1, <5>2, ValidatorList DEF Evident, Validated
      <4>2. Rank(Vote(Told(1))) >= Rank(Vote(m))
        BY <2>0, ValidatorRows
      <4>. QED  BY <4>1, <4>2
    <3>. QED  BY <3>1, <3>2, <3>3, HitsKept
  <2>. QED  BY <2>1, <2>2 DEF Evident, Validated
<1>. QED  BY <1>1, StrongerCall

(* The shortest delay is short when one is.                                *)
LEMMA ShortDelay ==
  ASSUME NEW c, c.operations \in Seq(ToSet(c.operations)),
         \A op \in ToSet(c.operations) : op.delay \in Nat
  PROVE  min_delay(c) <= 10 <=> \E op \in ToSet(c.operations) : op.delay <= 10
<1>. DEFINE delays == { op.delay : op \in ToSet(c.operations) }
            T == {NoDelay} \cup delays
<1>1. min_delay(c) = Min(T)
  BY DEF min_delay, ToSet
<1>2. T \in SUBSET Nat /\ T # {}
  BY DEF NoDelay
<1>. HIDE DEF T
<1>3. PICK x \in T : \A y \in T : x <= y
  BY <1>2, Smallest
<1>4. Min(T) \in T /\ \A y \in T : Min(T) <= y
  BY <1>3 DEF Min
<1>5. Min(T) <= 10 <=> \E y \in T : y <= 10
  <2>. DEFINE least == Min(T)
  <2>1. least \in Nat /\ T \subseteq Nat /\ least \in T /\ \A y \in T : least <= y
    BY <1>2, <1>4
  <2>. HIDE DEF least
  <2>2. ASSUME NEW y \in T, y <= 10 PROVE least <= 10
    BY <2>1, <2>2
  <2>3. least <= 10 <=> \E y \in T : y <= 10
    BY <2>1, <2>2
  <2>. QED  BY <2>3 DEF least
<1>6. (\E y \in T : y <= 10) <=> \E y \in delays : y <= 10
  BY DEF T, NoDelay
<1>. QED  BY <1>1, <1>5, <1>6

LEMMA TraitsApart ==
  /\ HazardTraits \cap TrustTraits = {} /\ HazardTraits \cap OtherTraits = {}
  /\ TrustTraits \cap OtherTraits = {}
BY DEF HazardTraits, TrustTraits, OtherTraits

LEMMA WithTrait ==
  ASSUME NEW c, IsToolCall(c), NEW trait
  PROVE  LET d == [c EXCEPT !.traits = @ \cup {trait}]
         IN  /\ d # NoCall
             /\ trait \in HazardTraits /\ ~CompletesApproval(c, trait) => Endangers(d, c)
             /\ trait \in TrustTraits => Endangers(c, d)
<1>. DEFINE d == [c EXCEPT !.traits = @ \cup {trait}]
<1>0. c = [tool |-> c.tool, traits |-> c.traits, trace |-> c.trace,
           operations |-> c.operations, key |-> c.key]
  BY DEF IsToolCall
<1>a. ASSUME NEW x
      PROVE  [c EXCEPT !.traits = x]
               = [tool |-> c.tool, traits |-> x, trace |-> c.trace,
                  operations |-> c.operations, key |-> c.key]
  BY <1>0
<1>1. d = [tool |-> c.tool, traits |-> c.traits \cup {trait}, trace |-> c.trace,
           operations |-> c.operations, key |-> c.key]
  BY <1>a
<1>2. /\ d.tool = c.tool /\ d.trace = c.trace /\ d.key = c.key /\ d.operations = c.operations
      /\ d.traits = c.traits \cup {trait}
  BY <1>1
<1>3. d # NoCall
  BY <1>1, <1>2, CallIsNotNone
<1>. HIDE DEF d
<1>4. \A methods : UrisOf(c, methods) = UrisOf(d, methods)
  BY <1>2 DEF UrisOf
<1>5. min_delay(c) = min_delay(d)
  BY <1>2 DEF min_delay
<1>6. \A x : Has(d, x) <=> Has(c, x) \/ x = trait
  BY <1>2 DEF Has
<1>7. /\ Has(d, "physical") /\ Has(d, "open_action") =>
            (Has(c, "physical") /\ Has(c, "open_action")) \/ trait \in HazardTraits
      /\ Has(c, "physical") /\ Has(c, "open_action") =>
            Has(d, "physical") /\ Has(d, "open_action")
      /\ physically_approved(c) => physically_approved(d)
      /\ approval_marked(c) => approval_marked(d)
      /\ physically_approved(d) => physically_approved(c) \/ trait \notin HazardTraits
      /\ approval_marked(d) =>
            approval_marked(c) \/ trait = "untrusted_label" \/ trait \notin HazardTraits
  BY <1>2, <1>6 DEF HazardTraits, physically_approved, approval_marked
<1>8. trait \in HazardTraits /\ ~CompletesApproval(c, trait) =>
        (physical_action_without_strong_approval(c) => physical_action_without_strong_approval(d))
  BY <1>7 DEF CompletesApproval, physical_action_without_strong_approval
<1>9. trait \in TrustTraits =>
        (physical_action_without_strong_approval(d) => physical_action_without_strong_approval(c))
  BY <1>7, TraitsApart DEF physical_action_without_strong_approval
<1>10. trait \in HazardTraits /\ ~CompletesApproval(c, trait) => Endangers(d, c)
  BY <1>2, <1>4, <1>5, <1>6, <1>8, TraitsApart DEF Endangers
<1>11. trait \in TrustTraits => Endangers(c, d)
  BY <1>2, <1>4, <1>5, <1>6, <1>9, TraitsApart DEF Endangers
<1>. QED  BY <1>3, <1>10, <1>11 DEF d

LEMMA RemovedAt ==
  ASSUME NEW S, NEW s \in Seq(S), NEW i \in DOMAIN s
  PROVE  RemoveAt(s, i) \in Seq(S) /\ ToSet(RemoveAt(s, i)) \subseteq ToSet(s)
<1>. DEFINE n == Len(s)
            front == SubSeq(s, 1, i - 1)
            rest  == SubSeq(s, i + 1, n)
<1>1. n \in Nat /\ i \in 1..n /\ DOMAIN s = 1..n
  OBVIOUS
<1>2. s \in Seq(ToSet(s))
  <2>1. s = [j \in 1..n |-> s[j]] /\ \A j \in 1..n : s[j] \in ToSet(s)
    BY <1>1 DEF ToSet
  <2>2. [j \in 1..n |-> s[j]] \in Seq(ToSet(s))
    BY <1>1, <2>1
  <2>. QED  BY <2>1, <2>2
<1>3. ToSet(s) \subseteq S
  BY ElementOfSeq DEF ToSet
<1>4. ASSUME NEW M, s \in Seq(M) PROVE front \in Seq(M) /\ rest \in Seq(M)
  <2>1. \A j \in 1..n : s[j] \in M
    BY <1>1, <1>4, ElementOfSeq
  <2>. QED  BY <1>1, <1>4, <2>1, SubSeqProperties
<1>5. front \in Seq(ToSet(s)) /\ rest \in Seq(ToSet(s))
  BY <1>2, <1>4
<1>. HIDE DEF front, rest
<1>6. front \o rest \in Seq(ToSet(s))
  BY <1>5
<1>7. front \in Seq(S) /\ rest \in Seq(S)
  BY <1>4
<1>8. front \o rest \in Seq(S)
  BY <1>7
<1>9. ToSet(front \o rest) \subseteq ToSet(s)
  BY <1>6, ElementOfSeq DEF ToSet
<1>. QED  BY <1>8, <1>9 DEF RemoveAt, front, rest

LEMMA WithoutOperation ==
  ASSUME NEW c, IsToolCall(c), NEW i \in DOMAIN c.operations
  PROVE  LET d == [c EXCEPT !.operations = RemoveAt(@, i)]
         IN  d # NoCall /\ Endangers(c, d)
<1>. DEFINE left == RemoveAt(c.operations, i)
            d == [c EXCEPT !.operations = RemoveAt(@, i)]
<1>1. /\ c = [tool |-> c.tool, traits |-> c.traits, trace |-> c.trace,
              operations |-> c.operations, key |-> c.key]
      /\ c.operations \in Seq(ToSet(c.operations))
      /\ \A op \in ToSet(c.operations) : op.delay \in Nat
  BY DEF IsToolCall
<1>2. left \in Seq(ToSet(c.operations)) /\ ToSet(left) \subseteq ToSet(c.operations)
  BY <1>1, RemovedAt
<1>3. left \in Seq(ToSet(left))
  <2>1. left = [j \in 1..Len(left) |-> left[j]] /\ Len(left) \in Nat
    BY <1>2
  <2>2. \A j \in 1..Len(left) : left[j] \in ToSet(left)
    BY <1>2 DEF ToSet
  <2>3. [j \in 1..Len(left) |-> left[j]] \in Seq(ToSet(left))
    BY <2>1, <2>2
  <2>. QED  BY <2>1, <2>3
<1>. HIDE DEF left
<1>4. d = [tool |-> c.tool, traits |-> c.traits, trace |-> c.trace,
           operations |-> left, key |-> c.key]
  BY <1>1 DEF left
<1>. HIDE DEF d
<1>5. /\ d.tool = c.tool /\ d.trace = c.trace /\ d.key = c.key /\ d.traits = c.traits
      /\ d.operations = left
  BY <1>4
<1>6. d # NoCall
  BY <1>4, <1>5, CallIsNotNone
<1>7. \A x, methods : x \in UrisOf(d, methods) <=>
        \E op \in ToSet(left) : op.method \in methods /\ x = op.uri
  BY <1>5 DEF UrisOf, ToSet
<1>8. \A x, methods : x \in UrisOf(c, methods) <=>
        \E op \in ToSet(c.operations) : op.method \in methods /\ x = op.uri
  BY DEF UrisOf, ToSet
<1>9. \A methods : UrisOf(d, methods) \subseteq UrisOf(c, methods)
  BY <1>2, <1>7, <1>8
<1>10. min_delay(d) <= 10 => min_delay(c) <= 10
  <2>1. min_delay(d) <= 10 <=> \E op \in ToSet(left) : op.delay <= 10
    BY <1>1, <1>2, <1>3, <1>5, ShortDelay
  <2>2. min_delay(c) <= 10 <=> \E op \in ToSet(c.operations) : op.delay <= 10
    BY <1>1, ShortDelay
  <2>. QED  BY <1>2, <2>1, <2>2
<1>11. \A x : Has(c, x) <=> Has(d, x)
  BY <1>5 DEF Has
<1>12. physical_action_without_strong_approval(d) => physical_action_without_strong_approval(c)
  BY <1>5 DEF physical_action_without_strong_approval, physically_approved, approval_marked, Has
<1>13. Endangers(c, d)
  BY <1>5, <1>9, <1>10, <1>11, <1>12 DEF Endangers
<1>. QED  BY <1>6, <1>13 DEF d

LEMMA PulledOneWay ==
  ASSUME call # NoCall => IsToolCall(call), Decided => decision = DecisionFor(call)
  PROVE  EvidencePullsOneWay
<1>. SUFFICES ASSUME Decided, call # NoCall, IsToolCall(call), decision = DecisionFor(call)
              PROVE  EvidencePullsOneWay
  BY DEF EvidencePullsOneWay
<1>. DEFINE With(trait) == [call EXCEPT !.traits = @ \cup {trait}]
            Shorter(i)  == [call EXCEPT !.operations = RemoveAt(@, i)]
<1>1. \A c : DecisionFor(c) \in Decisions
  BY Deciding
<1>2. \A c : Rank(DecisionFor(c)) \in 0..3
  BY <1>1 DEF Decisions, Rank
<1>3. ASSUME NEW trait \in HazardTraits \ call.traits
      PROVE  CompletesApproval(call, trait) \/ Rank(DecisionFor(With(trait))) >= Rank(decision)
  BY WithTrait, DangerDecides
<1>4. ASSUME NEW trait \in TrustTraits \ call.traits
      PROVE  Rank(DecisionFor(With(trait))) <= Rank(decision)
  <2>1. Rank(decision) >= Rank(DecisionFor(With(trait)))
    BY WithTrait, DangerDecides
  <2>. QED  BY <1>2, <2>1
<1>5. ASSUME NEW i \in DOMAIN call.operations
      PROVE  Rank(DecisionFor(Shorter(i))) <= Rank(decision)
  <2>1. Rank(decision) >= Rank(DecisionFor(Shorter(i)))
    BY WithoutOperation, DangerDecides
  <2>. QED  BY <1>2, <2>1
<1>. QED  BY <1>3, <1>4, <1>5 DEF EvidencePullsOneWay
-----------------------------------------------------------------------------
LEMMA BlockIsTheMost ==
  ASSUME NEW c, NEW m \in Evident(c), Vote(m) = "block"
  PROVE  DecisionFor(c) = "block"
<1>1. Rank(DecisionFor(c)) >= 3 /\ DecisionFor(c) \in Decisions
  BY Deciding DEF Rank
<1>. QED  BY <1>1 DEF Rank, Decisions

(* A result that names another tool, server or connection than its request *)
(* differs from it, whatever is around them.                               *)
LEMMA ForeignBlocks ==
  ASSUME NEW c, c # NoCall, NEW field \in {"tool", "server", "connection"},
         c.trace.pending[field] # "", c.trace.observed[field] # "",
         c.trace.pending[field] # c.trace.observed[field]
  PROVE  DecisionFor(c) = "block"
<1>1. Differs(c, field)
  BY DEF Differs, Expected, Observed, trace_value
<1>2. is_trace_result_event(c)
  BY DEF is_trace_result_event, Given, Fields
<1>3. \/ "foreign_tool_result_injection" \in Hits(c)
      \/ "result_source_mismatch" \in Hits(c)
  <2>1. Differs(c, "tool") \/ source_mismatch(c)
    BY <1>1 DEF source_mismatch
  <2>2. \/ "foreign_tool_result_injection" \in TraceHits(c)
        \/ "result_source_mismatch" \in TraceHits(c)
    BY <1>2, <2>1 DEF TraceHits
  <2>. QED  BY <2>2 DEF Hits
<1>4. 16 \in 1..37 /\ 18 \in 1..37
  BY ValidatorRows
<1>5. Told(16) \in ToSet(ValidatorMatches(c)) \/ Told(18) \in ToSet(ValidatorMatches(c))
  <2>1. Validators[16].name \in Hits(c) \/ Validators[18].name \in Hits(c)
    BY <1>3, ValidatorRows
  <2>. QED  BY <1>4, <2>1, ValidatorList
<1>6. Told(16) \in Evident(c) \/ Told(18) \in Evident(c)
  BY <1>5 DEF Evident, Validated
<1>. QED  BY <1>6, ValidatorRows, BlockIsTheMost

LEMMA NoIndex == \A i : i \notin DOMAIN << >>
OBVIOUS

(* One that agrees with it in all is not told against.                     *)
LEMMA AgreeingHits ==
  ASSUME NEW c, c.traits = {}, c.operations = << >>,
         c.trace.pending = c.trace.observed,
         "" \notin { c.trace.pending[field] : field \in Fields }
  PROVE  Hits(c) = {}
<1>1. \A trait : ~Has(c, trait)
  BY DEF Has
<1>2. ActionHits(c) = {}
  BY <1>1 DEF ActionHits, untrusted_action_provenance, SourceValues
<1>3. PlanHits(c) = {}
  BY <1>1 DEF PlanHits, untrusted_plan_context, untrusted_action_provenance, SourceValues,
              poisoned_observation_source, tool_scope_violation, tool_switch_premise,
              goal_hijack_marker, expected_action_kind_violation
<1>4. TraceHits(c) = {}
  <2>1. \A field \in Fields : c.trace.pending[field] # ""
    OBVIOUS
  <2>2. \A field \in Fields : Expected(c, field) = Observed(c, field)
    BY <2>1 DEF Expected, Observed, trace_value
  <2>3. "tool" \in Fields /\ "server" \in Fields /\ "connection" \in Fields
    BY DEF Fields
  <2>4. ~Differs(c, "tool") /\ ~source_mismatch(c)
    BY <2>2, <2>3 DEF Differs, source_mismatch
  <2>5. ~unbound_tool_result(c) /\ ~stdio_frame_boundary_artifact(c)
    BY <1>1, <2>1, <2>3 DEF unbound_tool_result, Given, stdio_frame_boundary_artifact
  <2>. QED  BY <2>4, <2>5 DEF TraceHits
<1>5. BoundaryHits(c) = {}
  <2>1. /\ ~persistent_memory_authority_poisoning(c) /\ ~privileged_auth_to_untrusted_origin(c)
        /\ ~physical_action_without_strong_approval(c) /\ ~security_alert_suppression(c)
        /\ ~cross_agent_delegation_poisoning(c)
    BY <1>1, Zenon DEF persistent_memory_authority_poisoning,
         privileged_auth_to_untrusted_origin, physical_action_without_strong_approval,
         security_alert_suppression, cross_agent_delegation_poisoning
  <2>. QED  BY <2>1 DEF BoundaryHits
<1>6. SessionHits(c) = {}
  BY <1>1 DEF SessionHits
<1>7. RaceHits(c) = {}
  <2>1. \A methods : UrisOf(c, methods) = {}
    BY NoIndex DEF UrisOf
  <2>. QED  BY <2>1 DEF RaceHits, contains_same_uri_ops
<1>. QED  BY <1>2, <1>3, <1>4, <1>5, <1>6, <1>7 DEF Hits

(* What is heard of a text is a command or talk of security.               *)
Shown == \E field \in TextFields : Says(field, "command")

LEMMA Suppressed ==
  /\ _suppress_match(PackRules[1]) <=> payload.context \cap Examples # {}
  /\ _suppress_match(PackRules[2]) <=> payload.context \cap Examples # {}
  /\ _suppress_match(PackRules[3]) <=> payload.context \cap {"documentation", "benchmark"} # {}
  /\ ~_suppress_match(PackRules[4])
<1>1. \A words : words # "command" => (Says("normalized", words) <=> words \in payload.context)
  BY DEF Says
<1>2. "command" \notin Examples
  BY DEF Examples
<1>. QED  BY <1>1, <1>2, Pack DEF _suppress_match

LEMMA HeardOfText ==
  /\ Shown /\ payload.context \cap Examples = {} =>
       \E m \in ToSet(Scanned) : Vote(m) = "block"
  /\ "documentation" \in payload.context \/ (Shown /\ "benchmark" \notin payload.context) =>
       \E m \in ToSet(Scanned) : Vote(m) = "log_only"
  /\ \A m \in ToSet(Scanned) :
       \/ Vote(m) = "block" /\ Shown /\ payload.context \cap Examples = {}
       \/ /\ Vote(m) = "log_only"
          /\ "documentation" \in payload.context \/ (Shown /\ "benchmark" \notin payload.context)
<1>1. "normalized" \in TextFields
  BY DEF TextFields
<1>2. \A r \in 1..4 : \A field \in TextFields :
        Heard(r, field) => Written(r, field) \in ToSet(Scanned)
  BY ScannedMatches
<1>3. 1 \in 1..4 /\ 3 \in 1..4 /\ 4 \in 1..4 /\ 1 \in 1..3 /\ 2 \in 1..3 /\ 3 \in 1..3
  OBVIOUS
<1>4. \A field \in TextFields :
        /\ Heard(1, field) <=> payload.context \cap Examples = {} /\ Says(field, "command")
        /\ Heard(2, field) <=> payload.context \cap Examples = {} /\ Says(field, "command")
        /\ Heard(3, field) <=> /\ payload.context \cap {"documentation", "benchmark"} = {}
                               /\ Says(field, "command")
  BY <1>3, Pack, Suppressed DEF Heard
<1>5. \A field \in TextFields :
        Heard(4, field) <=> field = "normalized" /\ "documentation" \in payload.context
  BY Pack, Suppressed DEF Heard, Says
<1>6. ASSUME Shown, payload.context \cap Examples = {}
      PROVE  \E m \in ToSet(Scanned) : Vote(m) = "block"
  <2>1. PICK field \in TextFields : Says(field, "command")
    BY <1>6 DEF Shown
  <2>2. Written(1, field) \in ToSet(Scanned)
    BY <1>2, <1>3, <1>4, <1>6, <2>1
  <2>. QED  BY <2>2, WrittenVotes
<1>7. ASSUME "documentation" \in payload.context
      PROVE  \E m \in ToSet(Scanned) : Vote(m) = "log_only"
  <2>1. Written(4, "normalized") \in ToSet(Scanned)
    BY <1>1, <1>2, <1>3, <1>5, <1>7
  <2>. QED  BY <2>1, WrittenVotes
<1>8. ASSUME Shown, "benchmark" \notin payload.context, "documentation" \notin payload.context
      PROVE  \E m \in ToSet(Scanned) : Vote(m) = "log_only"
  <2>1. PICK field \in TextFields : Says(field, "command")
    BY <1>8 DEF Shown
  <2>2. Written(3, field) \in ToSet(Scanned)
    BY <1>2, <1>3, <1>4, <1>8, <2>1
  <2>. QED  BY <2>2, WrittenVotes
<1>9. ASSUME NEW m \in ToSet(Scanned)
      PROVE  \/ Vote(m) = "block" /\ Shown /\ payload.context \cap Examples = {}
             \/ /\ Vote(m) = "log_only"
                /\ \/ "documentation" \in payload.context
                   \/ Shown /\ "benchmark" \notin payload.context
  <2>1. PICK r \in 1..4 : \E field \in TextFields : Heard(r, field) /\ m = Written(r, field)
    BY ScannedMatches
  <2>2. PICK field \in TextFields : Heard(r, field) /\ m = Written(r, field)
    BY <2>1
  <2>3. CASE r = 1 \/ r = 2
    BY <1>4, <2>2, <2>3, WrittenVotes DEF Shown
  <2>4. CASE r = 3
    BY <1>4, <2>2, <2>4, WrittenVotes DEF Shown
  <2>5. CASE r = 4
    BY <1>5, <2>2, <2>5, WrittenVotes
  <2>. QED  BY <2>3, <2>4, <2>5
<1>. QED  BY <1>6, <1>7, <1>8, <1>9

LEMMA TextDecided ==
  DecisionFor(NoCall) =
    IF Shown /\ payload.context \cap Examples = {} THEN "block"
    ELSE IF \/ "documentation" \in payload.context
            \/ Shown /\ "benchmark" \notin payload.context THEN "log_only"
    ELSE "allow"
<1>1. \A m : m \in Evident(NoCall) <=> m \in ToSet(Scanned)
  BY DEF Evident, Validated, ToSet
<1>2. CASE Shown /\ payload.context \cap Examples = {}
  BY <1>1, <1>2, HeardOfText, BlockIsTheMost
<1>3. CASE /\ ~(Shown /\ payload.context \cap Examples = {})
           /\ \/ "documentation" \in payload.context
              \/ Shown /\ "benchmark" \notin payload.context
  <2>1. /\ \A m \in Evident(NoCall) : Vote(m) = "log_only"
        /\ \E m \in Evident(NoCall) : Vote(m) = "log_only"
    BY <1>1, <1>3, HeardOfText
  <2>2. Rank(DecisionFor(NoCall)) >= 1
    BY <2>1, Deciding DEF Rank
  <2>3. DecisionFor(NoCall) # "allow"
    BY <2>2 DEF Rank
  <2>. QED  BY <1>3, <2>1, <2>3, Deciding
<1>4. CASE /\ ~(Shown /\ payload.context \cap Examples = {})
           /\ ~("documentation" \in payload.context)
           /\ ~(Shown /\ "benchmark" \notin payload.context)
  <2>1. Evident(NoCall) = {}
    BY <1>1, <1>4, HeardOfText
  <2>. QED  BY <1>4, <2>1, Deciding
<1>. QED  BY <1>2, <1>3, <1>4

LEMMA AgreeingAllowed ==
  ASSUME NEW c, Hits(c) = {}, ~Shown, payload.context = {}
  PROVE  DecisionFor(c) = "allow"
<1>1. \A m : m \notin ToSet(Scanned)
  BY HeardOfText
<1>2. \A m : m \notin ToSet(Validated(c))
  <2>1. \A m : m \notin ToSet(ValidatorMatches(c))
    BY ValidatorList
  <2>2. ToSet(<< >>) = {}
    BY DEF ToSet
  <2>. QED  BY <2>1, <2>2 DEF Validated
<1>. QED  BY <1>1, <1>2, Deciding DEF Evident
-----------------------------------------------------------------------------
(* What the cleaners leave of the marks of a bare text, in their order.    *)
Blanked(marks) ==
  IF "control" \in marks THEN (marks \ {"control"}) \cup {"gap"} ELSE marks

MarksBefore(marks) ==
  LET left == Blanked(marks \ {"struck", "fullwidth", "zero_width"})
  IN  IF left \cap {"homoglyph", "gap"} = {} THEN left \ {"joined"} ELSE left

MarksAfter(marks) ==
  LET left == Blanked(marks \ {"zero_width"})
  IN  (IF left \cap {"homoglyph", "struck"} = {} THEN left \ {"split"} ELSE left) \ {"struck"}

BareText(core, marks) == TextOf(<< >>, core, marks, 0)

LEMMA BareCleaners ==
  ASSUME NEW core, NEW marks
  PROVE  LET t == BareText(core, marks)
         IN  /\ \A removed : Strip(t, removed) = BareText(core, marks \ removed)
             /\ remove_control_chars(t) = BareText(core, Blanked(marks))
             /\ t.layers = << >> /\ t.core = core /\ t.marks = marks
<1>. DEFINE t == BareText(core, marks)
<1>1. t.layers = << >> /\ t.core = core /\ t.marks = marks
  BY DEF BareText, TextOf
<1>2. \A x : [t EXCEPT !.marks = x] = BareText(core, x)
  BY DEF BareText, TextOf
<1>. HIDE DEF t
<1>3. \A removed : Strip(t, removed) = BareText(core, marks \ removed)
  <2>. TAKE removed
  <2>1. Strip(t, removed) = [t EXCEPT !.marks = t.marks \ removed]
    BY <1>1 DEF Strip, Bare
  <2>. QED  BY <1>1, <1>2, <2>1
<1>4. remove_control_chars(t) = BareText(core, Blanked(marks))
  <2>1. CASE "control" \in marks
    <3>1. remove_control_chars(t) = [t EXCEPT !.marks = (t.marks \ {"control"}) \cup {"gap"}]
      BY <1>1, <2>1 DEF remove_control_chars, Bare
    <3>. QED  BY <1>1, <1>2, <2>1, <3>1 DEF Blanked
  <2>2. CASE "control" \notin marks
    BY <1>1, <2>2 DEF remove_control_chars, Blanked, t
  <2>. QED  BY <2>1, <2>2
<1>. QED  BY <1>1, <1>3, <1>4 DEF t

LEMMA BareCleanedBefore ==
  ASSUME NEW core, NEW marks
  PROVE  CleanedBefore(BareText(core, marks)) = BareText(core, MarksBefore(marks))
<1>. DEFINE m1 == marks \ {"struck"}
            m2 == m1 \ {"fullwidth"}
            m3 == m2 \ {"zero_width"}
            m4 == Blanked(m3)
            m5 == IF m4 \cap {"homoglyph", "gap"} = {} THEN m4 \ {"joined"} ELSE m4
<1>1. remove_combining_marks_after_ascii(BareText(core, marks)) = BareText(core, m1)
  BY BareCleaners DEF remove_combining_marks_after_ascii
<1>. HIDE DEF m1
<1>2. apply_nfkc(BareText(core, m1)) = BareText(core, m2)
  BY BareCleaners DEF apply_nfkc
<1>. HIDE DEF m2
<1>3. remove_zero_width(BareText(core, m2)) = BareText(core, m3)
  BY BareCleaners DEF remove_zero_width
<1>. HIDE DEF m3
<1>4. remove_control_chars(BareText(core, m3)) = BareText(core, m4)
  BY BareCleaners
<1>. HIDE DEF m4
<1>5. repair_suspicious_compounds(BareText(core, m4)) = BareText(core, m5)
  BY BareCleaners DEF repair_suspicious_compounds
<1>6. m3 = marks \ {"struck", "fullwidth", "zero_width"}
  BY DEF m1, m2, m3
<1>7. m5 = MarksBefore(marks)
  BY <1>6 DEF m4, MarksBefore
<1>. QED  BY <1>1, <1>2, <1>3, <1>4, <1>5, <1>7 DEF CleanedBefore

LEMMA BareCleanedAfter ==
  ASSUME NEW core, NEW marks
  PROVE  CleanedAfter(BareText(core, marks)) = BareText(core, MarksAfter(marks))
<1>. DEFINE m1 == marks \ {"zero_width"}
            m2 == Blanked(m1)
            m3 == IF m2 \cap {"homoglyph", "struck"} = {} THEN m2 \ {"split"} ELSE m2
<1>1. remove_zero_width(BareText(core, marks)) = BareText(core, m1)
  BY BareCleaners DEF remove_zero_width
<1>2. remove_control_chars(BareText(core, m1)) = BareText(core, m2)
  BY BareCleaners
<1>. HIDE DEF m1
<1>3. collapse_suspicious_obfuscation(BareText(core, m2)) = BareText(core, m3)
  BY BareCleaners DEF collapse_suspicious_obfuscation
<1>. HIDE DEF m2
<1>4. remove_combining_marks_after_ascii(BareText(core, m3)) = BareText(core, m3 \ {"struck"})
  BY BareCleaners DEF remove_combining_marks_after_ascii
<1>5. m3 \ {"struck"} = MarksAfter(marks)
  BY DEF m2, m1, MarksAfter
<1>. QED  BY <1>1, <1>2, <1>3, <1>4, <1>5 DEF CleanedAfter

(* They lift all marks but homoglyphs, which a finding's skeleton lifts,   *)
(* from a text they ran on twice, and fewer from a decoded one.            *)
LEMMA LiftedMarks ==
  ASSUME NEW marks \in SUBSET (Marks \ {"gap"}), ~({"joined", "split"} \subseteq marks)
  PROVE  /\ MarksAfter(MarksBefore(marks)) \subseteq {"homoglyph"} <=> Lifted(marks, TRUE)
         /\ MarksAfter(marks) \subseteq {"homoglyph"} <=> Lifted(marks, FALSE)
<1>. DEFINE M(mark) == mark \in marks
            A(mark) == mark \in MarksBefore(marks)
<1>1. \A mark \in marks : mark \in {"struck", "fullwidth", "zero_width", "control", "joined",
                                    "split", "homoglyph"}
  BY DEF Marks
<1>2. \A mark : A(mark) <=>
        /\ mark \in {"gap", "joined", "split", "homoglyph"}
        /\ IF mark = "gap" THEN M("control") ELSE M(mark)
        /\ mark = "joined" => M("homoglyph") \/ M("control")
  BY <1>1 DEF MarksBefore, Blanked
<1>3. ASSUME NEW ms, \A mark \in ms : mark \in {"struck", "fullwidth", "zero_width", "control", "gap",
                                                "joined", "split", "homoglyph"}
      PROVE  \A mark : mark \in MarksAfter(ms) <=>
               /\ mark \in {"fullwidth", "gap", "joined", "split", "homoglyph"}
               /\ mark \in ms \/ (mark = "gap" /\ "control" \in ms)
               /\ mark = "split" => "homoglyph" \in ms \/ "struck" \in ms
  BY <1>3 DEF MarksAfter, Blanked
<1>4. \A mark : mark \in MarksAfter(MarksBefore(marks)) <=>
        /\ mark \in {"gap", "joined", "split", "homoglyph"}
        /\ A(mark)
        /\ mark = "split" => A("homoglyph")
  BY <1>2, <1>3
<1>5. MarksAfter(MarksBefore(marks)) \subseteq {"homoglyph"} <=>
        \A mark \in {"gap", "joined", "split"} : mark \notin MarksAfter(MarksBefore(marks))
  BY <1>4
<1>6. MarksAfter(MarksBefore(marks)) \subseteq {"homoglyph"} <=> Lifted(marks, TRUE)
  <2>1. "gap" \in MarksAfter(MarksBefore(marks)) <=> M("control")
    BY <1>2, <1>4
  <2>2. "joined" \in MarksAfter(MarksBefore(marks)) <=>
          M("joined") /\ (M("homoglyph") \/ M("control"))
    BY <1>2, <1>4
  <2>3. "split" \in MarksAfter(MarksBefore(marks)) <=> M("split") /\ M("homoglyph")
    BY <1>2, <1>4
  <2>. QED  BY <1>5, <2>1, <2>2, <2>3 DEF Lifted
<1>7. \A mark : mark \in MarksAfter(marks) <=>
        /\ mark \in {"fullwidth", "gap", "joined", "split", "homoglyph"}
        /\ M(mark) \/ (mark = "gap" /\ M("control"))
        /\ mark = "split" => M("homoglyph") \/ M("struck")
  BY <1>1, <1>3
<1>8. MarksAfter(marks) \subseteq {"homoglyph"} <=>
        \A mark \in {"fullwidth", "gap", "joined", "split"} : mark \notin MarksAfter(marks)
  BY <1>7
<1>9. MarksAfter(marks) \subseteq {"homoglyph"} <=> Lifted(marks, FALSE)
  <2>1. MarksAfter(marks) \subseteq {"homoglyph"} <=>
          /\ ~M("fullwidth") /\ ~M("control") /\ ~M("joined")
          /\ M("split") => ~M("homoglyph") /\ ~M("struck")
    BY <1>1, <1>7, <1>8
  <2>2. marks \subseteq {"zero_width", "split", "homoglyph", "struck"} <=>
          ~M("fullwidth") /\ ~M("control") /\ ~M("joined")
    BY <1>1
  <2>. QED  BY <2>1, <2>2 DEF Lifted
<1>. QED  BY <1>6, <1>9
-----------------------------------------------------------------------------
(* The text in the end is bare when every layer was taken off, and its     *)
(* marks are those the cleaners could not lift.                            *)
LEMMA FinalText ==
  ASSUME payload \in Payloads, NEW k \in 0..Layers, text = CleanedAfter(Read(k))
  PROVE  /\ IsText(text) /\ text.core = payload.core /\ text.part = 0
         /\ text.layers = << >> <=> k = Layers
         /\ k = Layers => (text.marks \subseteq {"homoglyph"} <=> Lifted(payload.marks, Layers = 0))
<1>1. payload.layers \in Seq(Encodings) /\ Layers \in Nat /\ Layers = Len(payload.layers)
  BY LayersType DEF Layers
<1>2. payload.marks \in SUBSET (Marks \ {"gap"}) /\ ~({"joined", "split"} \subseteq payload.marks)
  BY PayloadsAssumption DEF IsPayload
<1>3. Read(k).layers = << >> <=> k = Layers
  BY ReadAt
<1>4. CASE k = Layers
  <2>1. Under(payload, Layers + 1) = BareText(payload.core, payload.marks)
    <3>1. Layers \in 0..Len(payload.layers)
      BY <1>1
    <3>2. SubSeq(payload.layers, Layers + 1, Len(payload.layers)) = << >>
      BY <1>1, <3>1, Rest
    <3>. QED  BY <3>2, UnderText DEF BareText
  <2>2. CASE Layers = 0
    <3>1. Read(k) = BareText(payload.core, MarksBefore(payload.marks))
      <4>1. Layers + 1 = 1
        BY <2>2
      <4>. QED  BY <2>1, <2>2, <4>1, BareCleanedBefore DEF Read
    <3>2. text = BareText(payload.core, MarksAfter(MarksBefore(payload.marks)))
      BY <3>1, BareCleanedAfter
    <3>3. /\ IsText(text) /\ text.core = payload.core /\ text.part = 0 /\ text.layers = << >>
          /\ text.marks = MarksAfter(MarksBefore(payload.marks))
      BY <3>2 DEF BareText, TextOf, IsText
    <3>. QED  BY <1>2, <1>4, <2>2, <3>3, LiftedMarks
  <2>3. CASE Layers # 0
    <3>1. Read(k) = BareText(payload.core, payload.marks)
      BY <1>4, <2>1, <2>3 DEF Read
    <3>2. text = BareText(payload.core, MarksAfter(payload.marks))
      BY <3>1, BareCleanedAfter
    <3>3. /\ IsText(text) /\ text.core = payload.core /\ text.part = 0 /\ text.layers = << >>
          /\ text.marks = MarksAfter(payload.marks)
      BY <3>2 DEF BareText, TextOf, IsText
    <3>4. (Layers = 0) = FALSE
      BY <2>3
    <3>5. text.marks \subseteq {"homoglyph"} <=> Lifted(payload.marks, FALSE)
      BY <1>2, <3>3, LiftedMarks
    <3>. QED  BY <1>4, <3>3, <3>4, <3>5
  <2>. QED  BY <2>2, <2>3
<1>5. CASE k # Layers
  <2>1. Read(k) = Under(payload, k + 1)
    BY <1>1, <1>5, ReadAt
  <2>2. Read(k).layers # << >>
    BY <1>3, <1>5
  <2>3. CleanedAfter(Read(k)) = Read(k)
    BY <2>2 DEF CleanedAfter, remove_zero_width, remove_control_chars,
                collapse_suspicious_obfuscation, remove_combining_marks_after_ascii, Strip, Bare
  <2>4. text = Under(payload, k + 1) /\ text.layers # << >>
    BY <2>1, <2>2, <2>3
  <2>5. IsText(text) /\ text.core = payload.core /\ text.part = 0
    BY <2>4 DEF Under, IsText
  <2>. QED  BY <1>5, <2>4, <2>5
<1>. QED  BY <1>4, <1>5

(* A finding of a decoder shows the command when its layer is the          *)
(* innermost, no mark is on it, and it is no piece of it.                  *)
LEMMA FindingShows ==
  ASSUME payload \in Payloads, NEW i \in 1..Layers, NEW part \in 0..2
  PROVE  contains_suspicious_command_pattern(FindingOf(payload, i, part).decoded)
           <=> i = Layers /\ payload.core = "command" /\ payload.marks = {} /\ part = 0
<1>. DEFINE rest == SubSeq(payload.layers, i + 1, Layers)
<1>1. payload.layers \in Seq(Encodings) /\ Layers \in Nat /\ Layers = Len(payload.layers)
      /\ i \in 0..Len(payload.layers)
  BY LayersType DEF Layers
<1>2. rest = << >> <=> i = Layers
  BY <1>1, Rest
<1>3. FindingOf(payload, i, part).decoded = TextOf(rest, payload.core, payload.marks, part)
  BY Originals DEF PieceOf
<1>. HIDE DEF rest
<1>4. \A t : t = TextOf(rest, payload.core, payload.marks, part) =>
        /\ t.layers = rest /\ t.core = payload.core /\ t.marks = payload.marks /\ t.part = part
  BY DEF TextOf
<1>. QED  BY <1>2, <1>3, <1>4 DEF contains_suspicious_command_pattern, Bare

(* The skeleton of a text is shown where the text itself is mixed.         *)
LEMMA SkeletonShows ==
  ASSUME NEW t, IsText(t), t.part = 0
  PROVE  (\/ contains_suspicious_command_pattern(t)
          \/ /\ contains_mixed_latin_cyrillic(t)
             /\ contains_suspicious_command_pattern(Skeleton(t).decoded))
         <=> t.layers = << >> /\ t.core = "command" /\ t.marks \subseteq {"homoglyph"}
<1>1. CASE t.layers = << >> /\ "homoglyph" \in t.marks
  <2>. DEFINE s == [t EXCEPT !.marks = t.marks \ {"homoglyph"}]
  <2>1. Skeleton(t).decoded = s
    BY <1>1 DEF Skeleton, generate_confusable_skeleton, Strip, Bare
  <2>2. s.layers = t.layers /\ s.core = t.core /\ s.marks = t.marks \ {"homoglyph"} /\ s.part = 0
    BY DEF IsText
  <2>. HIDE DEF s
  <2>3. t.marks \ {"homoglyph"} = {} <=> t.marks \subseteq {"homoglyph"}
    OBVIOUS
  <2>. QED  BY <1>1, <2>1, <2>2, <2>3
            DEF contains_suspicious_command_pattern, contains_mixed_latin_cyrillic, Bare
<1>2. CASE ~(t.layers = << >> /\ "homoglyph" \in t.marks)
  BY <1>2 DEF contains_suspicious_command_pattern, contains_mixed_latin_cyrillic, Bare
<1>. QED  BY <1>1, <1>2

LEMMA CommandShown ==
  ASSUME payload \in Payloads, NEW k, NEW m, Concluded(k, m)
  PROVE  Shown <=> ComesToLight(payload)
<1>. DEFINE Pattern(t) == contains_suspicious_command_pattern(t)
            mixed == contains_mixed_latin_cyrillic(text)
<1>1. /\ payload.layers \in Seq(Encodings) /\ Layers \in Nat /\ Layers = Len(payload.layers)
      /\ k \in 0..Layers /\ m \in 0..Layers /\ Peeled(k, m)
  BY LayersType DEF Layers, Concluded
<1>2. FoundLayers(payload) = 1..m
  BY FoundOnce
<1>3. Shown <=> Pattern(text) \/ \E i \in DOMAIN findings : Pattern(findings[i].decoded)
  <2>1. Says("normalized", "command") <=> \E t \in Normalized : Pattern(t)
    BY DEF Says, TextsOf
  <2>2. Says("findings.decoded", "command") <=>
          \E i \in DOMAIN findings : Pattern(findings[i].decoded)
    BY DEF Says, TextsOf
  <2>3. Shown <=> Says("normalized", "command") \/ Says("findings.decoded", "command")
    BY DEF Shown, TextFields
  <2>4. /\ text \in Normalized
        /\ \A t \in Normalized : t = text \/ \E i \in DOMAIN findings : t = findings[i].decoded
    BY DEF Normalized
  <2>. QED  BY <2>1, <2>2, <2>3, <2>4
<1>4. (\E i \in DOMAIN findings : Pattern(findings[i].decoded)) <=>
        \/ \E i \in 1..m : Pattern(FindingOf(payload, i, 0).decoded)
        \/ mixed /\ Pattern(Skeleton(text).decoded)
  <2>1. PICK n \in Nat :
          /\ mixed => DOMAIN findings = 1..(n + 1) /\ findings[n + 1] = Skeleton(text)
          /\ ~mixed => DOMAIN findings = 1..n
          /\ m <= n
          /\ \A i \in 1..m : findings[i] = FindingOf(payload, i, 0)
          /\ \A i \in (m + 1)..n :
               Segmented(m) /\ \E part \in payload.pieces : findings[i] = FindingOf(payload, m, part)
    BY FindingsListed
  <2>2. \A i \in 1..(n + 1) : i \in 1..m \/ i \in (m + 1)..n \/ i = n + 1
    BY <1>1
  <2>3. n + 1 \in 1..(n + 1) /\ \A i \in 1..m : i \in 1..n /\ i \in 1..(n + 1)
    BY <1>1, <2>1
  <2>4. \A i \in (m + 1)..n : ~Pattern(findings[i].decoded)
    <3>1. payload.pieces \subseteq {1, 2} /\ {1, 2} \subseteq 0..2 /\ 0 \notin {1, 2}
      BY <1>1, PiecesLast
    <3>. QED  BY <2>1, <3>1, FindingShows DEF Segmented
  <2>5. \A i \in 1..n : i \in 1..(n + 1) /\ i # n + 1
    BY <2>1
  <2>. QED  BY <2>1, <2>2, <2>3, <2>4, <2>5
<1>5. (\E i \in 1..m : Pattern(FindingOf(payload, i, 0).decoded)) <=>
        Layers \in FoundLayers(payload) /\ payload.core = "command" /\ payload.marks = {}
  <2>1. \A i \in 1..m : i \in 1..Layers /\ 0 \in 0..2
    BY <1>1
  <2>. QED  BY <1>2, <2>1, FindingShows
<1>6. Pattern(text) \/ (mixed /\ Pattern(Skeleton(text).decoded)) <=>
        /\ k = Layers /\ payload.core = "command"
        /\ Lifted(payload.marks, Layers = 0)
  <2>1. text = CleanedAfter(Read(k))
    BY DEF Concluded
  <2>. QED  BY <1>1, <2>1, FinalText, SkeletonShows
<1>7. k = Layers <=>
        \A i \in 1..Layers : i \in FoundLayers(payload) /\ DecodeSteps[StepOf(payload.layers[i])].replaces
  <2>1. ASSUME k = Layers, NEW i \in 1..Layers PROVE i \in FoundLayers(payload) /\ Replaced(i)
    BY <1>1, <1>2, <2>1 DEF Peeled
  <2>2. ASSUME \A i \in 1..Layers : i \in FoundLayers(payload) /\ Replaced(i), k # Layers
        PROVE  FALSE
    <3>1. k + 1 \in 1..Layers
      BY <1>1, <2>2
    <3>2. k + 1 \in 1..m /\ Replaced(k + 1)
      BY <1>2, <2>2, <3>1
    <3>3. m = k + 1
      BY <1>1, <3>2 DEF Peeled
    <3>. QED  BY <1>1, <3>2, <3>3 DEF Peeled
  <2>. QED  BY <2>1, <2>2 DEF Replaced
<1>8. ComesToLight(payload) <=>
        /\ payload.core = "command"
        /\ \/ Layers \in FoundLayers(payload) /\ payload.marks = {}
           \/ k = Layers /\ Lifted(payload.marks, Layers = 0)
  BY <1>7, Zenon DEF ComesToLight, Layers
<1>. QED  BY <1>3, <1>4, <1>5, <1>6, <1>8
-----------------------------------------------------------------------------
(* A call comes with the plain text, and what is decided stays what the    *)
(* normalized text and the call say.                                       *)
RequestOK ==
  /\ NormalizerOK
  /\ call # NoCall => call \in Calls /\ payload = Plain
  /\ Decided => phase = "normalized" /\ decision = DecisionFor(call)

LEMMA ScannedStays ==
  ASSUME UNCHANGED normalizerVars
  PROVE  Scanned' = Scanned
<1>1. payload' = payload /\ text' = text /\ findings' = findings
  BY DEF normalizerVars
<1>2. Normalized' = Normalized
  BY <1>1 DEF Normalized, Annotated
<1>3. ASSUME NEW field, NEW words PROVE Says(field, words)' = Says(field, words)
  BY <1>1, <1>2 DEF Says, TextsOf
<1>4. ASSUME NEW r \in 1..4 PROVE Tried(PackRules[r])' = Tried(PackRules[r])
  <2>1. _suppress_match(PackRules[r])' = _suppress_match(PackRules[r])
    BY <1>3 DEF _suppress_match
  <2>2. ASSUME NEW field PROVE MatchIn(PackRules[r], field)' = MatchIn(PackRules[r], field)
    BY <1>3 DEF MatchIn
  <2>3. _rule_matches(PackRules[r])' = _rule_matches(PackRules[r])
    BY <2>2 DEF _rule_matches
  <2>. QED  BY <2>1, <2>3 DEF Tried
<1>. QED  BY <1>4 DEF Scanned

LEMMA RequestStep ==
  ASSUME RequestOK, [Next]_vars
  PROVE  RequestOK'
<1>1. [NormalizerNext]_normalizerVars
  BY DEF Next, Normalize, Conclude, vars
<1>2. NormalizerOK'
  BY <1>1, NormalizerStep DEF RequestOK
<1>3. payload' = payload /\ call' = call
  BY DEF Next, Normalize, Conclude, vars, normalizerVars, NormalizerNext, CleanBefore, Pass, Decode,
         EndRound, CleanAfter
<1>4. (Decided => phase = "normalized" /\ decision = DecisionFor(call))'
  <2>1. CASE Normalize
    <3>1. phase # "normalized" /\ decision' = decision
      BY <2>1 DEF Normalize, NormalizerNext, CleanBefore, Pass, Decode, EndRound, CleanAfter
    <3>2. ~Decided'
      BY <3>1 DEF RequestOK, Decided
    <3>. QED  BY <3>2
  <2>2. CASE Conclude \/ UNCHANGED vars
    <3>1. UNCHANGED normalizerVars
      BY <2>2 DEF Conclude, vars
    <3>2. phase' = phase /\ Scanned' = Scanned
      BY <3>1, ScannedStays DEF normalizerVars
    <3>3. Decided' => phase = "normalized" /\ decision' = DecisionFor(call)
      BY <2>2 DEF Conclude, vars, RequestOK, Decided
    <3>4. DecisionFor(call)' = DecisionFor(call)
      BY <1>3, <3>2 DEF DecisionFor
    <3>. QED  BY <3>2, <3>3, <3>4
  <2>. QED  BY <2>1, <2>2 DEF Next
<1>. QED  BY <1>2, <1>3, <1>4 DEF RequestOK

LEMMA RequestInvariant == Spec => []RequestOK
<1>1. Init => RequestOK
  <2>. SUFFICES ASSUME Init PROVE RequestOK
    OBVIOUS
  <2>1. NormalizerOK
    BY InitNormalizer DEF Init
  <2>2. call # NoCall => call \in Calls /\ payload = Plain
    BY DEF Init
  <2>3. ~Decided
    BY DEF Init, Decided
  <2>. QED  BY <2>1, <2>2, <2>3 DEF RequestOK
<1>2. RequestOK /\ [Next]_vars => RequestOK'
  BY RequestStep
<1>. QED  BY <1>1, <1>2, PTL DEF Spec

LEMMA DecidedText ==
  ASSUME RequestOK, Decided
  PROVE  decision = DecisionFor(call) /\ (Shown <=> ComesToLight(payload))
<1>1. phase = "normalized" /\ NormalizerOK /\ decision = DecisionFor(call)
  BY DEF RequestOK
<1>2. payload \in Payloads
  BY <1>1 DEF NormalizerOK
<1>3. PICK k, m : Concluded(k, m)
  BY <1>1 DEF NormalizerOK
<1>. QED  BY <1>1, <1>2, <1>3, CommandShown

LEMMA PlainIsDark == ~ComesToLight(Plain)
BY CallsAssumption DEF ComesToLight

(* Each layer the rounds can reach is found once, and so is each segment   *)
(* that decodes by itself, and nothing else is (FoundOnceAndInTime), for   *)
(* texts with any number of layers and for any number of rounds.           *)
THEOREM EveryLayerIsFoundOnce == Spec => []FoundOnceAndInTime
<1>1. RequestOK => FoundOnceAndInTime
  BY FoundNow DEF RequestOK
<1>. QED  BY <1>1, RequestInvariant, PTL

(* A command that comes to light is blocked, unless it is an example, and  *)
(* nothing else of a text is held back (CommandBlocked).                   *)
THEOREM CommandsAreBlocked == Spec => []CommandBlocked
<1>1. RequestOK => CommandBlocked
  <2>. SUFFICES ASSUME RequestOK, Decided, call = NoCall PROVE CommandBlocked
    BY DEF CommandBlocked
  <2>1. decision = DecisionFor(NoCall) /\ (Shown <=> ComesToLight(payload))
    BY DecidedText
  <2>. QED  BY <2>1, TextDecided DEF CommandBlocked
<1>. QED  BY <1>1, RequestInvariant, PTL

(* More signs of danger never weaken the decision on a call, but for the   *)
(* label that completes an unmarked approval, nor do more signs of trust   *)
(* make it stricter (EvidencePullsOneWay).                                 *)
THEOREM EvidenceIsMonotone == Spec => []EvidencePullsOneWay
<1>1. RequestOK => EvidencePullsOneWay
  <2>. SUFFICES ASSUME RequestOK PROVE EvidencePullsOneWay
    OBVIOUS
  <2>1. call # NoCall => IsToolCall(call)
    BY CallsAssumption DEF RequestOK
  <2>2. Decided => decision = DecisionFor(call)
    BY DEF RequestOK
  <2>. QED  BY <2>1, <2>2, PulledOneWay
<1>. QED  BY <1>1, RequestInvariant, PTL

(* A result of another tool, server or connection than the request's is    *)
(* blocked, one that agrees with it in all is let through                  *)
(* (ForeignResultBlocked).                                                 *)
THEOREM ForeignResultsAreBlocked == Spec => []ForeignResultBlocked
<1>1. RequestOK => ForeignResultBlocked
  <2>. SUFFICES ASSUME RequestOK, Decided, call # NoCall PROVE ForeignResultBlocked
    BY DEF ForeignResultBlocked
  <2>1. payload = Plain /\ decision = DecisionFor(call) /\ ~Shown
    BY DecidedText, PlainIsDark DEF RequestOK
  <2>2. ASSUME NEW field \in {"tool", "server", "connection"},
               call.trace.pending[field] # "", call.trace.observed[field] # "",
               call.trace.pending[field] # call.trace.observed[field]
        PROVE  decision = "block"
    BY <2>1, <2>2, ForeignBlocks
  <2>3. ASSUME call.trace.pending = call.trace.observed,
               "" \notin { call.trace.pending[field] : field \in Fields },
               call.traits = {}, call.operations = << >>
        PROVE  decision = "allow"
    <3>1. Hits(call) = {}
      BY <2>3, AgreeingHits
    <3>. QED  BY <2>1, <3>1, CallsAssumption, AgreeingAllowed
  <2>. QED  BY <2>2, <2>3 DEF ForeignResultBlocked
<1>. QED  BY <1>1, RequestInvariant, PTL
=============================================================================
