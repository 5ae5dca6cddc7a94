---------------------------- MODULE RulesEngine -----------------------------
(***************************************************************************)
(* From raw rule matches to the ranked list the decision engine reads.     *)
(*                                                                         *)
(* A match is a record [rule, field, severity, hint, risk, codes].  Rules  *)
(* are numbered in the alphabetical order of their ids; SoftBase gives,    *)
(* for every rule whose id ends in "_soft", the rule whose id is the rest. *)
(* Risks are in percent.                                                   *)
(***************************************************************************)
EXTENDS Integers, Sequences, FiniteSets, SequencesExt

CONSTANTS RuleIds,   \* the rule ids, as numbers
          SoftBase   \* [soft rule -> its base id]

(* What is asked of a match.                                               *)
IsMatch(m) == m.rule \in RuleIds /\ m.risk \in 0..100

ASSUME RuleIdsAssumption == RuleIds \subseteq Nat
ASSUME SoftBaseAssumption == DOMAIN SoftBase \subseteq RuleIds

FIELD_PRIORITY(field) ==
  CASE field = "normalized"        -> 0
    [] field = "findings.decoded"  -> 1
    [] field = "original"          -> 2
    [] field = "findings.original" -> 3
    [] OTHER                       -> 99

(* The i-th match supersedes the j-th of its rule by risk, then by the     *)
(* field it is in; of two equal ones the first found stays.                *)
Supersedes(matches, i, j) ==
  LET m == matches[i]
      n == matches[j]
      fm == FIELD_PRIORITY(m.field)
      fn == FIELD_PRIORITY(n.field)
  IN  \/ m.risk > n.risk
      \/ m.risk = n.risk /\ fm < fn
      \/ m.risk = n.risk /\ fm = fn /\ i <= j

LatestByRule(matches) ==   \* mutant: the last match found of a rule stays
  { matches[i] : i \in { i \in DOMAIN matches :
      \A j \in DOMAIN matches : matches[j].rule = matches[i].rule => i >= j } }

BestByRule(matches) ==
  { matches[i] : i \in { i \in DOMAIN matches :
      \A j \in DOMAIN matches :
        matches[j].rule = matches[i].rule => Supersedes(matches, i, j) } }

(* A soft rule says nothing when its base rule matched too.                *)
Outspoken(m, matches) ==
  /\ m.rule \in DOMAIN SoftBase
  /\ \E n \in matches : n.rule \notin DOMAIN SoftBase /\ n.rule = SoftBase[m.rule]

Ranked(m, n) ==
  m.risk > n.risk \/ (m.risk = n.risk /\ m.rule < n.rule)

(* The matches that remain.                                                *)
Spoken(matches) ==
  { m \in BestByRule(matches) : ~Outspoken(m, BestByRule(matches)) }

DedupeAndRank(matches) ==
  LET spoken   == Spoken(matches)
      Place(m) == Cardinality({ n \in spoken : Ranked(n, m) }) + 1
  IN  [i \in 1..Cardinality(spoken) |-> CHOOSE m \in spoken : Place(m) = i]

(* Mutant: the structural matches replace the text ones.                   *)
MergeReplace(scanned, structured) ==
  IF structured = << >> THEN scanned ELSE structured

(* The pipeline's merge of the text matches with the structural ones: per  *)
(* rule the riskiest, at the place of the first; not ranked again.         *)
MergeMatches(scanned, structured) ==
  LET all == ToSet(scanned) \cup ToSet(structured)
      Riskiest(rule) ==
        CHOOSE m \in all : m.rule = rule /\ \A n \in all : n.rule = rule => m.risk >= n.risk
      fresh == { j \in DOMAIN structured :
                   \A i \in DOMAIN scanned : scanned[i].rule # structured[j].rule }
      Place(j) == Cardinality({ i \in fresh : i < j }) + 1
  IN  [i \in DOMAIN scanned |-> Riskiest(scanned[i].rule)]
        \o [k \in 1..Cardinality(fresh) |-> structured[CHOOSE j \in fresh : Place(j) = k]]
=============================================================================
