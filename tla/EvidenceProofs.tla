---------------------------- MODULE EvidenceProofs ----------------------------
(***************************************************************************)
(* What deduplication, suppression, ranking, merge and cascade keep of the *)
(* matches found, for lists of any length: the decision is at least as     *)
(* strong as the vote of each match, and it is a vote of one.              *)
(***************************************************************************)
EXTENDS Evidence, FiniteSetTheorems, SequenceTheorems, WellFoundedInduction, TLAPS
(* Any set of numbers has a smallest.                                      *)
LEMMA Smallest ==
  ASSUME NEW T \in SUBSET Nat, T # {}
  PROVE  \E x \in T : \A y \in T : x <= y
<1>. DEFINE R == OpToRel(<, Nat)
<1>1. \A x, y \in Nat : y < x => << y, x >> \in R
  BY DEF OpToRel
<1>2. IsWellFoundedOn(R, Nat)
  BY NatLessThanWellFounded
<1>. HIDE DEF R
<1>3. PICK x \in T : \A y \in T : << y, x >> \notin R
  BY <1>2, WFMin
<1>4. \A y \in T : ~(y < x)
  BY <1>1, <1>3
<1>. QED  BY <1>4

(* Under a strict total order, the place of a member is one more than how  *)
(* many come before it: every place is taken, and by one member only.      *)
Before(R, S, m) == { n \in S : << n, m >> \in R }

LEMMA PlacesTaken ==
  ASSUME NEW S, IsFiniteSet(S), NEW R,
         \A m \in S : << m, m >> \notin R,
         \A m, n, o \in S : << m, n >> \in R /\ << n, o >> \in R => << m, o >> \in R,
         \A m, n \in S : m = n \/ << m, n >> \in R \/ << n, m >> \in R
  PROVE  /\ \A m \in S : Cardinality(Before(R, S, m)) + 1 \in 1..Cardinality(S)
         /\ \A m, n \in S :
              Cardinality(Before(R, S, m)) = Cardinality(Before(R, S, n)) => m = n
         /\ \A i \in 1..Cardinality(S) : \E m \in S : Cardinality(Before(R, S, m)) + 1 = i
<1>. DEFINE C(m) == Cardinality(Before(R, S, m))
<1>1. Cardinality(S) \in Nat
  BY FS_CardinalityType
<1>2. \A m \in S : Before(R, S, m) \in SUBSET S /\ m \notin Before(R, S, m)
  BY DEF Before
<1>3. ASSUME NEW m \in S PROVE IsFiniteSet(Before(R, S, m)) /\ C(m) \in Nat
  <2>1. IsFiniteSet(Before(R, S, m))
    BY <1>2, FS_Subset
  <2>. QED  BY <2>1, FS_CardinalityType
<1>4. ASSUME NEW m \in S, NEW T \in SUBSET S, Before(R, S, m) \cup {m} \subseteq T
      PROVE  C(m) + 1 <= Cardinality(T)
  <2>1. IsFiniteSet(T)
    BY FS_Subset
  <2>2. Cardinality(Before(R, S, m) \cup {m}) = C(m) + 1
    BY <1>2, <1>3, FS_AddElement
  <2>. QED  BY <1>4, <2>1, <2>2, FS_Subset
<1>5. \A m \in S : C(m) + 1 \in 1..Cardinality(S)
  <2>. TAKE m \in S
  <2>1. C(m) + 1 <= Cardinality(S)
    BY <1>2, <1>4
  <2>. QED  BY <1>1, <1>3, <2>1
<1>6. ASSUME NEW m \in S, NEW n \in S, << m, n >> \in R PROVE C(m) < C(n)
  <2>1. Before(R, S, m) \cup {m} \subseteq Before(R, S, n)
    BY <1>6 DEF Before
  <2>2. C(m) + 1 <= C(n)
    BY <1>2, <1>4, <2>1
  <2>. QED  BY <1>3, <2>2
<1>7. ASSUME NEW m \in S, NEW n \in S, C(m) = C(n) PROVE m = n
  <2>1. C(m) \in Nat /\ C(n) \in Nat
    BY <1>3
  <2>2. << m, n >> \notin R
    <3>. SUFFICES ASSUME << m, n >> \in R PROVE FALSE
      OBVIOUS
    <3>1. C(m) < C(n)
      BY <1>6
    <3>. QED  BY <1>7, <2>1, <3>1
  <2>3. << n, m >> \notin R
    <3>. SUFFICES ASSUME << n, m >> \in R PROVE FALSE
      OBVIOUS
    <3>1. C(n) < C(m)
      BY <1>6
    <3>. QED  BY <1>7, <2>1, <3>1
  <2>. QED  BY <2>2, <2>3
<1>8. \A i \in 1..Cardinality(S) : \E m \in S : C(m) + 1 = i
  <2>. DEFINE place == [m \in S |-> C(m) + 1]
  <2>1. place \in [S -> 1..Cardinality(S)]
    BY <1>5
  <2>2. \A m, n \in S : place[m] = place[n] => m = n
    BY <1>3, <1>7
  <2>3. place \in Injection(S, 1..Cardinality(S))
    BY <2>1, <2>2 DEF Injection, IsInjective
  <2>4. IsFiniteSet(1..Cardinality(S)) /\ Cardinality(1..Cardinality(S)) = Cardinality(S)
    BY <1>1, FS_Interval
  <2>5. place \in Surjection(S, 1..Cardinality(S))
    BY <2>3, <2>4, FS_Injection
  <2>. QED  BY <2>5 DEF Surjection
<1>. QED  BY <1>5, <1>7, <1>8
-----------------------------------------------------------------------------
LEMMA RiskGap ==
  ASSUME NEW r \in 0..100, NEW q \in 0..100
  PROVE  100 - r \in Nat /\ (100 - r <= 100 - q => r >= q)
OBVIOUS

(* Numbers compared in the order of the ranks.                             *)
LEMMA GreaterOrEqual ==
  ASSUME NEW r \in 0..100, NEW q \in 0..100, r >= q
  PROVE  r > q \/ r = q
OBVIOUS

LEMMA BothSupersede ==
  ASSUME NEW r \in 0..100, NEW q \in 0..100, NEW f \in Nat, NEW g \in Nat,
         NEW i \in Nat, NEW k \in Nat,
         r > q \/ (r = q /\ f < g) \/ (r = q /\ f = g /\ i <= k),
         q > r \/ (q = r /\ g < f) \/ (q = r /\ g = f /\ k <= i)
  PROVE  i = k
OBVIOUS

LEMMA RankTransitive ==
  ASSUME NEW r \in 0..100, NEW q \in 0..100, NEW p \in 0..100,
         NEW x \in Nat, NEW y \in Nat, NEW z \in Nat,
         r > q \/ (r = q /\ x < y), q > p \/ (q = p /\ y < z)
  PROVE  r > p \/ (r = p /\ x < z)
OBVIOUS

LEMMA RankOrder ==
  ASSUME NEW r \in 0..100, NEW q \in 0..100, NEW x \in Nat, NEW y \in Nat
  PROVE  /\ ~(r > r \/ (r = r /\ x < x))
         /\ (r = q /\ x = y) \/ r > q \/ (r = q /\ x < y) \/ q > r \/ (q = r /\ y < x)
OBVIOUS

LEMMA PriorityType == \A field : FIELD_PRIORITY(field) \in Nat
BY DEF FIELD_PRIORITY

(* Each match is outdone by the one kept of its rule.                      *)
LEMMA BestCovers ==
  ASSUME NEW M, \A m \in M : IsMatch(m), NEW matches \in Seq(M), NEW i \in DOMAIN matches
  PROVE  \E b \in BestByRule(matches) :
           b.rule = matches[i].rule /\ b.risk >= matches[i].risk
<1>. DEFINE same     == { j \in DOMAIN matches : matches[j].rule = matches[i].rule }
            prio(j)  == FIELD_PRIORITY(matches[j].field)
            gap(j)   == 100 - matches[j].risk
<1>1. DOMAIN matches \subseteq Nat /\ \A j \in DOMAIN matches : matches[j].risk \in 0..100
  BY ElementOfSeq DEF IsMatch
<1>2. i \in same /\ same \subseteq DOMAIN matches
  OBVIOUS
<1>. HIDE DEF same
<1>3. \A j \in same : matches[j].risk \in 0..100 /\ gap(j) \in Nat
  <2>. TAKE j \in same
  <2>1. matches[j].risk \in 0..100
    BY <1>1, <1>2
  <2>. QED  BY <2>1, RiskGap
<1>4. PICK a \in same : \A j \in same : gap(a) <= gap(j)
  <2>. DEFINE T == { gap(j) : j \in same }
  <2>1. T \in SUBSET Nat /\ T # {}
    BY <1>2, <1>3
  <2>. HIDE DEF T
  <2>2. PICK x \in T : \A y \in T : x <= y
    BY <2>1, Smallest
  <2>. QED  BY <2>2 DEF T
<1>5. \A j \in same : matches[a].risk >= matches[j].risk
  <2>. TAKE j \in same
  <2>1. gap(a) <= gap(j)
    BY <1>4
  <2>2. matches[a].risk \in 0..100 /\ matches[j].risk \in 0..100
    BY <1>3
  <2>. QED  BY <2>1, <2>2, RiskGap
<1>. DEFINE riskiest == { j \in same : matches[j].risk = matches[a].risk }
<1>6. PICK b \in riskiest : \A j \in riskiest : prio(b) <= prio(j)
  <2>. DEFINE T == { prio(j) : j \in riskiest }
  <2>1. T \in SUBSET Nat /\ T # {}
    BY PriorityType
  <2>. HIDE DEF T
  <2>2. PICK x \in T : \A y \in T : x <= y
    BY <2>1, Smallest
  <2>. QED  BY <2>2 DEF T
<1>. DEFINE first == { j \in riskiest : prio(j) = prio(b) }
<1>7. PICK k \in first : \A j \in first : k <= j
  <2>1. first \in SUBSET Nat /\ first # {}
    BY <1>1, <1>2
  <2>. HIDE DEF first
  <2>. QED  BY <2>1, Smallest
<1>8. ASSUME NEW j \in same PROVE Supersedes(matches, k, j)
  <2>1. k \in same /\ matches[k].risk = matches[a].risk /\ prio(k) = prio(b)
    BY <1>7
  <2>2. matches[k].risk \in 0..100 /\ matches[j].risk \in 0..100
    BY <1>3, <2>1
  <2>3. prio(k) \in Nat /\ prio(j) \in Nat
    BY PriorityType
  <2>4. matches[k].risk >= matches[j].risk
    BY <1>5, <2>1
  <2>5. matches[k].risk = matches[j].risk => prio(k) <= prio(j)
    BY <1>6, <2>1
  <2>6. matches[k].risk = matches[j].risk /\ prio(k) = prio(j) => k <= j
    BY <1>7, <2>1
  <2>. HIDE DEF prio
  <2>7. CASE matches[k].risk > matches[j].risk
    BY <2>7 DEF Supersedes
  <2>8. CASE matches[k].risk = matches[j].risk
    <3>1. prio(k) < prio(j) \/ (prio(k) = prio(j) /\ k <= j)
      BY <2>3, <2>5, <2>6, <2>8
    <3>2. CASE prio(k) < prio(j)
      BY <2>8, <3>2 DEF Supersedes, prio
    <3>3. CASE prio(k) = prio(j) /\ k <= j
      BY <2>8, <3>3 DEF Supersedes, prio
    <3>. QED  BY <3>1, <3>2, <3>3
  <2>. QED  BY <2>2, <2>4, <2>7, <2>8, GreaterOrEqual
<1>9. k \in DOMAIN matches /\ matches[k].rule = matches[i].rule
  BY <1>7, <1>2 DEF same
<1>10. \A j \in DOMAIN matches : matches[j].rule = matches[k].rule => Supersedes(matches, k, j)
  BY <1>8, <1>9 DEF same
<1>11. matches[k] \in BestByRule(matches)
  BY <1>9, <1>10 DEF BestByRule
<1>12. matches[k].risk >= matches[i].risk
  BY <1>2, <1>5, <1>7
<1>. QED  BY <1>9, <1>11, <1>12

(* And only one match of a rule is kept.                                   *)
LEMMA BestIsUnique ==
  ASSUME NEW M, \A m \in M : IsMatch(m), NEW matches \in Seq(M),
         NEW m \in BestByRule(matches), NEW n \in BestByRule(matches), m.rule = n.rule
  PROVE  m = n
<1>1. PICK i \in DOMAIN matches :
        m = matches[i]
        /\ \A j \in DOMAIN matches : matches[j].rule = matches[i].rule => Supersedes(matches, i, j)
  BY DEF BestByRule
<1>2. PICK k \in DOMAIN matches :
        n = matches[k]
        /\ \A j \in DOMAIN matches : matches[j].rule = matches[k].rule => Supersedes(matches, k, j)
  BY DEF BestByRule
<1>3. Supersedes(matches, i, k) /\ Supersedes(matches, k, i)
  BY <1>1, <1>2
<1>4. /\ i \in Nat /\ k \in Nat
      /\ matches[i].risk \in 0..100 /\ matches[k].risk \in 0..100
  BY ElementOfSeq DEF IsMatch
<1>5. FIELD_PRIORITY(matches[i].field) \in Nat /\ FIELD_PRIORITY(matches[k].field) \in Nat
  BY PriorityType
<1>6. i = k
  <2>. DEFINE r == matches[i].risk
              q == matches[k].risk
              f == FIELD_PRIORITY(matches[i].field)
              g == FIELD_PRIORITY(matches[k].field)
  <2>1. /\ r > q \/ (r = q /\ f < g) \/ (r = q /\ f = g /\ i <= k)
        /\ q > r \/ (q = r /\ g < f) \/ (q = r /\ g = f /\ k <= i)
    BY <1>3 DEF Supersedes
  <2>2. r \in 0..100 /\ q \in 0..100 /\ f \in Nat /\ g \in Nat
    BY <1>4, <1>5
  <2>. HIDE DEF r, q, f, g
  <2>. QED  BY <1>4, <2>1, <2>2, BothSupersede
<1>. QED  BY <1>1, <1>2, <1>6

LEMMA BestAreMatches ==
  ASSUME NEW M, NEW matches \in Seq(M)
  PROVE  /\ BestByRule(matches) \subseteq M
         /\ BestByRule(matches) \subseteq ToSet(matches)
         /\ IsFiniteSet(BestByRule(matches))
<1>. DEFINE image == { matches[i] : i \in 1..Len(matches) }
            f     == [i \in 1..Len(matches) |-> matches[i]]
<1>1. DOMAIN matches = 1..Len(matches) /\ Len(matches) \in Nat
  OBVIOUS
<1>2. f \in Surjection(1..Len(matches), image)
  BY DEF Surjection
<1>3. IsFiniteSet(1..Len(matches))
  BY <1>1, FS_Interval
<1>4. IsFiniteSet(image)
  BY <1>2, <1>3, FS_Surjection
<1>5. BestByRule(matches) \subseteq image
  BY <1>1 DEF BestByRule
<1>6. image \subseteq M
  BY <1>1, ElementOfSeq
<1>7. BestByRule(matches) \subseteq ToSet(matches)
  BY DEF BestByRule, ToSet
<1>. QED  BY <1>4, <1>5, <1>6, <1>7, FS_Subset

(* A match that is kept is ranked, or its base rule's is.                  *)
LEMMA SpokenOrBase ==
  ASSUME NEW matches, NEW m \in BestByRule(matches)
  PROVE  \/ m \in Spoken(matches)
         \/ /\ m.rule \in DOMAIN SoftBase
            /\ \E n \in Spoken(matches) : n.rule = SoftBase[m.rule]
BY DEF Spoken, Outspoken

(* The ranked list holds the spoken matches and nothing else.              *)
LEMMA RankedList ==
  ASSUME NEW M, \A m \in M : IsMatch(m), NEW matches \in Seq(M)
  PROVE  /\ DedupeAndRank(matches) \in Seq(M)
         /\ ToSet(DedupeAndRank(matches)) = Spoken(matches)
<1>. DEFINE spoken   == Spoken(matches)
            R        == { p \in spoken \X spoken : Ranked(p[1], p[2]) }
            Place(m) == Cardinality({ n \in spoken : Ranked(n, m) }) + 1
            ranked   == DedupeAndRank(matches)
<1>1. spoken \subseteq BestByRule(matches) /\ spoken \subseteq M /\ IsFiniteSet(spoken)
  <2>1. spoken \subseteq BestByRule(matches)
    BY DEF Spoken
  <2>. QED  BY <2>1, BestAreMatches, FS_Subset
<1>2. \A m \in spoken : m.risk \in 0..100 /\ m.rule \in Nat
  BY <1>1, RuleIdsAssumption DEF IsMatch
<1>3. \A m, n \in spoken : m.rule = n.rule => m = n
  BY <1>1, BestIsUnique
<1>4. ranked = [i \in 1..Cardinality(spoken) |-> CHOOSE m \in spoken : Place(m) = i]
  BY DEF DedupeAndRank
<1>. HIDE DEF spoken, ranked
<1>5. /\ \A m \in spoken : ~Ranked(m, m)
      /\ \A m, n, o \in spoken : Ranked(m, n) /\ Ranked(n, o) => Ranked(m, o)
      /\ \A m, n \in spoken : m = n \/ Ranked(m, n) \/ Ranked(n, m)
  <2>1. ASSUME NEW m \in spoken PROVE ~Ranked(m, m)
    BY <1>2, RankOrder DEF Ranked
  <2>2. ASSUME NEW m \in spoken, NEW n \in spoken, NEW o \in spoken,
               Ranked(m, n), Ranked(n, o)
        PROVE  Ranked(m, o)
    <3>1. /\ m.risk \in 0..100 /\ n.risk \in 0..100 /\ o.risk \in 0..100
          /\ m.rule \in Nat /\ n.rule \in Nat /\ o.rule \in Nat
      BY <1>2
    <3>2. /\ m.risk > n.risk \/ (m.risk = n.risk /\ m.rule < n.rule)
          /\ n.risk > o.risk \/ (n.risk = o.risk /\ n.rule < o.rule)
      BY <2>2 DEF Ranked
    <3>3. m.risk > o.risk \/ (m.risk = o.risk /\ m.rule < o.rule)
      <4>. DEFINE r == m.risk  q == n.risk  p == o.risk
                  x == m.rule  y == n.rule  z == o.rule
      <4>1. /\ r \in 0..100 /\ q \in 0..100 /\ p \in 0..100
            /\ x \in Nat /\ y \in Nat /\ z \in Nat
            /\ r > q \/ (r = q /\ x < y)
            /\ q > p \/ (q = p /\ y < z)
        BY <3>1, <3>2
      <4>. HIDE DEF r, q, p, x, y, z
      <4>2. r > p \/ (r = p /\ x < z)
        BY <4>1, RankTransitive
      <4>. QED  BY <4>2 DEF r, p, x, z
    <3>. QED  BY <3>3 DEF Ranked
  <2>3. ASSUME NEW m \in spoken, NEW n \in spoken
        PROVE  m = n \/ Ranked(m, n) \/ Ranked(n, m)
    <3>1. /\ m.risk \in 0..100 /\ n.risk \in 0..100 /\ m.rule \in Nat /\ n.rule \in Nat
      BY <1>2
    <3>2. m.rule = n.rule => m = n
      BY <1>3
    <3>. QED  BY <3>1, <3>2, RankOrder DEF Ranked
  <2>. QED  BY <2>1, <2>2, <2>3
<1>6. \A m, n \in spoken : << m, n >> \in R <=> Ranked(m, n)
  OBVIOUS
<1>7. \A m \in spoken : Before(R, spoken, m) = { n \in spoken : Ranked(n, m) }
  BY <1>6 DEF Before
<1>. HIDE DEF R
<1>8. /\ \A m \in spoken : Cardinality(Before(R, spoken, m)) + 1 \in 1..Cardinality(spoken)
      /\ \A m, n \in spoken :
           Cardinality(Before(R, spoken, m)) = Cardinality(Before(R, spoken, n)) => m = n
      /\ \A i \in 1..Cardinality(spoken) :
           \E m \in spoken : Cardinality(Before(R, spoken, m)) + 1 = i
  <2>1. /\ \A m \in spoken : << m, m >> \notin R
        /\ \A m, n, o \in spoken : << m, n >> \in R /\ << n, o >> \in R => << m, o >> \in R
        /\ \A m, n \in spoken : m = n \/ << m, n >> \in R \/ << n, m >> \in R
    BY <1>5, <1>6
  <2>. QED  BY <1>1, <2>1, PlacesTaken
<1>9. \A m \in spoken : Place(m) = Cardinality(Before(R, spoken, m)) + 1
  BY <1>7
<1>10. \A m \in spoken : Cardinality(Before(R, spoken, m)) \in Nat
  <2>. TAKE m \in spoken
  <2>1. Before(R, spoken, m) \subseteq spoken
    BY DEF Before
  <2>. QED  BY <1>1, <2>1, FS_Subset, FS_CardinalityType
<1>11. /\ \A m \in spoken : Place(m) \in 1..Cardinality(spoken)
       /\ \A m, n \in spoken : Place(m) = Place(n) => m = n
       /\ \A i \in 1..Cardinality(spoken) : \E m \in spoken : Place(m) = i
  <2>. HIDE DEF Place
  <2>1. \A m \in spoken : Place(m) \in 1..Cardinality(spoken)
    BY <1>8, <1>9
  <2>2. ASSUME NEW m \in spoken, NEW n \in spoken, Place(m) = Place(n) PROVE m = n
    <3>1. Cardinality(Before(R, spoken, m)) = Cardinality(Before(R, spoken, n))
      BY <1>9, <1>10, <2>2
    <3>. QED  BY <1>8, <3>1
  <2>3. \A i \in 1..Cardinality(spoken) : \E m \in spoken : Place(m) = i
    BY <1>8, <1>9
  <2>. QED  BY <2>1, <2>2, <2>3
<1>. HIDE DEF Place
<1>12. \A i \in 1..Cardinality(spoken) : ranked[i] \in spoken
  BY <1>4, <1>11
<1>13. \A m \in spoken : ranked[Place(m)] = m
  BY <1>4, <1>11
<1>14. Cardinality(spoken) \in Nat
  BY <1>1, FS_CardinalityType
<1>15. DOMAIN ranked = 1..Cardinality(spoken)
  BY <1>4
<1>16. ranked \in Seq(M)
  <2>1. \A i \in 1..Cardinality(spoken) : ranked[i] \in M
    BY <1>1, <1>12
  <2>2. ranked \in [1..Cardinality(spoken) -> M]
    <3>1. ranked = [i \in 1..Cardinality(spoken) |-> ranked[i]]
      BY <1>4
    <3>. QED  BY <2>1, <3>1
  <2>. QED  BY <1>14, <2>2
<1>17. ToSet(ranked) = spoken
  BY <1>11, <1>12, <1>13, <1>15 DEF ToSet
<1>. QED  BY <1>16, <1>17 DEF spoken, ranked
-----------------------------------------------------------------------------
(* What a list is that was put together of two.                            *)
ConcatOf(s, t) ==
  /\ DOMAIN (s \o t) = 1..(Len(s) + Len(t))
  /\ \A i \in 1..Len(s) : (s \o t)[i] = s[i]
  /\ \A k \in 1..Len(t) : (s \o t)[Len(s) + k] = t[k]

LEMMA Concatenated ==
  ASSUME NEW M, NEW s \in Seq(M), NEW t \in Seq(M)
  PROVE  ConcatOf(s, t)
<1>1. Len(s) \in Nat /\ Len(t) \in Nat
  OBVIOUS
<1>2. /\ s \o t \in Seq(M) /\ Len(s \o t) = Len(s) + Len(t)
      /\ \A i \in 1..(Len(s) + Len(t)) :
           (s \o t)[i] = IF i <= Len(s) THEN s[i] ELSE t[i - Len(s)]
  BY ConcatProperties
<1>3. DOMAIN (s \o t) = 1..(Len(s) + Len(t))
  BY <1>2
<1>4. ASSUME NEW i \in 1..Len(s) PROVE (s \o t)[i] = s[i]
  <2>1. i \in 1..(Len(s) + Len(t)) /\ i <= Len(s)
    BY <1>1
  <2>. QED  BY <1>2, <2>1
<1>5. ASSUME NEW k \in 1..Len(t) PROVE (s \o t)[Len(s) + k] = t[k]
  <2>1. /\ Len(s) + k \in 1..(Len(s) + Len(t)) /\ ~(Len(s) + k <= Len(s))
        /\ Len(s) + k - Len(s) = k
    BY <1>1
  <2>. QED  BY <1>2, <2>1
<1>. QED  BY <1>3, <1>4, <1>5 DEF ConcatOf

(* Each match of either list is outdone by a merged one of its rule, and   *)
(* nothing is merged that is in neither.                                   *)
LEMMA MergeCovers ==
  ASSUME NEW M, \A m \in M : IsMatch(m), NEW inText \in Seq(M), NEW inCall \in Seq(M)
  PROVE  /\ \A n \in ToSet(inText) \cup ToSet(inCall) :
              \E b \in ToSet(MergeMatches(inText, inCall)) :
                b \in M /\ b.rule = n.rule /\ b.risk >= n.risk
         /\ ToSet(MergeMatches(inText, inCall)) \subseteq ToSet(inText) \cup ToSet(inCall)
<1>. DEFINE all == ToSet(inText) \cup ToSet(inCall)
            Riskiest(rule) ==
              CHOOSE m \in all : m.rule = rule /\ \A o \in all : o.rule = rule => m.risk >= o.risk
            fresh == { j \in DOMAIN inCall :
                         \A i \in DOMAIN inText : inText[i].rule # inCall[j].rule }
            Place(j) == Cardinality({ i \in fresh : i < j }) + 1
            head == [i \in DOMAIN inText |-> Riskiest(inText[i].rule)]
            rest == [k \in 1..Cardinality(fresh) |->
                       inCall[CHOOSE j \in fresh : Place(j) = k]]
            merged == MergeMatches(inText, inCall)
<1>1. merged = head \o rest
  BY DEF MergeMatches
<1>2. /\ DOMAIN inText = 1..Len(inText) /\ Len(inText) \in Nat
      /\ DOMAIN inCall = 1..Len(inCall) /\ Len(inCall) \in Nat
  OBVIOUS
<1>3. all \subseteq M
  BY ElementOfSeq DEF ToSet
<1>4. \A m \in all : m.risk \in 0..100
  BY <1>3 DEF IsMatch
<1>. HIDE DEF all, merged
<1>5. ASSUME NEW m \in all
      PROVE  /\ Riskiest(m.rule) \in all /\ Riskiest(m.rule).rule = m.rule
             /\ Riskiest(m.rule).risk >= m.risk
  <2>. DEFINE same == { o \in all : o.rule = m.rule }
              gaps == { 100 - o.risk : o \in same }
  <2>1. gaps \in SUBSET Nat /\ gaps # {}
    BY <1>4, RiskGap
  <2>. HIDE DEF gaps
  <2>2. PICK x \in gaps : \A y \in gaps : x <= y
    BY <2>1, Smallest
  <2>3. PICK a \in same : \A o \in same : 100 - a.risk <= 100 - o.risk
    BY <2>2 DEF gaps
  <2>4. \A o \in same : a.risk >= o.risk
    BY <1>4, <2>3, RiskGap
  <2>5. a \in all /\ a.rule = m.rule /\ \A o \in all : o.rule = m.rule => a.risk >= o.risk
    BY <2>4
  <2>. QED  BY <2>5
<1>. HIDE DEF Riskiest
<1>6. IsFiniteSet(fresh) /\ Cardinality(fresh) \in Nat
  <2>1. fresh \subseteq 1..Len(inCall)
    BY <1>2
  <2>2. IsFiniteSet(1..Len(inCall))
    BY <1>2, FS_Interval
  <2>. QED  BY <2>1, <2>2, FS_Subset, FS_CardinalityType
<1>7. /\ \A j \in fresh : Place(j) \in 1..Cardinality(fresh)
      /\ \A i, j \in fresh : Place(i) = Place(j) => i = j
      /\ \A k \in 1..Cardinality(fresh) : \E j \in fresh : Place(j) = k
  <2>. DEFINE R == { p \in fresh \X fresh : p[1] < p[2] }
  <2>1. fresh \subseteq Nat
    BY <1>2
  <2>. HIDE DEF fresh
  <2>2. \A i, j \in fresh : << i, j >> \in R <=> i < j
    OBVIOUS
  <2>3. \A j \in fresh : Before(R, fresh, j) = { i \in fresh : i < j }
    BY <2>2 DEF Before
  <2>. HIDE DEF R
  <2>4. /\ \A j \in fresh : << j, j >> \notin R
        /\ \A i, j, k \in fresh : << i, j >> \in R /\ << j, k >> \in R => << i, k >> \in R
        /\ \A i, j \in fresh : i = j \/ << i, j >> \in R \/ << j, i >> \in R
    BY <2>1, <2>2
  <2>5. /\ \A j \in fresh : Cardinality(Before(R, fresh, j)) + 1 \in 1..Cardinality(fresh)
        /\ \A i, j \in fresh :
             Cardinality(Before(R, fresh, i)) = Cardinality(Before(R, fresh, j)) => i = j
        /\ \A k \in 1..Cardinality(fresh) :
             \E j \in fresh : Cardinality(Before(R, fresh, j)) + 1 = k
    BY <1>6, <2>4, PlacesTaken
  <2>6. \A j \in fresh : Place(j) = Cardinality(Before(R, fresh, j)) + 1
    BY <2>3
  <2>7. \A j \in fresh : Cardinality(Before(R, fresh, j)) \in Nat
    <3>. TAKE j \in fresh
    <3>1. Before(R, fresh, j) \subseteq fresh
      BY DEF Before
    <3>. QED  BY <1>6, <3>1, FS_Subset, FS_CardinalityType
  <2>. HIDE DEF Place
  <2>. QED  BY <2>5, <2>6, <2>7
<1>8. /\ DOMAIN merged = 1..(Len(inText) + Cardinality(fresh))
      /\ \A i \in 1..Len(inText) : merged[i] = Riskiest(inText[i].rule)
      /\ \A k \in 1..Cardinality(fresh) :
           merged[Len(inText) + k] = inCall[CHOOSE j \in fresh : Place(j) = k]
  <2>. HIDE DEF fresh, Place
  <2>. DEFINE later(k) == inCall[CHOOSE j \in fresh : Place(j) = k]
              soon(i)  == Riskiest(inText[i].rule)
              some == { soon(i) : i \in 1..Len(inText) } \cup { later(k) : k \in 1..Cardinality(fresh) }
  <2>. HIDE DEF later, soon
  <2>1. head = [i \in 1..Len(inText) |-> soon(i)] /\ rest = [k \in 1..Cardinality(fresh) |-> later(k)]
    BY <1>2 DEF later, soon
  <2>. HIDE DEF head, rest
  <2>2. \A i \in 1..Len(inText) : soon(i) \in some
    OBVIOUS
  <2>3. \A k \in 1..Cardinality(fresh) : later(k) \in some
    OBVIOUS
  <2>. HIDE DEF some
  <2>4. head \in [1..Len(inText) -> some] /\ rest \in [1..Cardinality(fresh) -> some]
    BY <2>1, <2>2, <2>3
  <2>5. head \in Seq(some) /\ Len(head) = Len(inText)
    BY <1>2, <2>4
  <2>6. rest \in Seq(some) /\ Len(rest) = Cardinality(fresh)
    BY <1>6, <2>4
  <2>7. ConcatOf(head, rest)
    BY <2>5, <2>6, Concatenated
  <2>8. DOMAIN merged = 1..(Len(inText) + Cardinality(fresh))
    BY <1>1, <2>5, <2>6, <2>7 DEF ConcatOf
  <2>9. \A i \in 1..Len(inText) : merged[i] = soon(i)
    BY <1>1, <2>1, <2>5, <2>7 DEF ConcatOf
  <2>10. \A k \in 1..Cardinality(fresh) : merged[Len(inText) + k] = later(k)
    BY <1>1, <2>1, <2>5, <2>6, <2>7 DEF ConcatOf
  <2>. QED  BY <2>8, <2>9, <2>10 DEF later, soon
<1>. HIDE DEF Place
<1>9. ASSUME NEW n \in all, NEW i \in DOMAIN inText, inText[i].rule = n.rule
      PROVE  \E b \in ToSet(merged) : b \in M /\ b.rule = n.rule /\ b.risk >= n.risk
  <2>1. merged[i] = Riskiest(n.rule) /\ i \in DOMAIN merged
    BY <1>2, <1>6, <1>8, <1>9
  <2>2. Riskiest(n.rule) \in ToSet(merged)
    BY <2>1 DEF ToSet
  <2>. QED  BY <1>3, <1>5, <2>2
<1>10. ASSUME NEW n \in all, NEW j \in fresh, n = inCall[j]
       PROVE  \E b \in ToSet(merged) : b \in M /\ b.rule = n.rule /\ b.risk >= n.risk
  <2>1. Place(j) \in 1..Cardinality(fresh) /\ (CHOOSE i \in fresh : Place(i) = Place(j)) = j
    BY <1>7
  <2>2. /\ Len(inText) + Place(j) \in DOMAIN merged
        /\ merged[Len(inText) + Place(j)] = n
    BY <1>2, <1>6, <1>8, <1>10, <2>1
  <2>3. n \in ToSet(merged)
    BY <2>2 DEF ToSet
  <2>4. \A r \in 0..100 : r >= r
    OBVIOUS
  <2>. QED  BY <1>3, <1>4, <2>3, <2>4
<1>11. ToSet(merged) \subseteq all
  <2>. SUFFICES ASSUME NEW x \in DOMAIN merged PROVE merged[x] \in all
    BY DEF ToSet
  <2>1. CASE x \in 1..Len(inText)
    <3>1. merged[x] = Riskiest(inText[x].rule)
      BY <1>8, <2>1
    <3>2. inText[x] \in all
      BY <1>2, <2>1 DEF all, ToSet
    <3>. QED  BY <1>5, <3>1, <3>2
  <2>2. CASE x \notin 1..Len(inText)
    <3>1. PICK k \in 1..Cardinality(fresh) : x = Len(inText) + k
      <4>1. x \in 1..(Len(inText) + Cardinality(fresh))
        BY <1>8
      <4>. HIDE DEF fresh
      <4>2. x - Len(inText) \in 1..Cardinality(fresh) /\ x = Len(inText) + (x - Len(inText))
        BY <1>2, <1>6, <2>2, <4>1
      <4>. QED  BY <4>2
    <3>2. \E j \in fresh : Place(j) = k
      BY <1>7
    <3>. DEFINE j == CHOOSE j \in fresh : Place(j) = k
    <3>3. j \in fresh
      BY <3>2
    <3>4. merged[x] = inCall[j]
      BY <1>8, <3>1
    <3>. HIDE DEF j
    <3>5. j \in DOMAIN inCall
      BY <3>3
    <3>. QED  BY <3>4, <3>5 DEF all, ToSet
  <2>. QED  BY <2>1, <2>2
<1>12. ASSUME NEW n \in ToSet(inText)
       PROVE  \E b \in ToSet(merged) : b \in M /\ b.rule = n.rule /\ b.risk >= n.risk
  <2>1. PICK i \in DOMAIN inText : inText[i] = n
    BY <1>12 DEF ToSet
  <2>2. n \in all
    BY DEF all
  <2>. QED  BY <1>9, <2>1, <2>2
<1>13. ASSUME NEW n \in ToSet(inCall)
       PROVE  \E b \in ToSet(merged) : b \in M /\ b.rule = n.rule /\ b.risk >= n.risk
  <2>1. PICK j \in DOMAIN inCall : inCall[j] = n
    BY <1>13 DEF ToSet
  <2>2. j \in fresh \/ \E i \in DOMAIN inText : inText[i].rule = n.rule
    BY <2>1
  <2>3. n \in all
    BY DEF all
  <2>. HIDE DEF fresh
  <2>. QED  BY <1>9, <1>10, <2>1, <2>2, <2>3
<1>. QED  BY <1>11, <1>12, <1>13 DEF all, merged

LEMMA VerdictIsDecision ==
  ASSUME NEW matches, NEW answer
  PROVE  Verdict(matches, answer) \in Decisions
BY Zenon DEF Verdict, Decisions

(* What the cascade gives is at least as strong as what the policy asks.   *)
LEMMA VerdictKeepsPolicy ==
  ASSUME NEW matches, NEW answer, answer.decision \in Decisions
  PROVE  Rank(Verdict(matches, answer)) >= Rank(answer.decision)
<1>1. Rank("block") = 3 /\ Rank("require_approval") = 2 /\ Rank("log_only") = 1
        /\ Rank("allow") = 0
  BY DEF Rank
<1>2. /\ Verdict(matches, answer) \in Decisions
      /\ answer.decision = "block" => Verdict(matches, answer) = "block"
      /\ answer.decision = "require_approval" =>
           Verdict(matches, answer) \in {"block", "require_approval"}
      /\ answer.decision = "log_only" => Verdict(matches, answer) # "allow"
  BY Zenon DEF Verdict, Decisions
<1>. QED  BY <1>1, <1>2 DEF Decisions
-----------------------------------------------------------------------------
(* Matches of rules that keep to what is asked of them.                    *)
Agreed(matches) == Consistent(matches) /\ \A m \in matches : IsMatch(m)

LEMMA VoteRank == \A m : Rank(Vote(m)) \in 0..3
BY DEF Vote, Rank

LEMMA VerdictRank == \A matches, answer : Rank(Verdict(matches, answer)) \in 0..3
<1>1. \A d \in Decisions : Rank(d) \in 0..3
  BY DEF Rank, Decisions
<1>. QED  BY <1>1, VerdictIsDecision

(* A match votes and weighs no more than another.                          *)
Outdone(m, b) == Rank(Vote(b)) >= Rank(Vote(m)) /\ b.risk >= m.risk

LEMMA OutdoneTransitive ==
  ASSUME NEW Found, Agreed(Found),
         NEW m \in Found, NEW n \in Found, NEW b \in Found, Outdone(m, n), Outdone(n, b)
  PROVE  Outdone(m, b)
<1>1. m.risk \in 0..100 /\ n.risk \in 0..100 /\ b.risk \in 0..100
  BY DEF Agreed, IsMatch
<1>2. /\ Rank(Vote(m)) \in 0..3 /\ Rank(Vote(n)) \in 0..3 /\ Rank(Vote(b)) \in 0..3
  BY VoteRank
<1>3. Rank(Vote(b)) >= Rank(Vote(m))
  BY <1>2 DEF Outdone
<1>4. ASSUME NEW r \in 0..100, NEW q \in 0..100, NEW p \in 0..100, q >= r, p >= q
      PROVE  p >= r
  BY <1>4
<1>5. b.risk >= m.risk
  BY <1>1, <1>4 DEF Outdone
<1>. QED  BY <1>3, <1>5 DEF Outdone

(* What the packs keep to.                                                 *)
LEMMA RiskierOutdoes ==
  ASSUME NEW Found, Agreed(Found),
         NEW m \in Found, NEW b \in Found, b.rule = m.rule, b.risk >= m.risk
  PROVE  Outdone(m, b)
BY DEF Agreed, Consistent, Outdone

LEMMA BaseOutdoes ==
  ASSUME NEW Found, Agreed(Found),
         NEW m \in Found, NEW n \in Found, m.rule \in DOMAIN SoftBase, n.rule = SoftBase[m.rule]
  PROVE  Outdone(m, n)
<1>1. Rank(Vote(m)) <= Rank(Vote(n)) /\ m.risk <= n.risk
  BY DEF Agreed, Consistent
<1>2. m.risk \in 0..100 /\ n.risk \in 0..100
  BY DEF Agreed, IsMatch
<1>3. ASSUME NEW r \in 0..100, NEW q \in 0..100, r <= q PROVE q >= r
  BY <1>3
<1>4. n.risk >= m.risk
  BY <1>1, <1>2, <1>3
<1>. QED  BY <1>1, <1>4, VoteRank DEF Outdone

(* Each match is outdone by one of its list's ranking.                     *)
LEMMA RankingOutdoes ==
  ASSUME NEW Found, Agreed(Found),
         NEW matches \in Seq(Found), NEW i \in DOMAIN matches
  PROVE  \E b \in ToSet(DedupeAndRank(matches)) : b \in Found /\ Outdone(matches[i], b)
<1>. DEFINE raw == matches[i]
<1>1. \A m \in Found : IsMatch(m)
  BY DEF Agreed
<1>2. raw \in Found
  BY ElementOfSeq
<1>3. PICK m \in BestByRule(matches) : m.rule = raw.rule /\ m.risk >= raw.risk
  BY <1>1, BestCovers
<1>4. BestByRule(matches) \subseteq Found
  BY BestAreMatches
<1>5. Outdone(raw, m)
  BY <1>2, <1>3, <1>4, RiskierOutdoes
<1>6. ToSet(DedupeAndRank(matches)) = Spoken(matches)
  BY <1>1, RankedList
<1>7. Spoken(matches) \subseteq BestByRule(matches)
  BY DEF Spoken
<1>. HIDE DEF raw
<1>8. CASE m \in Spoken(matches)
  BY <1>4, <1>5, <1>6, <1>8 DEF raw
<1>9. ASSUME NEW n \in Spoken(matches), m.rule \in DOMAIN SoftBase, n.rule = SoftBase[m.rule]
      PROVE  n \in Found /\ Outdone(raw, n)
  <2>1. n \in Found /\ m \in Found
    BY <1>4, <1>7
  <2>2. Outdone(m, n)
    BY <1>9, <2>1, BaseOutdoes
  <2>. QED  BY <1>2, <1>5, <2>1, <2>2, OutdoneTransitive
<1>10. CASE m.rule \in DOMAIN SoftBase /\ \E n \in Spoken(matches) : n.rule = SoftBase[m.rule]
  BY <1>6, <1>9, <1>10 DEF raw
<1>. QED  BY <1>8, <1>10, SpokenOrBase

(* The merged matches are among those found, and outdo each of them.       *)
LEMMA MergedOutdo ==
  ASSUME NEW Found, Agreed(Found),
         NEW texts \in Seq(Found), NEW structures \in Seq(Found)
  PROVE  LET merged == MergeMatches(DedupeAndRank(texts), DedupeAndRank(structures))
             found  == ToSet(texts) \cup ToSet(structures)
         IN  /\ found \subseteq Found
             /\ ToSet(merged) \subseteq found
             /\ \A m \in found : \E b \in ToSet(merged) : Outdone(m, b)
<1>. DEFINE s == DedupeAndRank(texts)
            t == DedupeAndRank(structures)
            merged == MergeMatches(s, t)
            found  == ToSet(texts) \cup ToSet(structures)
<1>1. \A n \in Found : IsMatch(n)
  BY DEF Agreed
<1>2. found \subseteq Found
  BY ElementOfSeq DEF ToSet
<1>3. s \in Seq(Found) /\ t \in Seq(Found)
  BY <1>1, RankedList
<1>4. ToSet(s) \subseteq ToSet(texts) /\ ToSet(t) \subseteq ToSet(structures)
  <2>1. ToSet(s) = Spoken(texts) /\ ToSet(t) = Spoken(structures)
    BY <1>1, RankedList
  <2>2. /\ Spoken(texts) \subseteq BestByRule(texts)
        /\ Spoken(structures) \subseteq BestByRule(structures)
    BY DEF Spoken
  <2>. QED  BY <2>1, <2>2, BestAreMatches
<1>5. ASSUME NEW m \in found PROVE \E n \in ToSet(s) \cup ToSet(t) : n \in Found /\ Outdone(m, n)
  BY RankingOutdoes DEF ToSet
<1>. HIDE DEF s, t
<1>6. /\ \A n \in ToSet(s) \cup ToSet(t) :
           \E b \in ToSet(merged) : b \in Found /\ b.rule = n.rule /\ b.risk >= n.risk
      /\ ToSet(merged) \subseteq ToSet(s) \cup ToSet(t)
  BY <1>1, <1>3, MergeCovers
<1>. HIDE DEF merged, found
<1>7. ASSUME NEW m \in found PROVE \E b \in ToSet(merged) : Outdone(m, b)
  <2>1. PICK n \in ToSet(s) \cup ToSet(t) : n \in Found /\ Outdone(m, n)
    BY <1>5
  <2>2. PICK b \in ToSet(merged) : b \in Found /\ b.rule = n.rule /\ b.risk >= n.risk
    BY <1>6
  <2>3. Outdone(n, b)
    BY <2>1, <2>2, RiskierOutdoes
  <2>. QED  BY <1>2, <2>1, <2>2, <2>3, OutdoneTransitive
<1>8. ToSet(merged) \subseteq found
  BY <1>4, <1>6 DEF found
<1>. QED  BY <1>2, <1>7, <1>8 DEF merged, found, s, t

(* The cascade is at least as strong as the vote of each match it reads.   *)
LEMMA VerdictKeepsVotes ==
  ASSUME NEW matches, NEW answer, NEW i \in DOMAIN matches
  PROVE  Rank(Verdict(matches, answer)) >= Rank(Vote(matches[i]))
<1>. DEFINE m == matches[i]
<1>1. Rank("block") = 3 /\ Rank("require_approval") = 2 /\ Rank("log_only") = 1
        /\ Rank("allow") = 0
  BY DEF Rank
<1>2. /\ m.hint = "block" /\ m.severity \in {"high", "critical"} =>
           Verdict(matches, answer) = "block"
      /\ m.hint = "require_approval" \/ m.severity = "medium" =>
           Verdict(matches, answer) \in {"block", "require_approval"}
      /\ m.hint = "log_only" \/ m.severity = "low" => Verdict(matches, answer) # "allow"
  BY Zenon DEF Verdict
<1>3. Verdict(matches, answer) \in {"block", "require_approval", "log_only", "allow"}
  BY VerdictIsDecision DEF Decisions
<1>. HIDE DEF m
<1>4. Rank(Verdict(matches, answer)) >= Rank(Vote(m))
  BY <1>1, <1>2, <1>3 DEF Vote
<1>. QED  BY <1>4 DEF m

(* And it is the policy's answer, or the vote of one of them, or allow.    *)
LEMMA VerdictIsAVote ==
  ASSUME NEW matches, NEW answer
  PROVE  \/ Verdict(matches, answer) = "allow"
         \/ answer.decision \in Decisions /\ Verdict(matches, answer) = answer.decision
         \/ \E i \in DOMAIN matches : Verdict(matches, answer) = Vote(matches[i])
<1>. DEFINE Blocks(m) == m.hint = "block" /\ m.severity \in {"high", "critical"}
            Asks(m)   == m.hint = "require_approval" \/ m.severity = "medium"
            Logs(m)   == m.hint = "log_only" \/ m.severity = "low"
<1>1. \A m : Vote(m) = IF Blocks(m) THEN "block" ELSE IF Asks(m) THEN "require_approval"
                       ELSE IF Logs(m) THEN "log_only" ELSE "allow"
  BY DEF Vote
<1>2. /\ Verdict(matches, answer) = "block" =>
           answer.decision = "block" \/ \E i \in DOMAIN matches : Blocks(matches[i])
      /\ Verdict(matches, answer) = "require_approval" =>
           /\ \A i \in DOMAIN matches : ~Blocks(matches[i])
           /\ \/ answer.decision = "require_approval"
              \/ \E i \in DOMAIN matches : Asks(matches[i])
      /\ Verdict(matches, answer) = "log_only" =>
           /\ \A i \in DOMAIN matches : ~Blocks(matches[i]) /\ ~Asks(matches[i])
           /\ answer.decision = "log_only" \/ \E i \in DOMAIN matches : Logs(matches[i])
  BY Zenon DEF Verdict
<1>3. Verdict(matches, answer) \in Decisions
  BY VerdictIsDecision
<1>. HIDE DEF Blocks, Asks, Logs
<1>. QED  BY <1>1, <1>2, <1>3 DEF Decisions

(* The risk of the evidence is the greatest of its parts'.                 *)
LEMMA EvidenceRiskIsGreatest ==
  ASSUME NEW matches, \A i \in DOMAIN matches : matches[i].risk \in 0..100, NEW answer
  PROVE  LET risks == { matches[i].risk : i \in DOMAIN matches } \cup {POLICY_RISK_MAP(answer.level)}
             risk  == EvidenceRisk(matches, answer)
         IN  risks \subseteq 0..100 /\ risk \in risks /\ \A r \in risks : risk >= r
<1>. DEFINE risks == { matches[i].risk : i \in DOMAIN matches } \cup {POLICY_RISK_MAP(answer.level)}
            gaps  == { 100 - r : r \in risks }
<1>1. POLICY_RISK_MAP(answer.level) \in 0..100
  BY DEF POLICY_RISK_MAP
<1>2. risks \subseteq 0..100 /\ risks # {}
  BY <1>1
<1>3. EvidenceRisk(matches, answer) = CHOOSE r \in risks : \A s \in risks : r >= s
  BY DEF EvidenceRisk
<1>. HIDE DEF risks
<1>4. gaps \in SUBSET Nat /\ gaps # {}
  <2>1. ASSUME NEW r \in risks PROVE 100 - r \in Nat
    BY <1>2
  <2>2. gaps # {}
    BY <1>2
  <2>. QED  BY <2>1, <2>2
<1>. HIDE DEF gaps
<1>5. PICK x \in gaps : \A y \in gaps : x <= y
  BY <1>4, Smallest
<1>6. PICK r \in risks : \A s \in risks : 100 - r <= 100 - s
  BY <1>5 DEF gaps
<1>7. \A s \in risks : r >= s
  BY <1>2, <1>6
<1>8. EvidenceRisk(matches, answer) \in risks /\ \A s \in risks : EvidenceRisk(matches, answer) >= s
  BY <1>3, <1>7
<1>. QED  BY <1>2, <1>8 DEF risks

(* So no vote is lost from the matches found to the decision.              *)
LEMMA DecisionKeepsVotes ==
  ASSUME NEW Found, Agreed(Found),
         NEW texts \in Seq(Found), NEW structures \in Seq(Found), NEW answer,
         NEW m \in ToSet(texts) \cup ToSet(structures)
  PROVE  Rank(DecisionOn(texts, structures, answer).decision) >= Rank(Vote(m))
<1>. DEFINE merged == MergeMatches(DedupeAndRank(texts), DedupeAndRank(structures))
<1>1. DecisionOn(texts, structures, answer).decision = Verdict(merged, answer)
  BY DEF DecisionOn, Decide
<1>2. PICK b \in ToSet(merged) : Outdone(m, b)
  BY MergedOutdo
<1>. HIDE DEF merged
<1>3. Rank(Verdict(merged, answer)) >= Rank(Vote(b))
  BY VerdictKeepsVotes DEF ToSet
<1>4. /\ Rank(Vote(b)) \in 0..3 /\ Rank(Vote(m)) \in 0..3
      /\ Rank(Verdict(merged, answer)) \in 0..3
  BY VoteRank, VerdictRank
<1>. QED  BY <1>1, <1>2, <1>3, <1>4 DEF Outdone

(* And what is decided on more matches is no weaker and no less risky.     *)
LEMMA DecisionGrows ==
  ASSUME NEW Found, Agreed(Found),
         NEW texts \in Seq(Found), NEW structures \in Seq(Found), NEW answer,
         NEW moreTexts \in Seq(Found), NEW moreStructures \in Seq(Found),
         ToSet(texts) \cup ToSet(structures) \subseteq ToSet(moreTexts) \cup ToSet(moreStructures)
  PROVE  LET before == DecisionOn(texts, structures, answer)
             after  == DecisionOn(moreTexts, moreStructures, answer)
         IN  Rank(after.decision) >= Rank(before.decision) /\ after.risk >= before.risk
<1>. DEFINE found  == ToSet(texts) \cup ToSet(structures)
            merged == MergeMatches(DedupeAndRank(texts), DedupeAndRank(structures))
            more   == MergeMatches(DedupeAndRank(moreTexts), DedupeAndRank(moreStructures))
            before == DecisionOn(texts, structures, answer)
            after  == DecisionOn(moreTexts, moreStructures, answer)
            old    == Verdict(merged, answer)
            new    == Verdict(more, answer)
<1>1. /\ before.decision = old /\ after.decision = new
      /\ before.risk = IF old = "allow" THEN 0 ELSE EvidenceRisk(merged, answer)
      /\ after.risk = IF new = "allow" THEN 0 ELSE EvidenceRisk(more, answer)
  BY DEF DecisionOn, Decide
<1>2. found \subseteq Found /\ ToSet(merged) \subseteq found
  BY MergedOutdo
<1>3. /\ ToSet(more) \subseteq Found
      /\ \A m \in found : \E b \in ToSet(more) : Outdone(m, b)
  BY MergedOutdo
<1>4. \A m \in found : Rank(new) >= Rank(Vote(m))
  BY <1>1, DecisionKeepsVotes
<1>. HIDE DEF found, merged, more, before, after
<1>5. old \in Decisions /\ new \in Decisions /\ Rank(old) \in 0..3 /\ Rank(new) \in 0..3
  BY VerdictIsDecision, VerdictRank
<1>6. Rank(new) >= Rank(old)
  <2>1. CASE old = "allow"
    <3>1. Rank(old) = 0
      BY <2>1 DEF Rank
    <3>. QED  BY <1>5, <3>1
  <2>2. CASE answer.decision \in Decisions /\ old = answer.decision
    BY <2>2, VerdictKeepsPolicy
  <2>3. CASE \E i \in DOMAIN merged : old = Vote(merged[i])
    <3>1. PICK i \in DOMAIN merged : old = Vote(merged[i])
      BY <2>3
    <3>2. merged[i] \in found
      BY <1>2 DEF ToSet
    <3>. QED  BY <1>4, <3>1, <3>2
  <2>. QED  BY <2>1, <2>2, <2>3, VerdictIsAVote
<1>7. \A m \in Found : m.risk \in 0..100
  BY DEF Agreed, IsMatch
<1>8. /\ \A i \in DOMAIN merged : merged[i] \in found /\ merged[i].risk \in 0..100
      /\ \A i \in DOMAIN more : more[i].risk \in 0..100
  BY <1>2, <1>3, <1>7 DEF ToSet
<1>9. EvidenceRisk(more, answer) >= EvidenceRisk(merged, answer)
  <2>. DEFINE r == EvidenceRisk(merged, answer)
              s == EvidenceRisk(more, answer)
              level == POLICY_RISK_MAP(answer.level)
  <2>1. /\ level \in 0..100 /\ r \in 0..100 /\ s \in 0..100 /\ s >= level
        /\ r = level \/ \E i \in DOMAIN merged : r = merged[i].risk
        /\ \A i \in DOMAIN more : s >= more[i].risk
    BY <1>8, EvidenceRiskIsGreatest
  <2>. HIDE DEF r, s, level
  <2>2. ASSUME NEW i \in DOMAIN merged, r = merged[i].risk PROVE s >= r
    <3>1. PICK b \in ToSet(more) : Outdone(merged[i], b)
      BY <1>3, <1>8
    <3>2. PICK k \in DOMAIN more : b = more[k]
      BY DEF ToSet
    <3>. DEFINE q == b.risk
    <3>3. s >= q /\ q >= r /\ q \in 0..100
      BY <1>8, <2>1, <2>2, <3>1, <3>2 DEF Outdone
    <3>. HIDE DEF q
    <3>. QED  BY <2>1, <3>3
  <2>3. s >= r
    BY <2>1, <2>2
  <2>. QED  BY <2>3 DEF r, s
<1>10. EvidenceRisk(more, answer) \in 0..100
  BY <1>8, EvidenceRiskIsGreatest
<1>11. after.risk >= before.risk
  <2>1. CASE old = "allow"
    <3>1. before.risk = 0 /\ after.risk \in 0..100
      BY <1>1, <1>10, <2>1
    <3>2. \A r \in 0..100 : r >= 0
      OBVIOUS
    <3>. QED  BY <3>1, <3>2
  <2>2. CASE old # "allow"
    <3>1. Rank(old) \in 1..3 /\ Rank("allow") = 0
      BY <1>5, <2>2 DEF Rank, Decisions
    <3>2. new # "allow"
      BY <1>5, <1>6, <3>1
    <3>. QED  BY <1>1, <1>9, <2>2, <3>2
  <2>. QED  BY <2>1, <2>2
<1>. QED  BY <1>1, <1>6, <1>11 DEF before, after

(* Without a policy the decision is the strongest vote there is.           *)
LEMMA StrongestVote ==
  ASSUME NEW Found, Agreed(Found), NEW texts \in Seq(Found), NEW structures \in Seq(Found)
  PROVE  LET decision == DecisionOn(texts, structures, NoPolicy).decision
             found    == ToSet(texts) \cup ToSet(structures)
         IN  /\ decision \in Decisions
             /\ \A m \in found : Rank(decision) >= Rank(Vote(m))
             /\ decision = "allow" \/ \E m \in found : decision = Vote(m)
<1>. DEFINE merged   == MergeMatches(DedupeAndRank(texts), DedupeAndRank(structures))
            decision == DecisionOn(texts, structures, NoPolicy).decision
            found    == ToSet(texts) \cup ToSet(structures)
<1>1. decision = Verdict(merged, NoPolicy)
  BY DEF DecisionOn, Decide
<1>2. \A m \in found : Rank(decision) >= Rank(Vote(m))
  BY DecisionKeepsVotes
<1>3. ToSet(merged) \subseteq found
  BY MergedOutdo
<1>. HIDE DEF merged, decision
<1>4. NoPolicy.decision \notin Decisions
  BY DEF NoPolicy, Decisions
<1>5. decision = "allow" \/ \E i \in DOMAIN merged : decision = Vote(merged[i])
  BY <1>1, <1>4, VerdictIsAVote
<1>6. decision = "allow" \/ \E m \in found : decision = Vote(m)
  BY <1>3, <1>5 DEF ToSet
<1>7. decision \in Decisions
  BY <1>1, VerdictIsDecision
<1>. QED  BY <1>2, <1>6, <1>7 DEF decision

(* So it is no weaker for evidence of which each vote is outdone.          *)
LEMMA StrongerEvidence ==
  ASSUME NEW Found, Agreed(Found), NEW texts \in Seq(Found), NEW structures \in Seq(Found),
         NEW others \in Seq(Found), NEW rest \in Seq(Found),
         \A m \in ToSet(texts) \cup ToSet(structures) :
           \E n \in ToSet(others) \cup ToSet(rest) : Rank(Vote(n)) >= Rank(Vote(m))
  PROVE  Rank(DecisionOn(others, rest, NoPolicy).decision)
           >= Rank(DecisionOn(texts, structures, NoPolicy).decision)
<1>. DEFINE weak   == DecisionOn(texts, structures, NoPolicy).decision
            strong == DecisionOn(others, rest, NoPolicy).decision
<1>1. /\ weak \in Decisions
      /\ weak = "allow" \/ \E m \in ToSet(texts) \cup ToSet(structures) : weak = Vote(m)
  BY StrongestVote
<1>2. /\ strong \in Decisions
      /\ \A n \in ToSet(others) \cup ToSet(rest) : Rank(strong) >= Rank(Vote(n))
  BY StrongestVote
<1>. HIDE DEF weak, strong
<1>3. Rank(weak) \in 0..3 /\ Rank(strong) \in 0..3 /\ Rank("allow") = 0
  BY <1>1, <1>2 DEF Rank, Decisions
<1>4. CASE weak = "allow"
  BY <1>3, <1>4 DEF weak, strong
<1>5. ASSUME NEW m \in ToSet(texts) \cup ToSet(structures), weak = Vote(m)
      PROVE  Rank(strong) >= Rank(weak)
  <2>1. PICK n \in ToSet(others) \cup ToSet(rest) : Rank(Vote(n)) >= Rank(Vote(m))
    OBVIOUS
  <2>2. Rank(strong) >= Rank(Vote(n)) /\ Rank(Vote(n)) \in 0..3 /\ Rank(Vote(m)) \in 0..3
    BY <1>2, VoteRank
  <2>. QED  BY <1>3, <1>5, <2>1, <2>2
<1>6. Rank(strong) >= Rank(weak)
  BY <1>1, <1>3, <1>5
<1>. QED  BY <1>6 DEF weak, strong
=============================================================================
