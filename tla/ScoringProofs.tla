--------------------------- MODULE ScoringProofs ---------------------------
(***************************************************************************)
(* Proofs about verdicts and the wallet graph, for any wallets, amounts,   *)
(* prices and learned scores, and any threshold from 65 to 72.             *)
(***************************************************************************)
EXTENDS Scoring, TLAPS, FiniteSetTheorems, WellFoundedInduction

Scorers == {"pipeline", "worker"}

(* No profile the program builds says that a wallet is flagged or in a
   cluster, so no score is amplified. *)
LEMMA NeverAmplified ==
  ASSUME NEW w
  PROVE  /\ ~KnownBad(Profile(w)) /\ ~InCluster(Profile(w))
         /\ ~KnownBad(NoProfile) /\ ~InCluster(NoProfile)
<1>1. ~KnownBad(NoProfile) /\ ~InCluster(NoProfile)
  BY DEF KnownBad, InCluster, NoProfile
<1>2. CASE w \in DOMAIN risk
  <2>1. Profile(w) = [risk_score |-> risk[w], cluster_id |-> {}]
    BY <1>2 DEF Profile
  <2>2. "is_flagged" \notin DOMAIN Profile(w) /\ Profile(w).cluster_id = {}
    BY <2>1
  <2> QED BY <1>1, <2>2 DEF KnownBad, InCluster
<1>3. CASE w \notin DOMAIN risk
  BY <1>1, <1>3 DEF Profile
<1> QED BY <1>2, <1>3

(* A score is a per cent, and at least what the rules demand. *)
LEMMA ScoreBounds ==
  ASSUME NEW tx \in Txs, NEW count \in Nat, NEW m,
         NEW iso \in IsoScores, NEW sup \in SupScores \cup {NoModel},
         NEW profile, ~KnownBad(profile), ~InCluster(profile)
  PROVE  /\ Score(tx, count, profile, m, iso, sup) \in 0..100
         /\ Score(tx, count, profile, m, iso, sup) >= Floor(tx, count)
<1> DEFINE blend == Blend(iso, sup)
           floor == Floor(tx, count)
           s == Evidence(tx, count, iso, sup)
<1>1. blend \in 0..100
  <2>1. iso \in 0..100
    BY NumbersAssumption
  <2>2. CASE sup = NoModel
    BY <2>1, <2>2 DEF Blend
  <2>3. CASE sup \in SupScores
    <3>1. sup \in 0..100 /\ sup # NoModel
      BY <2>3, NumbersAssumption DEF NoModel
    <3>2. (60 * iso + 40 * sup) \div 100 \in 0..100
      BY <2>1, <3>1
    <3> QED BY <3>1, <3>2 DEF Blend
  <2> QED BY <2>2, <2>3
<1>2. floor \in 0..100
  <2>1. FlashScore(tx, count) \in {0, 75, 90}
    BY DEF FlashScore
  <2> QED BY <2>1 DEF Floor, Larger
<1>3. s \in 0..100 /\ s >= floor
  BY <1>1, <1>2 DEF Evidence, Larger
<1>4. Score(tx, count, profile, m, iso, sup) \in {s, Capped(s + 15)}
  BY DEF Score, Amplified
<1>5. Capped(s + 15) \in 0..100 /\ Capped(s + 15) >= s
  BY <1>3 DEF Capped
<1> QED BY <1>2, <1>3, <1>4, <1>5

(* What RulesCannotBeOutvoted asks of one verdict. *)
Bound(v) ==
  /\ v.input = "flash" => v.flagged /\ v.type = "flash_loan" /\ v.severity = "critical"
  /\ v.value > HighValue => v.flagged /\ v.type # "none"
  /\ v.flagged => v.severity \in {"high", "critical"}

LEMMA VerdictBound ==
  ASSUME NEW tx \in Txs, NEW count \in Nat, NEW m,
         NEW iso \in IsoScores, NEW sup \in SupScores \cup {NoModel},
         NEW profile, ~KnownBad(profile), ~InCluster(profile)
  PROVE  LET v == Verdict(tx, count, profile, m, iso, sup)
         IN  /\ Bound(v)
             /\ v.score \in 0..100 /\ v.flagged \in BOOLEAN
             /\ v.by = "pipeline" /\ v.from = tx.from
<1> DEFINE v == Verdict(tx, count, profile, m, iso, sup)
           s == Score(tx, count, profile, m, iso, sup)
           t == IF s >= Threshold THEN FraudType(tx, count) ELSE "none"
           g == IF s >= Threshold THEN Severity(s) ELSE "none"
<1>1. s \in 0..100 /\ s >= Floor(tx, count)
  BY ScoreBounds
<1>2. /\ v.by = "pipeline" /\ v.from = tx.from /\ v.input = tx.input /\ v.value = tx.value
      /\ v.score = s /\ v.flagged = (s >= Threshold) /\ v.type = t /\ v.severity = g
  BY DEF Verdict
<1> HIDE DEF v, s
<1>3. Threshold \in 65..72 /\ Threshold \in Nat /\ tx.value \in Nat
  <2>1. tx.value \in Values
    BY DEF Txs
  <2>2. Threshold \in 65..72 /\ Values \subseteq Nat
    BY NumbersAssumption
  <2>3. \A n \in 65..72 : n \in Nat
    OBVIOUS
  <2>4. Threshold \in Nat
    BY <2>2, <2>3
  <2>5. tx.value \in Nat
    BY <2>1, <2>2
  <2> QED BY <2>2, <2>4, <2>5
<1>4. ASSUME tx.input = "flash" PROVE s >= 90 /\ t = "flash_loan" /\ g = "critical"
  <2>1. FlashScore(tx, count) = 90
    BY <1>4 DEF FlashScore
  <2>2. s >= 90
    BY <2>1, <1>1 DEF Floor, Larger
  <2>3. s >= Threshold /\ s >= 85
    BY <2>2, <1>1, <1>3
  <2> QED BY <2>1, <2>2, <2>3 DEF FraudType, Severity
<1>5. ASSUME tx.value > HighValue PROVE s >= Threshold /\ t # "none"
  <2>1. FlashScore(tx, count) \in {0, 75, 90}
    BY DEF FlashScore
  <2>2. s >= 72
    BY <2>1, <1>1, <1>5 DEF Floor, Larger
  <2>3. s >= Threshold
    BY <2>2, <1>1, <1>3
  <2> QED BY <2>3, <1>5 DEF FraudType
<1>6. ASSUME s >= Threshold PROVE g \in {"high", "critical"}
  <2>1. s >= 65
    BY <1>1, <1>3, <1>6
  <2> QED BY <2>1, <1>6 DEF Severity
<1>7. s >= 90 => s >= Threshold
  BY <1>1, <1>3
<1>8. Bound(v)
  BY <1>2, <1>4, <1>5, <1>6, <1>7 DEF Bound
<1> QED BY <1>1, <1>2, <1>8 DEF v

(* The types that a step relies on. *)
ScoringType ==
  /\ inBlock \in [Blocks -> Nat]
  /\ \E S \in SUBSET Wallets : risk \in [S -> 0..100]

(* The graph after a transaction, as Process computes it. *)
NewGraph(old, tx, s, flag) ==
  IF flag THEN Flagged(Linked(old, tx, s), tx.from) ELSE Linked(old, tx, s)

(* What a transaction may do to the graph. *)
Worsened(old, new, from, flag) ==
  /\ \E T \in SUBSET Wallets : new \in [T -> 0..100]
  /\ \A w \in DOMAIN old : w \in DOMAIN new /\ new[w] >= old[w]
  /\ flag /\ from \in DOMAIN new => new[from] = 100

(* The graph keeps its nodes and never improves one; the sender of a flagged
   transaction is at 100 if the graph has it. *)
LEMMA GraphStep ==
  ASSUME NEW S \in SUBSET Wallets, NEW old \in [S -> 0..100],
         NEW tx \in Txs, NEW s \in 0..100, NEW flag \in BOOLEAN
  PROVE  Worsened(old, NewGraph(old, tx, s, flag), tx.from, flag)
<1> DEFINE nodes == Linked(old, tx, s)
           new == NewGraph(old, tx, s, flag)
<1>1. PICK T \in SUBSET Wallets : /\ nodes \in [T -> 0..100]
                                  /\ S \subseteq T
                                  /\ \A w \in S : nodes[w] >= old[w]
  <2>1. CASE tx.to = NoWallet \/ tx.value < EdgeMin
    BY <2>1 DEF Linked
  <2>2. CASE ~(tx.to = NoWallet \/ tx.value < EdgeMin)
    <3> DEFINE T == S \cup {tx.from, tx.to}
               was(w) == IF w \in S THEN old[w] ELSE 0
    <3>1. T \in SUBSET Wallets
      BY <2>2 DEF Txs
    <3>2. nodes = [w \in T |-> IF w = tx.from THEN Larger(was(w), s) ELSE was(w)]
      BY <2>2 DEF Linked
    <3>3. \A w : was(w) \in 0..100
      OBVIOUS
    <3>4. \A w : Larger(was(w), s) \in 0..100 /\ Larger(was(w), s) >= was(w)
      <4> HIDE DEF was
      <4> QED BY <3>3 DEF Larger
    <3>5. \A w \in T : nodes[w] \in 0..100 /\ nodes[w] >= was(w)
      <4> HIDE DEF was, nodes
      <4> QED BY <3>2, <3>3, <3>4
    <3>6. nodes \in [T -> 0..100] /\ \A w \in S : nodes[w] >= old[w]
      <4>1. nodes \in [T -> 0..100]
        BY <3>2, <3>5
      <4>2. \A w \in S : was(w) = old[w] /\ w \in T
        OBVIOUS
      <4> HIDE DEF was, nodes, T
      <4> QED BY <4>1, <4>2, <3>5
    <3> QED BY <3>1, <3>6
  <2> QED BY <2>1, <2>2
<1> HIDE DEF nodes
<1>2. DOMAIN old = S /\ DOMAIN nodes = T
  BY <1>1
<1>3. CASE flag
  <2>1. new = [v \in T |-> IF v = tx.from THEN 100 ELSE nodes[v]]
    BY <1>2, <1>3 DEF Flagged, NewGraph, nodes
  <2>2. new \in [T -> 0..100]
    BY <1>1, <2>1
  <2>3. \A w \in S : w \in T /\ new[w] >= old[w]
    BY <1>1, <2>1
  <2>4. tx.from \in T => new[tx.from] = 100
    BY <2>1
  <2> QED BY <1>1, <1>2, <2>1, <2>2, <2>3, <2>4 DEF Worsened
<1>4. CASE ~flag
  <2>1. new = nodes
    BY <1>4 DEF NewGraph, nodes
  <2> QED BY <1>1, <1>2, <1>4, <2>1 DEF Worsened
<1> QED BY <1>3, <1>4

(* One transaction in the pipeline: its verdict is bound by the rules, and the
   graph changes as GraphStep says. *)
LEMMA PipelineStep ==
  ASSUME ScoringType,
         NEW tx \in Txs, NEW iso \in IsoScores, NEW sup \in SupScores \cup {NoModel},
         Process(tx, iso, sup)
  PROVE  /\ ScoringType'
         /\ Bound(last')
         /\ \A w \in DOMAIN risk : w \in DOMAIN risk' /\ risk'[w] >= risk[w]
         /\ last'.flagged /\ last'.from \in DOMAIN risk' => risk'[last'.from] = 100
<1> DEFINE count == inBlock[tx.block] + 1
<1>1. PICK m : /\ last' = Verdict(tx, count, Profile(tx.from), m, iso, sup)
               /\ risk' = IF last'.flagged
                          THEN Flagged(Linked(risk, tx, last'.score), tx.from)
                          ELSE Linked(risk, tx, last'.score)
               /\ inBlock' = [inBlock EXCEPT ![tx.block] = count]
  BY DEF Process
<1>2. tx.block \in Blocks /\ inBlock \in [Blocks -> Nat]
  BY DEF Txs, ScoringType
<1>3. count \in Nat /\ inBlock' \in [Blocks -> Nat]
  BY <1>1, <1>2
<1>4. ~KnownBad(Profile(tx.from)) /\ ~InCluster(Profile(tx.from))
  BY NeverAmplified
<1> HIDE DEF count
<1>5. /\ Bound(last')
      /\ last'.score \in 0..100 /\ last'.flagged \in BOOLEAN /\ last'.from = tx.from
  BY <1>1, <1>3, <1>4, VerdictBound
<1>6. PICK S \in SUBSET Wallets : risk \in [S -> 0..100]
  BY DEF ScoringType
<1>7. /\ \E T \in SUBSET Wallets : risk' \in [T -> 0..100]
      /\ \A w \in DOMAIN risk : w \in DOMAIN risk' /\ risk'[w] >= risk[w]
      /\ last'.flagged /\ tx.from \in DOMAIN risk' => risk'[tx.from] = 100
  <2>1. PICK s \in 0..100, flag \in BOOLEAN : s = last'.score /\ flag = last'.flagged
    BY <1>5
  <2>2. risk' = NewGraph(risk, tx, s, flag)
    BY <1>1, <2>1 DEF NewGraph
  <2>3. Worsened(risk, NewGraph(risk, tx, s, flag), tx.from, flag)
    BY <1>6, GraphStep
  <2> QED BY <2>1, <2>2, <2>3 DEF Worsened
<1> QED BY <1>3, <1>5, <1>7 DEF ScoringType

LEMMA TypeStep == ScoringType /\ [Next]_vars => ScoringType'
<1> SUFFICES ASSUME ScoringType, [Next]_vars PROVE ScoringType'
  OBVIOUS
<1>1. CASE UNCHANGED vars
  BY <1>1 DEF ScoringType, vars
<1>2. CASE HandOver \/ WorkerRaises
  BY <1>2 DEF ScoringType, HandOver, WorkerRaises
<1>3. ASSUME NEW tx \in Txs, NEW iso \in IsoScores, NEW sup \in SupScores \cup {NoModel},
             WorkerScores(tx, iso, sup)
      PROVE  ScoringType'
  BY <1>3 DEF ScoringType, WorkerScores
<1>4. ASSUME NEW tx \in Txs, NEW iso \in IsoScores, NEW sup \in SupScores \cup {NoModel},
             Process(tx, iso, sup)
      PROVE  ScoringType'
  BY <1>4, PipelineStep
<1> QED BY <1>1, <1>2, <1>3, <1>4 DEF Next

LEMMA TypeInit == Init => ScoringType
<1>1. Init => inBlock \in [Blocks -> Nat] /\ risk \in [{} -> 0..100]
  BY DEF Init
<1> QED BY <1>1 DEF ScoringType

(* Neither the learned models nor gas prices talk the rules down in the
   pipeline (RulesCannotBeOutvoted): its verdict is bound when it is given, and
   stays so until it is handed over. *)
THEOREM RulesHold == Spec => []RulesCannotBeOutvoted
<1> DEFINE Inv == ScoringType /\ (last.by = "pipeline" => Bound(last))
<1>1. Init => Inv
  BY TypeInit DEF Init, NoVerdict
<1>2. Inv /\ [Next]_vars => Inv'
  <2> SUFFICES ASSUME Inv, [Next]_vars PROVE (last.by = "pipeline" => Bound(last))'
    BY TypeStep
  <2>1. CASE UNCHANGED vars
    BY <2>1 DEF vars, Bound
  <2>2. CASE HandOver
    BY <2>2 DEF HandOver, NoVerdict
  <2>3. CASE WorkerRaises
    BY <2>3 DEF WorkerRaises, Bound
  <2>4. ASSUME NEW tx \in Txs, NEW iso \in IsoScores, NEW sup \in SupScores \cup {NoModel},
               WorkerScores(tx, iso, sup)
        PROVE  last'.by = "worker"
    BY <2>4 DEF WorkerScores
  <2>5. ASSUME NEW tx \in Txs, NEW iso \in IsoScores, NEW sup \in SupScores \cup {NoModel},
               Process(tx, iso, sup)
        PROVE  Bound(last')
    BY <2>5, PipelineStep
  <2> QED BY <2>1, <2>2, <2>3, <2>4, <2>5 DEF Next
<1>3. Inv => RulesCannotBeOutvoted
  BY DEF Bound, RulesCannotBeOutvoted
<1> HIDE DEF Inv
<1> QED BY <1>1, <1>2, <1>3, PTL DEF Spec

(* A wallet's record in the graph only gets worse, for any sequence of
   transactions among any wallets. *)
THEOREM RecordWorsens == Spec => RecordOnlyWorsens
<1> DEFINE Worse ==
      /\ \A w \in DOMAIN risk : w \in DOMAIN risk' /\ risk'[w] >= risk[w]
      /\ last' # NoVerdict /\ last'.by = "pipeline" /\ last'.flagged
           /\ last'.from \in DOMAIN risk' => risk'[last'.from] = 100
<1>1. ScoringType /\ [Next]_vars => [Worse]_vars
  <2> SUFFICES ASSUME ScoringType, Next PROVE Worse
    OBVIOUS
  <2>1. PICK S \in SUBSET Wallets : risk \in [S -> 0..100]
    BY DEF ScoringType
  <2>2. \A w \in DOMAIN risk : risk[w] \in Nat
    BY <2>1
  <2>3. CASE HandOver \/ WorkerRaises
    BY <2>2, <2>3 DEF HandOver, WorkerRaises
  <2>4. ASSUME NEW tx \in Txs, NEW iso \in IsoScores, NEW sup \in SupScores \cup {NoModel},
               WorkerScores(tx, iso, sup)
        PROVE  Worse
    <3>1. last'.by = "worker" /\ risk' = risk
      BY <2>4 DEF WorkerScores
    <3> QED BY <2>2, <3>1
  <2>5. ASSUME NEW tx \in Txs, NEW iso \in IsoScores, NEW sup \in SupScores \cup {NoModel},
               Process(tx, iso, sup)
        PROVE  Worse
    BY <2>5, PipelineStep
  <2> QED BY <2>3, <2>4, <2>5 DEF Next
<1>2. Spec => []ScoringType
  BY TypeInit, TypeStep, PTL DEF Spec
<1>3. Spec => [][Worse]_vars
  BY <1>1, <1>2, PTL DEF Spec
<1> QED BY <1>3 DEF RecordOnlyWorsens

(***************************************************************************)
(* Gas spikes.  The median is between the two halves of the prices: few    *)
(* are below it, more than half are not above it.                          *)
(***************************************************************************)
Less == {p \in Nat \X Nat : p[1] < p[2]}

LEMMA Smallest ==
  ASSUME NEW S \in SUBSET Nat, S # {}
  PROVE  \E x \in S : \A y \in S : x <= y
<1>1. OpToRel(<, Nat) = Less
  BY Zenon DEF OpToRel, Less
<1>2. IsWellFoundedOn(Less, Nat)
  BY <1>1, NatLessThanWellFounded, Zenon
<1>3. PICK x \in S : \A y \in S : <<y, x>> \notin Less
  BY <1>2, WFMin
<1>4. ASSUME NEW y \in S, y < x PROVE FALSE
  <2>1. <<y, x>> \in Less
    BY <1>4 DEF Less
  <2> QED BY <1>3, <2>1
<1>5. \A y \in S : x <= y
  BY <1>4
<1> QED BY <1>5

(* The places of a sequence with some property, counted. *)
LEMMA Counted ==
  ASSUME NEW q \in Seq(Nat), NEW S \in SUBSET (DOMAIN q), NEW T \in SUBSET (DOMAIN q)
  PROVE  /\ IsFiniteSet(S) /\ Cardinality(S) \in Nat
         /\ Cardinality(S) <= Len(q)
         /\ S \subseteq T => Cardinality(S) <= Cardinality(T)
         /\ S \subseteq T /\ Cardinality(T) <= Cardinality(S) => S = T
         /\ S = {} <=> Cardinality(S) = 0
<1>1. DOMAIN q = 1..Len(q) /\ Len(q) \in Nat
  OBVIOUS
<1> DEFINE n == Len(q)
<1>2. n \in Nat /\ S \in SUBSET (1..n) /\ T \in SUBSET (1..n)
  BY <1>1
<1> HIDE DEF n
<1>3. 1 \in Int /\ n \in Int
  BY <1>2
<1>4. IsFiniteSet(1..n) /\ Cardinality(1..n) = IF 1 > n THEN 0 ELSE n - 1 + 1
  BY <1>3, FS_Interval
<1>5. Cardinality(1..n) = n
  BY <1>2, <1>4
<1>6. /\ IsFiniteSet(S) /\ Cardinality(S) <= n
      /\ IsFiniteSet(T) /\ Cardinality(T) <= n
  BY <1>2, <1>4, <1>5, FS_Subset
<1>7. Cardinality(S) \in Nat /\ Cardinality(T) \in Nat
  BY <1>6, FS_CardinalityType
<1>8. S \subseteq T => Cardinality(S) <= Cardinality(T)
  BY <1>6, FS_Subset
<1>9. ASSUME S \subseteq T, Cardinality(T) <= Cardinality(S) PROVE S = T
  <2>1. Cardinality(T) = Cardinality(S)
    BY <1>7, <1>8, <1>9
  <2> QED BY <1>6, <1>9, <2>1, FS_Subset
<1>10. S = {} <=> Cardinality(S) = 0
  BY <1>6, FS_EmptySet
<1> QED BY <1>6, <1>7, <1>8, <1>9, <1>10 DEF n

Below(q, m) == {i \in DOMAIN q : q[i] < m}

LEMMA RankFacts ==
  ASSUME NEW q \in Seq(Nat), NEW m \in Nat, NEW k \in Nat, m <= k
  PROVE  /\ Rank(q, m) = Cardinality(Below(q, m))
         /\ Rank(q, m) \in 0..Len(q) /\ Rank(q, m) <= Rank(q, k)
         /\ Rank(q, k) <= Rank(q, m) => Below(q, m) = Below(q, k)
<1>1. \A j : Rank(q, j) = Cardinality(Below(q, j)) /\ Below(q, j) \in SUBSET (DOMAIN q)
  BY DEF Rank, Below
<1>2. Below(q, m) \subseteq Below(q, k)
  <2>1. ASSUME NEW i \in DOMAIN q, q[i] < m PROVE q[i] < k
    BY <2>1
  <2> QED BY <2>1 DEF Below
<1>3. /\ Cardinality(Below(q, m)) \in Nat /\ Cardinality(Below(q, m)) <= Len(q)
      /\ Cardinality(Below(q, m)) <= Cardinality(Below(q, k))
      /\ Cardinality(Below(q, k)) <= Cardinality(Below(q, m)) => Below(q, m) = Below(q, k)
  BY <1>1, <1>2, Counted
<1>4. Len(q) \in Nat
  OBVIOUS
<1> QED BY <1>1, <1>3, <1>4

LEMMA RankRange ==
  ASSUME NEW q \in Seq(Nat), NEW m \in Nat
  PROVE  Rank(q, m) \in 0..Len(q)
<1>1. m <= m
  OBVIOUS
<1> QED BY <1>1, RankFacts

(* Some number lies above all prices. *)
LEMMA AllBelow ==
  ASSUME NEW q \in Seq(Nat), q # <<>>
  PROVE  \E m \in Nat : Rank(q, m + 1) = Len(q)
<1> DEFINE n == Len(q)
           D == {n - Rank(q, q[i] + 1) : i \in DOMAIN q}
<1>1. /\ n \in Nat \ {0} /\ DOMAIN q = 1..n /\ \A i \in DOMAIN q : q[i] \in Nat
  OBVIOUS
<1> HIDE DEF n
<1>2. \A i \in DOMAIN q : Rank(q, q[i] + 1) \in 0..n
  <2> TAKE i \in DOMAIN q
  <2>1. q[i] + 1 \in Nat
    BY <1>1
  <2> QED BY <2>1, RankRange DEF n
<1>3. D \in SUBSET Nat /\ D # {}
  BY <1>1, <1>2
<1>4. PICK d \in D : \A e \in D : d <= e
  BY <1>3, Smallest
<1>5. PICK i \in DOMAIN q : d = n - Rank(q, q[i] + 1)
  BY <1>4
<1>6. ASSUME NEW j \in DOMAIN q, ~(q[j] < q[i] + 1) PROVE FALSE
  <2>1. q[i] + 1 \in Nat /\ q[j] + 1 \in Nat /\ q[i] + 1 <= q[j] + 1 /\ q[j] < q[j] + 1
    BY <1>1, <1>6
  <2>2. Rank(q, q[j] + 1) <= Rank(q, q[i] + 1)
    <3> DEFINE x == Rank(q, q[i] + 1)
               y == Rank(q, q[j] + 1)
    <3>1. n - x <= n - y
      BY <1>4, <1>5
    <3>2. x \in 0..n /\ y \in 0..n
      BY <1>2
    <3> HIDE DEF D, x, y
    <3>3. y <= x
      BY <1>1, <3>1, <3>2
    <3> QED BY <3>3 DEF x, y
  <2>3. Below(q, q[i] + 1) = Below(q, q[j] + 1)
    BY <2>1, <2>2, RankFacts
  <2> QED BY <1>6, <2>1, <2>3 DEF Below
<1>7. Below(q, q[i] + 1) = 1..n
  BY <1>1, <1>6 DEF Below
<1>8. Rank(q, q[i] + 1) = n
  <2>1. 1 \in Int /\ n \in Int
    BY <1>1
  <2>2. Cardinality(1..n) = IF 1 > n THEN 0 ELSE n - 1 + 1
    BY <2>1, FS_Interval
  <2>3. Cardinality(1..n) = n
    BY <1>1, <2>2
  <2>4. Rank(q, q[i] + 1) = Cardinality(Below(q, q[i] + 1))
    BY DEF Rank, Below
  <2> QED BY <1>7, <2>3, <2>4
<1> QED BY <1>1, <1>8 DEF n

LEMMA MedianIsMiddle ==
  ASSUME NEW q \in Seq(Nat), q # <<>>
  PROVE  /\ Median(q) \in Nat
         /\ Rank(q, Median(q)) <= Len(q) \div 2
         /\ Rank(q, Median(q) + 1) > Len(q) \div 2
<1> DEFINE n == Len(q)
           S == {m \in Nat : Rank(q, m + 1) > n \div 2}
<1>1. n \in Nat \ {0} /\ \A i \in DOMAIN q : q[i] \in Nat
  OBVIOUS
<1>2. S \in SUBSET Nat /\ S # {}
  <2>1. PICK m \in Nat : Rank(q, m + 1) = n
    BY AllBelow
  <2>2. n > n \div 2
    BY <1>1
  <2> QED BY <2>1, <2>2
<1>3. PICK m \in S : \A k \in S : m <= k
  BY <1>2, Smallest
<1> HIDE DEF n
<1>4. Rank(q, m) <= n \div 2
  <2>1. CASE m = 0
    <3>1. Below(q, 0) = {}
      <4>1. \A i \in DOMAIN q : ~(q[i] < 0)
        BY <1>1
      <4> QED BY <4>1 DEF Below
    <3>2. Rank(q, 0) = 0
      BY <3>1, FS_EmptySet DEF Rank, Below
    <3> QED BY <1>1, <2>1, <3>2
  <2>2. CASE m # 0
    <3>1. m - 1 \in Nat /\ (m - 1) + 1 = m /\ m \in Nat /\ ~(m <= m - 1)
      BY <2>2
    <3>2. m - 1 \notin S
      BY <1>3, <3>1
    <3>3. ~(Rank(q, m) > n \div 2)
      BY <3>1, <3>2
    <3>4. Rank(q, m) \in 0..n
      BY <3>1, RankRange DEF n
    <3> QED BY <1>1, <3>3, <3>4
  <2> QED BY <2>1, <2>2
<1>5. m \in Nat /\ Rank(q, m + 1) > n \div 2
  OBVIOUS
<1>6. m \in Range(q)
  <2>1. Rank(q, m) \in 0..n /\ Rank(q, m + 1) \in 0..n
    <3>1. m + 1 \in Nat
      BY <1>5
    <3> QED BY <1>5, <3>1, RankRange DEF n
  <2>2. Below(q, m) # Below(q, m + 1)
    <3>1. Rank(q, m) # Rank(q, m + 1)
      BY <1>1, <1>4, <1>5, <2>1
    <3> QED BY <3>1 DEF Rank, Below
  <2>3. PICK i \in DOMAIN q : ~(q[i] < m <=> q[i] < m + 1)
    BY <2>2 DEF Below
  <2>4. q[i] = m
    BY <1>1, <1>5, <2>3
  <2> QED BY <2>4 DEF Range
<1>7. \E x \in Range(q) : Rank(q, x) <= n \div 2 /\ Rank(q, x + 1) > n \div 2
  BY <1>4, <1>5, <1>6
<1>8. /\ Median(q) \in Range(q)
      /\ Rank(q, Median(q)) <= n \div 2 /\ Rank(q, Median(q) + 1) > n \div 2
  BY <1>7 DEF Median, n
<1>9. Median(q) \in Nat
  BY <1>1, <1>8 DEF Range
<1> QED BY <1>8, <1>9 DEF n

(* More than half of the prices are below a fifth of p just when a fifth of p
   is above the median. *)
Cheap(q, p) == {i \in DOMAIN q : q[i] * 5 < p}

LEMMA SpikeOverMedian ==
  ASSUME NEW q \in Seq(Nat), q # <<>>, NEW p \in Nat
  PROVE  p > Median(q) * 5 <=> 2 * Cardinality(Cheap(q, p)) > Len(q)
<1> DEFINE m == Median(q)
           n == Len(q)
           c == Cardinality(Cheap(q, p))
<1>1. m \in Nat /\ Rank(q, m) <= n \div 2 /\ Rank(q, m + 1) > n \div 2
  BY MedianIsMiddle
<1>2. n \in Nat /\ \A i \in DOMAIN q : q[i] \in Nat
  OBVIOUS
<1>3. c \in Nat
  BY Counted DEF Cheap
<1> HIDE DEF m
<1>4. m + 1 \in Nat
  BY <1>1
<1>5. Rank(q, m) \in 0..n /\ Rank(q, m + 1) \in 0..n
  BY <1>1, <1>4, RankRange
<1>6. ASSUME p > m * 5 PROVE 2 * c > n
  <2>1. \A i \in DOMAIN q : q[i] < m + 1 => q[i] * 5 < p
    BY <1>1, <1>2, <1>6
  <2>2. Below(q, m + 1) \subseteq Cheap(q, p)
    BY <2>1 DEF Below, Cheap
  <2>3. Cardinality(Below(q, m + 1)) <= c
    BY <2>2, Counted DEF Below, Cheap
  <2>4. Rank(q, m + 1) <= c
    BY <2>3 DEF Rank, Below
  <2> HIDE DEF c, n
  <2> QED BY <1>1, <1>2, <1>3, <1>5, <2>4
<1>7. ASSUME ~(p > m * 5) PROVE ~(2 * c > n)
  <2>1. \A i \in DOMAIN q : q[i] * 5 < p => q[i] < m
    BY <1>1, <1>2, <1>7
  <2>2. Cheap(q, p) \subseteq Below(q, m)
    BY <2>1 DEF Below, Cheap
  <2>3. c <= Cardinality(Below(q, m))
    BY <2>2, Counted DEF Below, Cheap
  <2>4. c <= Rank(q, m)
    BY <2>3 DEF Rank, Below
  <2> HIDE DEF c, n
  <2> QED BY <1>1, <1>2, <1>3, <1>5, <2>4
<1> QED BY <1>6, <1>7 DEF m

(* Both detectors remember a median; the pipeline's is that of its window,
   unless that is zero. *)
SpikeInv ==
  /\ window \in Seq(Nat)
  /\ median \in [Scorers -> Nat]
  /\ last.by = "worker" => ~last.spike
  /\ last.by = "pipeline" =>
       /\ window # <<>>
       /\ last.spike = (median.pipeline > 0 /\ Last(window) > median.pipeline * 5)
       /\ Median(window) > 0 => median.pipeline = Median(window)

LEMMA SpikeInvSuffices == SpikeInv => SpikeIsMajority
<1> SUFFICES ASSUME SpikeInv PROVE SpikeIsMajority
  OBVIOUS
<1>1. CASE last.by # "pipeline"
  BY <1>1 DEF SpikeInv, SpikeIsMajority
<1>2. CASE last.by = "pipeline"
  <2> DEFINE p == Last(window)
             m == Median(window)
             old == median.pipeline
  <2>1. window \in Seq(Nat) /\ window # <<>> /\ old \in Nat
    BY <1>2 DEF SpikeInv, Scorers
  <2>2. p \in Nat
    BY <2>1 DEF Last
  <2>3. m \in Nat
    BY <2>1, MedianIsMiddle
  <2>4. Majority <=> 2 * Cardinality(Cheap(window, p)) > Len(window)
    BY DEF Majority, Cheap
  <2>5. Majority <=> p > m * 5
    BY <2>1, <2>2, <2>4, SpikeOverMedian
  <2>6. last.spike = (old > 0 /\ p > old * 5) /\ (m > 0 => old = m)
    BY <1>2 DEF SpikeInv
  <2> HIDE DEF p, m, old
  <2>7. old > 0 /\ p > old * 5 => p > m * 5
    BY <2>1, <2>2, <2>3, <2>6
  <2>8. p > m * 5 /\ m > 0 => old > 0 /\ p > old * 5
    BY <2>6
  <2> QED BY <1>2, <2>5, <2>6, <2>7, <2>8 DEF SpikeIsMajority, m
<1> QED BY <1>1, <1>2

(* The window always ends with the price just seen. *)
LEMMA WindowEnds ==
  ASSUME NEW q \in Seq(Nat), NEW p \in Nat
  PROVE  LET all == Append(q, p)
             w == IF Len(all) > GasWindow THEN Tail(all) ELSE all
         IN  w \in Seq(Nat) /\ w # <<>> /\ Last(w) = p
<1> DEFINE all == Append(q, p)
<1>1. all \in Seq(Nat) /\ Len(all) = Len(q) + 1 /\ all[Len(q) + 1] = p /\ Len(q) \in Nat
  OBVIOUS
<1> HIDE DEF all
<1>2. CASE Len(all) > GasWindow
  <2>1. Len(q) >= 1
    BY <1>1, <1>2, NumbersAssumption
  <2>2. /\ Tail(all) \in Seq(Nat) /\ Len(Tail(all)) = Len(q)
        /\ \A i \in 1..Len(q) : Tail(all)[i] = all[i + 1]
    BY <1>1
  <2>3. Tail(all)[Len(q)] = p
    BY <1>1, <2>1, <2>2
  <2> QED BY <1>2, <2>1, <2>2, <2>3 DEF Last, all
<1>3. CASE ~(Len(all) > GasWindow)
  BY <1>1, <1>3 DEF Last, all
<1> QED BY <1>2, <1>3

LEMMA SpikeStep == SpikeInv /\ [Next]_vars => SpikeInv'
<1> SUFFICES ASSUME SpikeInv, [Next]_vars PROVE SpikeInv'
  OBVIOUS
<1>0. window \in Seq(Nat) /\ median \in [Scorers -> Nat]
  BY DEF SpikeInv
<1>1. CASE UNCHANGED vars
  BY <1>1 DEF SpikeInv, vars
<1>2. CASE HandOver \/ WorkerRaises
  BY <1>0, <1>2 DEF HandOver, WorkerRaises, SpikeInv, NoVerdict
<1>3. ASSUME NEW tx \in Txs, NEW iso \in IsoScores, NEW sup \in SupScores \cup {NoModel},
             WorkerScores(tx, iso, sup)
      PROVE  SpikeInv'
  <2> DEFINE m == Updated(median.worker, Adapted(tx).price)
  <2>1. /\ median' = [median EXCEPT !.worker = m] /\ window' = window
        /\ last'.by = "worker" /\ last'.spike = Spike(Adapted(tx), m)
    BY <1>3 DEF WorkerScores
  <2>2. Adapted(tx).price = 0
    BY DEF Adapted, Txs
  <2>3. m \in Nat
    BY <1>0, <2>2 DEF Updated, Scorers
  <2> HIDE DEF m
  <2>4. ~Spike(Adapted(tx), m)
    BY <2>2, <2>3 DEF Spike
  <2>5. median' \in [Scorers -> Nat]
    BY <1>0, <2>1, <2>3 DEF Scorers
  <2> QED BY <1>0, <2>1, <2>4, <2>5 DEF SpikeInv
<1>4. ASSUME NEW tx \in Txs, NEW iso \in IsoScores, NEW sup \in SupScores \cup {NoModel},
             Process(tx, iso, sup)
      PROVE  SpikeInv'
  <2> DEFINE all == Append(window, tx.price)
             w == IF Len(all) > GasWindow THEN Tail(all) ELSE all
             m == Updated(median.pipeline, Median(w))
             count == inBlock[tx.block] + 1
             v == Verdict(tx, count, Profile(tx.from), m, iso, sup)
  <2>1. median' = [median EXCEPT !.pipeline = m] /\ window' = w /\ last' = v
    BY <1>4 DEF Process
  <2>2. tx.price \in Nat
    BY NumbersAssumption DEF Txs
  <2>3. w \in Seq(Nat) /\ w # <<>> /\ Last(w) = tx.price
    BY <1>0, <2>2, WindowEnds
  <2> HIDE DEF w
  <2>4. Median(w) \in Nat
    BY <2>3, MedianIsMiddle
  <2>5. m \in Nat /\ (Median(w) > 0 => m = Median(w))
    BY <1>0, <2>4 DEF Updated, Scorers
  <2> HIDE DEF m
  <2>6. median' \in [Scorers -> Nat] /\ median'.pipeline = m
    BY <1>0, <2>1, <2>5 DEF Scorers
  <2>7. last'.by = "pipeline" /\ last'.spike = (m > 0 /\ tx.price > m * 5)
    BY <2>1 DEF Verdict, Spike
  <2> QED BY <2>1, <2>3, <2>5, <2>6, <2>7 DEF SpikeInv
<1> QED BY <1>1, <1>2, <1>3, <1>4 DEF Next

(***************************************************************************)
(* A gas spike is signalled just when more than half of the recent prices  *)
(* are below a fifth of the last one, whatever the prices and however many *)
(* the window holds.                                                       *)
(***************************************************************************)
THEOREM SpikesMeanMajorities == Spec => []SpikeIsMajority
<1>1. Init => SpikeInv
  BY DEF Init, SpikeInv, NoVerdict, Scorers
<1> QED BY <1>1, SpikeStep, SpikeInvSuffices, PTL DEF Spec
=============================================================================
