---------------------------- MODULE RetrainProofs ----------------------------
(***************************************************************************)
(* What retraining guarantees for any analysts, transactions, threshold    *)
(* and numbers of requests and failures: a used label was trained on, and  *)
(* labels become used only with the version that accounts for them.        *)
(***************************************************************************)
EXTENDS Retrain, FiniteSetTheorems, TLAPS

Hashes == {r.tx : r \in feedback}
PendingHashes == {r.tx : r \in Pending}
UsedHashes == {r.tx : r \in feedback \ Pending}

Versions == [version : Nat, labels_used : {Cardinality(D) : D \in SUBSET Row}, processed : Nat]

TrainerType == [pc : {"asleep", "counted", "fetched", "saved", "versioned"},
                pending : Nat, data : SUBSET Row, version : Nat]

(* Types, and one row per hash. *)
TableInv ==
  /\ feedback \subseteq Row
  /\ \A r, s \in feedback : r.tx = s.tx => r = s
  /\ IsFiniteSet(Hashes)
  /\ requests \in [Analysts -> SUBSET Request]
  /\ trainer \in TrainerType

(* Versions are numbered from one, and what the trainer counted is still
   pending. *)
VersionInv ==
  /\ versions \in Seq(Versions)
  /\ \A i \in 1..Len(versions) : versions[i].version = i
  /\ At("versioned") => trainer.version = Len(versions) + 1
  /\ ~At("asleep") => trainer.pending <= Cardinality(PendingHashes)

(* What the trainer read is what the table has, but for touched labels. *)
LearnInv ==
  /\ At("fetched") => \A r \in feedback : r.tx \notin touched => r \in trainer.data
  /\ At("saved") \/ At("versioned") =>
       \A r \in feedback : r.tx \notin touched /\ r.features => r \in trainer.data
  /\ UsedMeansTrained

LEMMA TableInit == Init => TableInv /\ VersionInv /\ LearnInv
<1> SUFFICES ASSUME Init PROVE TableInv /\ VersionInv /\ LearnInv
  OBVIOUS
<1>1. Hashes = {}
  BY DEF Init, Hashes
<1>2. TableInv
  BY <1>1, FS_EmptySet DEF Init, TableInv, Asleep, TrainerType
<1>3. VersionInv
  BY DEF Init, VersionInv, Asleep, At
<1>4. LearnInv
  BY DEF Init, LearnInv, Asleep, At, UsedMeansTrained
<1> QED BY <1>2, <1>3, <1>4

(* Pending rows and their hashes are equally many. *)
LEMMA PendingCount ==
  ASSUME TableInv
  PROVE  /\ IsFiniteSet(PendingHashes)
         /\ Cardinality(PendingHashes) \in Nat
         /\ Cardinality(Pending) \in Nat
         /\ Cardinality(Pending) <= Cardinality(PendingHashes)
<1>1. PendingHashes \subseteq Hashes
  BY DEF PendingHashes, Pending, Hashes
<1>2. IsFiniteSet(PendingHashes)
  BY <1>1, FS_Subset DEF TableInv
<1> DEFINE f == [r \in Pending |-> r.tx]
<1>3. f \in Injection(Pending, PendingHashes)
  BY DEF TableInv, Pending, PendingHashes, Injection, IsInjective
<1>4. IsFiniteSet(Pending) /\ Cardinality(Pending) <= Cardinality(PendingHashes)
  BY <1>2, <1>3, FS_Injection
<1> QED BY <1>2, <1>4, FS_CardinalityType

(* What a label request does to the table: no hash gets a second row, no label
   becomes used or pending again, and what changed is remembered. *)
LEMMA SaveEffect ==
  ASSUME TableInv, NEW a \in Analysts, Save(a)
  PROVE  /\ TableInv'
         /\ UsedHashes' = UsedHashes
         /\ PendingHashes \subseteq PendingHashes'
         /\ \A r \in feedback' : r \in feedback \/ (r.tx \in touched' /\ r.tx \in late')
         /\ touched \subseteq touched' /\ late \subseteq late'
         /\ UNCHANGED <<trainer, versions, learned>>
<1>1. PICK q \in requests[a] :
        /\ \/ /\ q.seen = {}
              /\ Unique(q.tx)
              /\ Store({}, {[tx |-> q.tx, label |-> q.label, features |-> q.features, used |-> FALSE]})
           \/ /\ q.seen # {}
              /\ Store(RowsOf(q.tx), {Relabelled(r, q) : r \in RowsOf(q.tx)})
        /\ requests' = [requests EXCEPT ![a] = {}]
        /\ UNCHANGED <<enough, trainer, versions, asked, trouble, learned>>
  BY DEF Save
<1>2. q \in Request /\ requests' \in [Analysts -> SUBSET Request]
  BY <1>1 DEF TableInv
<1>3. /\ \A r \in feedback' : r \in feedback \/ (r.tx \in touched' /\ r.tx \in late')
      /\ touched \subseteq touched' /\ late \subseteq late'
  BY <1>1 DEF Store
<1>4. feedback \subseteq Row /\ \A r, s \in feedback : r.tx = s.tx => r = s
  BY DEF TableInv
<1>5. CASE q.seen = {}
  <2> DEFINE new == [tx |-> q.tx, label |-> q.label, features |-> q.features, used |-> FALSE]
  <2>1. feedback' = feedback \cup {new} /\ \A r \in feedback : r.tx # q.tx
    BY <1>1, <1>5 DEF Store, Unique, RowsOf
  <2>2. new \in Row /\ new.tx = q.tx /\ ~new.used
    BY <1>2 DEF Row, Request
  <2> HIDE DEF new
  <2>3. Hashes' = Hashes \cup {q.tx}
    BY <2>1, <2>2 DEF Hashes
  <2>4. IsFiniteSet(Hashes')
    BY <2>3, FS_AddElement DEF TableInv
  <2>5. feedback' \subseteq Row /\ \A r, s \in feedback' : r.tx = s.tx => r = s
    BY <1>4, <2>1, <2>2
  <2>6. Pending' = Pending \cup {new} /\ feedback' \ Pending' = feedback \ Pending
    BY <2>1, <2>2 DEF Pending
  <2>7. UsedHashes' = UsedHashes /\ PendingHashes \subseteq PendingHashes'
    BY <2>6 DEF UsedHashes, PendingHashes
  <2> QED BY <1>1, <1>2, <1>3, <2>4, <2>5, <2>7 DEF TableInv
<1>6. CASE q.seen # {}
  <2>1. feedback' = (feedback \ RowsOf(q.tx)) \cup {Relabelled(r, q) : r \in RowsOf(q.tx)}
    BY <1>1, <1>6 DEF Store
  <2>2. ASSUME NEW r \in feedback
        PROVE  /\ Relabelled(r, q) \in Row
               /\ Relabelled(r, q).tx = r.tx /\ Relabelled(r, q).used = r.used
    <3>1. r \in Row
      BY <1>4
    <3> QED BY <3>1, <1>2 DEF Relabelled, Row, Request
  <2>3. RowsOf(q.tx) \subseteq feedback
    BY DEF RowsOf
  <2>4. \A r \in feedback' : \E s \in feedback : s.tx = r.tx /\ s.used = r.used
    BY <2>1, <2>2, <2>3
  <2>5. \A s \in feedback : \E r \in feedback' : s.tx = r.tx /\ s.used = r.used
    BY <2>1, <2>2, <2>3
  <2>6. Hashes' = Hashes
    BY <2>4, <2>5 DEF Hashes
  <2>7. UsedHashes' = UsedHashes
    BY <2>4, <2>5 DEF UsedHashes, Pending
  <2>8. PendingHashes' = PendingHashes
    BY <2>4, <2>5 DEF PendingHashes, Pending
  <2>9. feedback' \subseteq Row
    BY <1>4, <2>1, <2>2, <2>3
  <2>10. ASSUME NEW r \in feedback', NEW s \in feedback', r.tx = s.tx
         PROVE  r = s
    <3>1. CASE r.tx = q.tx
      <4>1. /\ \E x \in RowsOf(q.tx) : r = Relabelled(x, q)
            /\ \E y \in RowsOf(q.tx) : s = Relabelled(y, q)
        BY <2>1, <2>10, <3>1 DEF RowsOf
      <4>2. \A x, y \in RowsOf(q.tx) : x = y
        BY <1>4 DEF RowsOf
      <4> QED BY <4>1, <4>2
    <3>2. CASE r.tx # q.tx
      <4>1. r \in feedback /\ s \in feedback
        BY <2>1, <2>2, <2>10, <3>2 DEF RowsOf
      <4> QED BY <4>1, <1>4, <2>10
    <3> QED BY <3>1, <3>2
  <2> QED BY <1>1, <1>2, <1>3, <2>6, <2>7, <2>8, <2>9, <2>10 DEF TableInv
<1> QED BY <1>5, <1>6

(* What recording a version does: every hash becomes used, and no fewer of them
   than the trainer had counted. *)
LEMMA RecordEffect ==
  ASSUME TableInv, VersionInv, Record
  PROVE  /\ TableInv'
         /\ UsedHashes \subseteq UsedHashes'
         /\ trainer.pending <= Cardinality(UsedHashes' \ UsedHashes)
         /\ versions' = Append(versions, [version |-> Len(versions) + 1,
                                          labels_used |-> Cardinality(trainer.data),
                                          processed |-> trainer.pending])
<1>1. /\ feedback' = {[r EXCEPT !.used = TRUE] : r \in feedback}
      /\ trainer' = Asleep /\ requests' = requests /\ At("versioned")
  BY DEF Record
<1>2. feedback \subseteq Row /\ \A r, s \in feedback : r.tx = s.tx => r = s
  BY DEF TableInv
<1> DEFINE use(r) == [r EXCEPT !.used = TRUE]
<1>3. \A r \in feedback : use(r) \in Row /\ use(r).tx = r.tx /\ use(r).used
  BY <1>2 DEF Row
<1>a. feedback' = {use(r) : r \in feedback}
  BY <1>1
<1> HIDE DEF use
<1>4. Hashes' = Hashes /\ UsedHashes' = Hashes
  <2>1. \A u \in feedback' : u.used /\ \E r \in feedback : u.tx = r.tx
    BY <1>a, <1>3
  <2>2. \A r \in feedback : \E u \in feedback' : u.tx = r.tx
    BY <1>a, <1>3
  <2>3. Pending' = {}
    BY <2>1 DEF Pending
  <2>4. Hashes' = Hashes
    BY <2>1, <2>2 DEF Hashes
  <2>5. UsedHashes' = Hashes'
    BY <2>3 DEF UsedHashes, Hashes
  <2> QED BY <2>4, <2>5
<1>5. ASSUME NEW u \in feedback', NEW v \in feedback', u.tx = v.tx
      PROVE  u = v
  <2>1. PICK r \in feedback : u = use(r)
    BY <1>a
  <2>2. PICK s \in feedback : v = use(s)
    BY <1>a
  <2>3. r.tx = s.tx
    BY <2>1, <2>2, <1>3, <1>5
  <2> QED BY <2>1, <2>2, <2>3, <1>2
<1>6. feedback' \subseteq Row /\ trainer' \in TrainerType
  BY <1>1, <1>a, <1>3 DEF Asleep, TrainerType
<1>7. TableInv'
  BY <1>1, <1>4, <1>5, <1>6 DEF TableInv
<1>8. PendingHashes \subseteq Hashes \ UsedHashes
  BY <1>2 DEF PendingHashes, Hashes, UsedHashes, Pending
<1>9. IsFiniteSet(Hashes \ UsedHashes)
  BY FS_Difference DEF TableInv
<1>10. Cardinality(PendingHashes) <= Cardinality(Hashes \ UsedHashes)
  BY <1>8, <1>9, FS_Subset
<1>11. trainer.pending <= Cardinality(PendingHashes) /\ trainer.version = Len(versions) + 1
  BY <1>1 DEF VersionInv, At
<1>12. Cardinality(Hashes \ UsedHashes) \in Nat /\ trainer.pending \in Nat
  BY <1>9, FS_CardinalityType DEF TableInv, TrainerType
<1>13. trainer.pending <= Cardinality(UsedHashes' \ UsedHashes)
  BY <1>4, <1>10, <1>11, <1>12, PendingCount
<1>14. UsedHashes \subseteq UsedHashes'
  BY <1>4 DEF UsedHashes, Hashes
<1> QED BY <1>7, <1>11, <1>13, <1>14 DEF Record

(* Steps that leave the table alone. *)
LEMMA TableSame ==
  ASSUME feedback' = feedback
  PROVE  Hashes' = Hashes /\ PendingHashes' = PendingHashes /\ UsedHashes' = UsedHashes
BY DEF Hashes, PendingHashes, UsedHashes, Pending

LEMMA TableStep ==
  ASSUME TableInv, VersionInv, [Next]_vars
  PROVE  TableInv'
<1>1. ASSUME NEW a \in Analysts, Save(a)
      PROVE  TableInv'
  BY <1>1, SaveEffect
<1>2. CASE Record
  BY <1>2, RecordEffect
<1>3. ASSUME NEW a \in Analysts, LookUp(a)
      PROVE  TableInv'
  <2>1. feedback' = feedback /\ trainer' = trainer
    BY <1>3 DEF LookUp
  <2>2. PICK t \in Txs, l \in Labels, f \in BOOLEAN :
          requests' = [requests EXCEPT ![a] =
            {[tx |-> t, label |-> l, features |-> f, seen |-> {r.label : r \in RowsOf(t)}]}]
    BY <1>3 DEF LookUp
  <2>3. {r.label : r \in RowsOf(t)} \subseteq Labels
    BY DEF TableInv, Row, RowsOf
  <2>4. [tx |-> t, label |-> l, features |-> f, seen |-> {r.label : r \in RowsOf(t)}] \in Request
    BY <2>3 DEF Request
  <2>5. requests' \in [Analysts -> SUBSET Request]
    BY <2>2, <2>4 DEF TableInv
  <2> QED BY <2>1, <2>5, TableSame DEF TableInv
<1>4. ASSUME NEW a \in Analysts, RequestFails(a)
      PROVE  TableInv'
  <2>1. feedback' = feedback /\ trainer' = trainer /\ requests' \in [Analysts -> SUBSET Request]
    BY <1>4 DEF RequestFails, TableInv
  <2> QED BY <2>1, TableSame DEF TableInv
<1>5. CASE CountPending
  <2>1. /\ feedback' = feedback /\ requests' = requests
        /\ trainer' = [trainer EXCEPT !.pc = "counted", !.pending = Cardinality(Pending)]
    BY <1>5 DEF CountPending
  <2>2. trainer' \in TrainerType
    BY <2>1, PendingCount DEF TableInv, TrainerType
  <2> QED BY <2>1, <2>2, TableSame DEF TableInv
<1>6. CASE FetchFeedback \/ TooFewRows \/ FitAndSave \/ Fail
  <2>1. feedback' = feedback /\ requests' = requests
    BY <1>6 DEF FetchFeedback, TooFewRows, FitAndSave, Fail
  <2>2. trainer \in TrainerType /\ feedback \subseteq Row /\ Labelled(trainer.data) \subseteq Row
    BY DEF TableInv, TrainerType, Labelled
  <2>3. ASSUME FetchFeedback PROVE trainer' \in TrainerType
    BY <2>2, <2>3 DEF FetchFeedback, TrainerType
  <2>4. ASSUME FitAndSave PROVE trainer' \in TrainerType
    BY <2>2, <2>4 DEF FitAndSave, TrainerType
  <2>5. ASSUME TooFewRows \/ Fail PROVE trainer' \in TrainerType
    BY <2>5 DEF TooFewRows, Fail, Asleep, TrainerType
  <2>6. trainer' \in TrainerType
    BY <1>6, <2>3, <2>4, <2>5
  <2> QED BY <2>1, <2>6, TableSame DEF TableInv
<1>7. CASE ReadVersion
  <2>1. /\ feedback' = feedback /\ requests' = requests
        /\ trainer' = [trainer EXCEPT !.pc = "versioned", !.version = LastVersion + 1]
    BY <1>7 DEF ReadVersion
  <2>2. LastVersion \in Nat
    BY DEF LastVersion, VersionInv, Versions
  <2>3. trainer \in TrainerType /\ LastVersion + 1 \in Nat
    BY <2>2 DEF TableInv
  <2>4. trainer' \in TrainerType
    BY <2>1, <2>3 DEF TrainerType
  <2> QED BY <2>1, <2>4, TableSame DEF TableInv
<1>8. CASE TransactionsArrive \/ UNCHANGED vars
  <2>1. feedback' = feedback /\ requests' = requests /\ trainer' = trainer
    BY <1>8 DEF TransactionsArrive, vars
  <2> QED BY <2>1, TableSame DEF TableInv
<1> QED BY <1>1, <1>2, <1>3, <1>4, <1>5, <1>6, <1>7, <1>8 DEF Next, Train

LEMMA VersionStep ==
  ASSUME TableInv, VersionInv, [Next]_vars
  PROVE  VersionInv'
<1>1. ASSUME NEW a \in Analysts, Save(a)
      PROVE  VersionInv'
  <2>1. /\ PendingHashes \subseteq PendingHashes' /\ TableInv'
        /\ trainer' = trainer /\ versions' = versions
    BY <1>1, SaveEffect
  <2>2. /\ Cardinality(PendingHashes) <= Cardinality(PendingHashes)'
        /\ Cardinality(PendingHashes) \in Nat /\ Cardinality(PendingHashes)' \in Nat
    <3>1. IsFiniteSet(PendingHashes')
      <4>1. PendingHashes' \subseteq Hashes' /\ IsFiniteSet(Hashes')
        BY <2>1 DEF PendingHashes, Pending, Hashes, TableInv
      <4> QED BY <4>1, FS_Subset
    <3>2. /\ Cardinality(PendingHashes') \in Nat
          /\ Cardinality(PendingHashes) <= Cardinality(PendingHashes')
      BY <2>1, <3>1, FS_Subset, FS_CardinalityType
    <3> QED BY <3>2, PendingCount
  <2>3. trainer.pending \in Nat
    BY DEF TableInv, TrainerType
  <2> QED BY <2>1, <2>2, <2>3 DEF VersionInv, At
<1>2. CASE Record
  <2>1. /\ trainer' = Asleep
        /\ versions' = Append(versions, [version |-> Len(versions) + 1,
                                         labels_used |-> Cardinality(trainer.data),
                                         processed |-> trainer.pending])
    BY <1>2, RecordEffect DEF Record
  <2> DEFINE v == [version |-> Len(versions) + 1, labels_used |-> Cardinality(trainer.data),
                   processed |-> trainer.pending]
  <2>2. v \in Versions /\ v.version = Len(versions) + 1
    BY DEF Versions, TableInv, TrainerType, VersionInv
  <2> HIDE DEF v
  <2>3. versions' = Append(versions, v)
    BY <2>1 DEF v
  <2>4. /\ versions' \in Seq(Versions) /\ Len(versions') = Len(versions) + 1
        /\ Len(versions) \in Nat
        /\ \A i \in 1..Len(versions) : versions'[i] = versions[i]
        /\ versions'[Len(versions) + 1] = v
    BY <2>2, <2>3 DEF VersionInv
  <2>5. \A i \in 1..Len(versions') : versions'[i].version = i
    BY <2>2, <2>4 DEF VersionInv
  <2> QED BY <2>1, <2>4, <2>5 DEF VersionInv, Asleep, At
<1>3. CASE CountPending
  <2>1. /\ trainer' = [trainer EXCEPT !.pc = "counted", !.pending = Cardinality(Pending)]
        /\ versions' = versions /\ feedback' = feedback
    BY <1>3 DEF CountPending
  <2>2. trainer'.pc = "counted" /\ trainer'.pending = Cardinality(Pending)
    BY <2>1 DEF TableInv, TrainerType
  <2>3. trainer'.pending <= Cardinality(PendingHashes')
    BY <2>1, <2>2, TableSame, PendingCount
  <2> QED BY <2>1, <2>2, <2>3 DEF VersionInv, At
<1>4. CASE FetchFeedback \/ FitAndSave
  <2>1. /\ trainer.pc # "asleep" /\ trainer'.pc \in {"fetched", "saved"}
        /\ trainer'.pending = trainer.pending
        /\ versions' = versions /\ feedback' = feedback
    BY <1>4 DEF FetchFeedback, FitAndSave, At, TableInv, TrainerType
  <2> QED BY <2>1, TableSame DEF VersionInv, At
<1>5. CASE TooFewRows \/ Fail
  <2>1. trainer' = Asleep /\ versions' = versions
    BY <1>5 DEF TooFewRows, Fail
  <2> QED BY <2>1 DEF VersionInv, Asleep, At
<1>6. CASE ReadVersion
  <2>1. /\ trainer.pc = "saved" /\ versions' = versions /\ feedback' = feedback
        /\ trainer' = [trainer EXCEPT !.pc = "versioned", !.version = LastVersion + 1]
    BY <1>6 DEF ReadVersion, At
  <2>2. LastVersion = Len(versions)
    BY DEF LastVersion, VersionInv
  <2>3. /\ trainer'.pc = "versioned" /\ trainer'.pending = trainer.pending
        /\ trainer'.version = LastVersion + 1
    BY <2>1 DEF TableInv, TrainerType
  <2> QED BY <2>1, <2>2, <2>3, TableSame DEF VersionInv, At
<1>7. ASSUME \/ \E a \in Analysts : LookUp(a) \/ RequestFails(a)
             \/ TransactionsArrive
             \/ UNCHANGED vars
      PROVE  VersionInv'
  <2>1. feedback' = feedback /\ trainer' = trainer /\ versions' = versions
    BY <1>7 DEF LookUp, RequestFails, TransactionsArrive, vars
  <2> QED BY <2>1, TableSame DEF VersionInv, At
<1> QED BY <1>1, <1>2, <1>3, <1>4, <1>5, <1>6, <1>7 DEF Next, Train
LEMMA LearnStep ==
  ASSUME TableInv, VersionInv, LearnInv, [Next]_vars
  PROVE  LearnInv'
<1> USE DEF LearnInv, At
<1>1. ASSUME NEW a \in Analysts, Save(a)
      PROVE  LearnInv'
  BY <1>1, SaveEffect DEF UsedMeansTrained
<1>2. CASE Record
  <2>1. /\ trainer.pc = "versioned" /\ trainer' = Asleep
        /\ learned' = trainer.data /\ late' = touched
        /\ feedback' = {[r EXCEPT !.used = TRUE] : r \in feedback}
    BY <1>2 DEF Record
  <2>2. ASSUME NEW u \in feedback', u.used, u.features, u.tx \notin late'
        PROVE  \E d \in learned' : d.tx = u.tx /\ d.label = u.label
    <3>1. PICK r \in feedback : u = [r EXCEPT !.used = TRUE]
      BY <2>1
    <3>2. u.tx = r.tx /\ u.label = r.label /\ u.features = r.features
      BY <3>1 DEF TableInv, Row
    <3>3. r \in trainer.data
      BY <2>1, <2>2, <3>2
    <3> QED BY <2>1, <3>2, <3>3
  <2>3. UsedMeansTrained'
    BY <2>2 DEF UsedMeansTrained
  <2> QED BY <2>1, <2>3 DEF Asleep
<1>3. CASE FetchFeedback
  <2>1. /\ trainer' = [trainer EXCEPT !.pc = "fetched", !.data = feedback]
        /\ UNCHANGED <<feedback, late, learned>>
    BY <1>3 DEF FetchFeedback
  <2>2. trainer'.pc = "fetched" /\ trainer'.data = feedback
    BY <2>1 DEF TableInv, TrainerType
  <2> QED BY <2>1, <2>2 DEF UsedMeansTrained
<1>4. CASE FitAndSave
  <2>1. /\ trainer' = [trainer EXCEPT !.pc = "saved", !.data = Labelled(trainer.data)]
        /\ trainer.pc = "fetched"
        /\ UNCHANGED <<feedback, late, learned, touched>>
    BY <1>4 DEF FitAndSave, history
  <2>2. trainer'.pc = "saved" /\ trainer'.data = Labelled(trainer.data)
    BY <2>1 DEF TableInv, TrainerType
  <2>3. \A r \in feedback : r.tx \notin touched /\ r.features => r \in trainer'.data
    BY <2>1, <2>2 DEF Labelled
  <2> QED BY <2>1, <2>2, <2>3 DEF UsedMeansTrained
<1>5. CASE ReadVersion
  <2>1. /\ trainer' = [trainer EXCEPT !.pc = "versioned", !.version = LastVersion + 1]
        /\ trainer.pc = "saved"
        /\ UNCHANGED <<feedback, late, learned, touched>>
    BY <1>5 DEF ReadVersion, history
  <2>2. trainer'.pc = "versioned" /\ trainer'.data = trainer.data
    BY <2>1 DEF TableInv, TrainerType
  <2> QED BY <2>1, <2>2 DEF UsedMeansTrained
<1>6. CASE CountPending \/ TooFewRows \/ Fail
  <2>1. UNCHANGED <<feedback, late, learned>>
    BY <1>6 DEF CountPending, TooFewRows, Fail, history
  <2>2. CountPending => trainer'.pc = "counted"
    BY DEF CountPending, TableInv, TrainerType
  <2>3. TooFewRows \/ Fail => trainer'.pc = "asleep"
    BY DEF TooFewRows, Fail, Asleep
  <2>4. trainer'.pc \in {"asleep", "counted"}
    BY <1>6, <2>2, <2>3
  <2> QED BY <2>1, <2>4 DEF UsedMeansTrained
<1>7. ASSUME \/ \E a \in Analysts : LookUp(a) \/ RequestFails(a)
             \/ TransactionsArrive
             \/ UNCHANGED vars
      PROVE  LearnInv'
  <2>1. UNCHANGED <<feedback, trainer, history>>
    BY <1>7 DEF LookUp, RequestFails, TransactionsArrive, history, vars
  <2> QED BY <2>1 DEF UsedMeansTrained, history
<1> QED BY <1>1, <1>2, <1>3, <1>4, <1>5, <1>6, <1>7 DEF Next, Train

(***************************************************************************)
(* A used label was trained on by the last recorded version with the value *)
(* it has, unless it changed after it was read or has no features.         *)
(***************************************************************************)
THEOREM UsedIsTrained == Spec => []UsedMeansTrained
<1>1. TableInv /\ VersionInv /\ LearnInv /\ [Next]_vars
        => TableInv' /\ VersionInv' /\ LearnInv'
  BY TableStep, VersionStep, LearnStep
<1>2. LearnInv => UsedMeansTrained
  BY DEF LearnInv
<1> QED BY <1>1, <1>2, TableInit, PTL DEF Spec

(* The action of MarkedWithVersion. *)
Marking ==
  LET used == {r.tx : r \in feedback \ Pending}
      marked == used' \ used
  IN  /\ used \subseteq used'
      /\ used # used' \/ versions # versions' =>
           /\ versions' = Append(versions, versions'[Len(versions')])
           /\ versions'[Len(versions')].version = Len(versions) + 1
           /\ versions'[Len(versions')].processed <= Cardinality(marked)

LEMMA MarkingStep ==
  ASSUME TableInv, VersionInv, [Next]_vars
  PROVE  Marking
<1>1. CASE Record
  <2> DEFINE v == [version |-> Len(versions) + 1, labels_used |-> Cardinality(trainer.data),
                   processed |-> trainer.pending]
  <2>1. /\ UsedHashes \subseteq UsedHashes'
        /\ v.processed <= Cardinality(UsedHashes' \ UsedHashes)
        /\ versions' = Append(versions, v)
    BY <1>1, RecordEffect
  <2>2. v.version = Len(versions) + 1 /\ v \in Versions
    BY DEF Versions, TableInv, TrainerType, VersionInv
  <2> HIDE DEF v
  <2>3. versions'[Len(versions')] = v
    BY <2>1, <2>2 DEF VersionInv
  <2> QED BY <2>1, <2>2, <2>3 DEF Marking, UsedHashes
<1>2. ASSUME UsedHashes' = UsedHashes, versions' = versions
      PROVE  Marking
  BY <1>2 DEF Marking, UsedHashes
<1>3. ASSUME NEW a \in Analysts, Save(a)
      PROVE  Marking
  BY <1>2, <1>3, SaveEffect
<1>4. ASSUME \/ \E a \in Analysts : LookUp(a) \/ RequestFails(a)
             \/ CountPending \/ FetchFeedback \/ TooFewRows \/ FitAndSave \/ ReadVersion
             \/ Fail \/ TransactionsArrive \/ UNCHANGED vars
      PROVE  Marking
  <2>1. feedback' = feedback /\ versions' = versions
    BY <1>4 DEF LookUp, RequestFails, CountPending, FetchFeedback, TooFewRows, FitAndSave,
                ReadVersion, Fail, TransactionsArrive, vars
  <2> QED BY <1>2, <2>1, TableSame
<1> QED BY <1>1, <1>3, <1>4 DEF Next, Train

(***************************************************************************)
(* Labels become used only in the step that records a version with the     *)
(* next number, which claims no more pending labels than it marks.         *)
(***************************************************************************)
THEOREM MarkedTogether == Spec => MarkedWithVersion
<1>1. TableInv /\ VersionInv /\ [Next]_vars => TableInv' /\ VersionInv'
  BY TableStep, VersionStep
<1>2. TableInv /\ VersionInv /\ [Next]_vars => [Marking]_vars
  BY MarkingStep
<1>3. [Marking]_vars => [ LET used == {r.tx : r \in feedback \ Pending}
                              marked == used' \ used
                          IN  /\ used \subseteq used'
                              /\ used # used' \/ versions # versions' =>
                                   /\ versions' = Append(versions, versions'[Len(versions')])
                                   /\ versions'[Len(versions')].version = Len(versions) + 1
                                   /\ versions'[Len(versions')].processed <= Cardinality(marked) ]_vars
  BY DEF Marking
<1> QED BY <1>1, <1>2, <1>3, TableInit, PTL DEF Spec, MarkedWithVersion

(* An analyst waits for one request at most, and a trainer that sleeps has
   forgotten what it read. *)
AtMostOne(S) == S = {} \/ \E q \in S : S = {q}

RoundInv ==
  /\ \A a \in Analysts : AtMostOne(requests[a])
  /\ At("asleep") => trainer = Asleep
  /\ enough \in BOOLEAN /\ asked \in 0..MaxRequests /\ trouble \in 0..MaxTrouble

LEMMA RoundInit == Init => RoundInv
<1> SUFFICES ASSUME Init PROVE RoundInv
  OBVIOUS
<1>1. \A a \in Analysts : AtMostOne(requests[a])
  BY DEF Init, AtMostOne
<1>2. trainer = Asleep /\ enough = FALSE /\ asked = 0 /\ trouble = 0
  BY DEF Init
<1>3. 0 \in 0..MaxRequests /\ 0 \in 0..MaxTrouble
  BY BoundsAssumption
<1> QED BY <1>1, <1>2, <1>3 DEF RoundInv

LEMMA RoundStep ==
  ASSUME TableInv, RoundInv, [Next]_vars
  PROVE  RoundInv'
<1>1. /\ requests \in [Analysts -> SUBSET Request] /\ trainer \in TrainerType
      /\ MaxRequests \in Nat /\ MaxTrouble \in Nat
  BY BoundsAssumption DEF TableInv
<1>2. ASSUME NEW a \in Analysts, NEW S, AtMostOne(S), requests' = [requests EXCEPT ![a] = S]
      PROVE  \A b \in Analysts : AtMostOne(requests'[b])
  <2>1. \A b \in Analysts : requests'[b] = IF b = a THEN S ELSE requests[b]
    BY <1>1, <1>2
  <2> QED BY <1>2, <2>1 DEF RoundInv
<1>3. ASSUME NEW a \in Analysts, LookUp(a)
      PROVE  RoundInv'
  <2>1. /\ asked' = asked + 1 /\ asked < MaxRequests /\ UNCHANGED <<enough, trainer, trouble>>
        /\ \E q : requests' = [requests EXCEPT ![a] = {q}]
    BY <1>3 DEF LookUp
  <2>2. PICK q : requests' = [requests EXCEPT ![a] = {q}]
    BY <2>1
  <2>3. AtMostOne({q})
    BY DEF AtMostOne
  <2>4. \A b \in Analysts : AtMostOne(requests'[b])
    BY <1>2, <2>2, <2>3
  <2>5. asked' \in 0..MaxRequests
    BY <1>1, <2>1 DEF RoundInv
  <2> QED BY <2>1, <2>4, <2>5 DEF RoundInv, At
<1>4. ASSUME NEW a \in Analysts, Save(a) \/ RequestFails(a)
      PROVE  RoundInv'
  <2>1. /\ UNCHANGED <<enough, trainer, asked, trouble>>
        /\ requests' = [requests EXCEPT ![a] = {}]
    BY <1>4 DEF Save, RequestFails
  <2>2. AtMostOne({})
    BY DEF AtMostOne
  <2>3. \A b \in Analysts : AtMostOne(requests'[b])
    BY <1>2, <2>1, <2>2
  <2> QED BY <2>1, <2>3 DEF RoundInv, At
<1>5. CASE CountPending \/ FetchFeedback \/ FitAndSave \/ ReadVersion
  <2>1. /\ UNCHANGED <<requests, enough, asked, trouble>>
        /\ trainer'.pc \in {"counted", "fetched", "saved", "versioned"}
    BY <1>1, <1>5 DEF CountPending, FetchFeedback, FitAndSave, ReadVersion, TrainerType
  <2> QED BY <2>1 DEF RoundInv, At
<1>6. CASE TooFewRows \/ Record \/ Fail
  <2>1. UNCHANGED <<requests, enough, asked>> /\ trainer' = Asleep /\ trouble' \in 0..MaxTrouble
    BY <1>1, <1>6 DEF TooFewRows, Record, Fail, RoundInv
  <2> QED BY <2>1 DEF RoundInv
<1>7. CASE TransactionsArrive \/ UNCHANGED vars
  <2>1. UNCHANGED <<requests, trainer, asked, trouble>> /\ enough' \in BOOLEAN
    BY <1>7 DEF TransactionsArrive, vars, RoundInv
  <2> QED BY <2>1 DEF RoundInv, At
<1> QED BY <1>3, <1>4, <1>5, <1>6, <1>7 DEF Next, Train

(***************************************************************************)
(* Types: one row per hash however many requests found none, and a trainer *)
(* that sleeps, after whatever failure, starts over from nothing.          *)
(***************************************************************************)
THEOREM RetrainTypes == Spec => []TypeOK
<1>1. TableInv /\ RoundInv => TypeOK
  <2> SUFFICES ASSUME TableInv, RoundInv PROVE TypeOK
    OBVIOUS
  <2>1. /\ trainer.pc \in {"asleep", "counted", "fetched", "saved", "versioned"}
        /\ trainer.data \subseteq Row
    BY DEF TableInv, TrainerType
  <2>2. At("asleep") <=> trainer = Asleep
    BY DEF RoundInv, At, Asleep
  <2>3. ASSUME NEW a \in Analysts
        PROVE  requests[a] \subseteq Request /\ Cardinality(requests[a]) <= 1
    <3>1. requests[a] \subseteq Request /\ AtMostOne(requests[a])
      BY DEF TableInv, RoundInv
    <3>2. CASE requests[a] = {}
      BY <3>1, <3>2, FS_EmptySet
    <3>3. ASSUME NEW q, requests[a] = {q} PROVE Cardinality(requests[a]) = 1
      BY <3>3, FS_Singleton
    <3> QED BY <3>1, <3>2, <3>3 DEF AtMostOne
  <2> QED BY <2>1, <2>2, <2>3 DEF TableInv, RoundInv, TypeOK
<1>2. TableInv /\ VersionInv /\ RoundInv /\ [Next]_vars => TableInv' /\ VersionInv' /\ RoundInv'
  BY TableStep, VersionStep, RoundStep
<1> QED BY <1>1, <1>2, TableInit, RoundInit, PTL DEF Spec
=============================================================================
