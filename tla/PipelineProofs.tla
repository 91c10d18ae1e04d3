--------------------------- MODULE PipelineProofs ---------------------------
(***************************************************************************)
(* Proofs about the live pipeline, for any number of processes, any        *)
(* transactions and alert ids, any retry bound and any buffer size.        *)
(***************************************************************************)
EXTENDS Pipeline, SequenceTheorems, TLAPS

(* appendleft keeps a deque's elements in their type, puts the new one first,
   and lets the length grow up to the maxlen only. *)
LEMMA PushProperties ==
  ASSUME NEW S, NEW buf \in Seq(S), NEW x \in S, NEW max \in Nat \ {0}
  PROVE  /\ Push(buf, x, max) \in Seq(S)
         /\ Len(Push(buf, x, max)) = IF Len(buf) < max THEN Len(buf) + 1 ELSE max
         /\ Head(Push(buf, x, max)) = x
<1> DEFINE whole == <<x>> \o buf
           n == IF Len(buf) < max THEN Len(buf) + 1 ELSE max
<1>1. /\ <<x>> \in Seq(S)
      /\ Len(<<x>>) = 1
      /\ <<x>>[1] = x
  OBVIOUS
<1>2. /\ whole \in Seq(S)
      /\ Len(whole) = Len(buf) + 1
      /\ whole[1] = x
  BY <1>1, ConcatProperties
<1>3. Len(buf) \in Nat
  BY LenProperties
<1>4. /\ n \in 1..Len(whole)
      /\ n \in Nat
  BY <1>2, <1>3
<1>5. /\ SubSeq(whole, 1, n) \in Seq(S)
      /\ Len(SubSeq(whole, 1, n)) = n
      /\ SubSeq(whole, 1, n)[1] = x
  <2> HIDE DEF whole, n
  <2>1. /\ SubSeq(whole, 1, n) \in Seq(S)
        /\ Len(SubSeq(whole, 1, n)) = IF 1 <= n THEN n - 1 + 1 ELSE 0
        /\ \A i \in 1 .. n - 1 + 1 : SubSeq(whole, 1, n)[i] = whole[1 + i - 1]
    BY <1>2, <1>4, SubSeqProperties
  <2> QED BY <2>1, <1>2, <1>4
<1>6. Head(SubSeq(whole, 1, n)) = SubSeq(whole, 1, n)[1]
  BY <1>4, <1>5, HeadTailProperties
<1> QED BY <1>5, <1>6 DEF Push

LEMMA PushStaysShort ==
  ASSUME NEW S, NEW buf \in Seq(S), NEW x \in S, NEW max \in Nat \ {0}
  PROVE  Len(Push(buf, x, max)) <= max
<1>1. Len(Push(buf, x, max)) = IF Len(buf) < max THEN Len(buf) + 1 ELSE max
  BY PushProperties
<1>2. Len(buf) \in Nat
  BY LenProperties
<1> QED BY <1>1, <1>2

(* The types, the deques' bounds and the retry bound hold in every reachable
   state (TypeOK). *)
THEOREM TypeCorrect == Spec => []TypeOK
<1> USE WorkerAssumption, WorkerTxsAssumption, NoneAssumption, RetriesAssumption,
        BufferAssumption, InputsAssumption
<1>1. Init => TypeOK
  BY DEF Init, TypeOK, NoMetrics, Busy, Waiting, Row
<1>2. TypeOK /\ [Next]_vars => TypeOK'
  <2> SUFFICES ASSUME TypeOK, [Next]_vars PROVE TypeOK'
    OBVIOUS
  <2> USE DEF TypeOK, Busy, Waiting
  <2>1. ASSUME NEW p \in Procs, Start(p) PROVE TypeOK'
    BY <2>1 DEF Start, memory, tables
  <2>2. ASSUME NEW p \in Procs, NEW t \in Txs, NEW flagged \in BOOLEAN,
               Process(p, t, flagged)
        PROVE  TypeOK'
    <3>1. /\ pc' \in [Procs -> {"down", "idle"} \cup Waiting]
          /\ cur' \in [Procs -> Txs \cup {None}]
          /\ verdict' \in [Procs -> BOOLEAN]
          /\ attempt' \in [Procs -> 0..MaxRetries]
          /\ sent' \in [Procs -> Nat]
          /\ fed' \in 0..MaxInputs
          /\ \A q \in Procs : (Busy(q)' => cur'[q] \in Txs) /\ (verdict'[q] => Busy(q)')
      BY <2>2 DEF Process
    <3>2. /\ txRows' \in [Txs -> Seq(Row)]
          /\ alertRows' \subseteq Txs
          /\ abandoned' \subseteq Txs
      BY <2>2 DEF Process, tables
    <3>3. /\ Push(txBuf[p], t, TxBufMax) \in Seq(Txs)
          /\ Push(alertBuf[p], t, AlertBufMax) \in Seq(Txs)
          /\ Len(Push(txBuf[p], t, TxBufMax)) <= TxBufMax
          /\ Len(Push(alertBuf[p], t, AlertBufMax)) <= AlertBufMax
      <4>1. txBuf[p] \in Seq(Txs) /\ alertBuf[p] \in Seq(Txs)
        OBVIOUS
      <4> HIDE DEF TypeOK
      <4>2. Push(txBuf[p], t, TxBufMax) \in Seq(Txs)
        BY <4>1, PushProperties
      <4>3. Push(alertBuf[p], t, AlertBufMax) \in Seq(Txs)
        BY <4>1, PushProperties
      <4>4. Len(Push(txBuf[p], t, TxBufMax)) <= TxBufMax
        BY <4>1, PushStaysShort
      <4>5. Len(Push(alertBuf[p], t, AlertBufMax)) <= AlertBufMax
        BY <4>1, PushStaysShort
      <4> QED BY <4>2, <4>3, <4>4, <4>5
    <3>4. txBuf' \in [Procs -> Seq(Txs)] /\ \A q \in Procs : Len(txBuf'[q]) <= TxBufMax
      BY <2>2, <3>3 DEF Process, CountAndBuffer
    <3>5. metrics' \in [Procs -> [processed : Nat, flagged : Nat, alerts : Nat]]
      <4> DEFINE n == IF flagged THEN 1 ELSE 0
                 counted == [processed |-> metrics[p].processed + 1,
                             flagged   |-> metrics[p].flagged + n,
                             alerts    |-> metrics[p].alerts + n]
      <4>1. counted \in [processed : Nat, flagged : Nat, alerts : Nat]
        OBVIOUS
      <4>2. metrics' = [metrics EXCEPT ![p] = counted]
        BY <2>2 DEF Process, CountAndBuffer
      <4> HIDE DEF counted
      <4> QED BY <4>1, <4>2
    <3>6. /\ alertBuf' \in [Procs -> Seq(Txs)]
          /\ \A q \in Procs : Len(alertBuf'[q]) <= AlertBufMax
          /\ announced' \subseteq Txs
      BY <2>2, <3>3 DEF Process, Announce
    <3>7. \A q \in Procs : Len(txBuf'[q]) <= TxBufMax /\ Len(alertBuf'[q]) <= AlertBufMax
      BY <3>4, <3>6
    <3> QED BY <3>1, <3>2, <3>4, <3>5, <3>6, <3>7
  <2>3. ASSUME NEW p \in Procs, ScoringFails(p) PROVE TypeOK'
    <3>1. fed' \in 0..MaxInputs
      BY <2>3 DEF ScoringFails
    <3>2. UNCHANGED <<pc, cur, verdict, attempt, txBuf, alertBuf, metrics, sent, txRows,
                      alertRows, announced, abandoned>>
      BY <2>3 DEF ScoringFails, memory, tables
    <3> QED BY <3>1, <3>2
  <2>4. ASSUME NEW p \in Procs, CommitStores(p) PROVE TypeOK'
    <3> DEFINE row == [flagged |-> verdict[p], by |-> p]
    <3>1. cur[p] \in Txs /\ row \in Row
      BY <2>4 DEF CommitStores, Row
    <3>2. Append(txRows[cur[p]], row) \in Seq(Row)
      BY <3>1, AppendProperties
    <3>3. txRows' \in [Txs -> Seq(Row)]
      <4>1. txRows' = [txRows EXCEPT ![cur[p]] = Append(@, row)]
        BY <2>4 DEF CommitStores, Insert
      <4> HIDE DEF row
      <4> QED BY <3>1, <3>2, <4>1
    <3>4. alertRows' \subseteq Txs
      BY <2>4, <3>1 DEF CommitStores, Insert
    <3>5. /\ pc' = [pc EXCEPT ![p] = "committed"]
          /\ UNCHANGED <<cur, verdict, attempt, txBuf, alertBuf, metrics, sent,
                         announced, abandoned, fed>>
      BY <2>4 DEF CommitStores, GoTo, memory
    <3>6. \A q \in Procs : (Busy(q)' => cur'[q] \in Txs) /\ (verdict'[q] => Busy(q)')
      BY <2>4, <3>5 DEF CommitStores
    <3> QED BY <3>3, <3>4, <3>5, <3>6
  <2>5. ASSUME NEW p \in Procs, CommitFails(p) PROVE TypeOK'
    <3>1. \A q \in Procs : (Busy(q)' => cur'[q] \in Txs) /\ (verdict'[q] => Busy(q)')
      BY <2>5 DEF CommitFails, GoTo
    <3>2. pc' \in [Procs -> {"down", "idle"} \cup Waiting] /\ attempt' \in [Procs -> 0..MaxRetries]
      BY <2>5 DEF CommitFails, GoTo
    <3> QED BY <2>5, <3>1, <3>2 DEF CommitFails, GoTo, memory, tables
  <2>6. ASSUME NEW p \in Procs, AckLost(p) PROVE TypeOK'
    <3>1. \A q \in Procs : (Busy(q)' => cur'[q] \in Txs) /\ (verdict'[q] => Busy(q)')
      BY <2>6 DEF AckLost, GoTo
    <3>2. pc' \in [Procs -> {"down", "idle"} \cup Waiting] /\ attempt' \in [Procs -> 0..MaxRetries]
      BY <2>6 DEF AckLost, GoTo
    <3> QED BY <2>6, <3>1, <3>2 DEF AckLost, GoTo, memory, tables
  <2>7. ASSUME NEW p \in Procs, Retry(p) PROVE TypeOK'
    <3>1. \A q \in Procs : (Busy(q)' => cur'[q] \in Txs) /\ (verdict'[q] => Busy(q)')
      BY <2>7 DEF Retry, GoTo
    <3>2. pc' \in [Procs -> {"down", "idle"} \cup Waiting] /\ attempt' \in [Procs -> 0..MaxRetries]
      BY <2>7 DEF Retry, GoTo
    <3> QED BY <2>7, <3>1, <3>2 DEF Retry, GoTo, memory, tables
  <2>0. ASSUME NEW p \in Procs, Leave(p)
        PROVE  /\ pc' \in [Procs -> {"down", "idle"} \cup Waiting]
               /\ cur' \in [Procs -> Txs \cup {None}]
               /\ verdict' \in [Procs -> BOOLEAN]
               /\ attempt' \in [Procs -> 0..MaxRetries]
               /\ \A q \in Procs : (Busy(q)' => cur'[q] \in Txs) /\ (verdict'[q] => Busy(q)')
    <3>1. \A q \in Procs : (Busy(q)' => cur'[q] \in Txs) /\ (verdict'[q] => Busy(q)')
      BY <2>0 DEF Leave
    <3>2. pc' \in [Procs -> {"down", "idle"} \cup Waiting] /\ attempt' \in [Procs -> 0..MaxRetries]
      BY <2>0 DEF Leave
    <3>3. cur' \in [Procs -> Txs \cup {None}] /\ verdict' \in [Procs -> BOOLEAN]
      BY <2>0 DEF Leave
    <3> QED BY <3>1, <3>2, <3>3
  <2>8. ASSUME NEW p \in Procs, Finish(p) PROVE TypeOK'
    <3>1. Leave(p) /\ UNCHANGED <<memory, tables, announced, abandoned, fed>>
      BY <2>8 DEF Finish
    <3>2. sent' \in [Procs -> Nat]
      BY <2>8 DEF Finish
    <3> QED BY <2>0, <3>1, <3>2 DEF memory, tables
  <2>9. ASSUME NEW p \in Procs, GiveUp(p) PROVE TypeOK'
    <3>1. Leave(p) /\ UNCHANGED <<memory, tables, announced, fed>>
      BY <2>9 DEF GiveUp
    <3>2. sent' \in [Procs -> Nat]
      BY <2>9 DEF GiveUp
    <3>3. abandoned' \subseteq Txs
      BY <2>9 DEF GiveUp, Abandon
    <3> QED BY <2>0, <3>1, <3>2, <3>3 DEF memory, tables
  <2>10. ASSUME NEW p \in Procs, Abort(p) PROVE TypeOK'
    <3>1. Leave(p) /\ UNCHANGED <<memory, sent, tables, announced, fed>>
      BY <2>10 DEF Abort
    <3>2. abandoned' \subseteq Txs
      BY <2>10 DEF Abort, Abandon
    <3> QED BY <2>0, <3>1, <3>2 DEF memory, tables
  <2>11. ASSUME NEW p \in Procs, Terminate(p) PROVE TypeOK'
    <3>1. /\ txBuf' \in [Procs -> Seq(Txs)]
          /\ alertBuf' \in [Procs -> Seq(Txs)]
          /\ \A q \in Procs : Len(txBuf'[q]) <= TxBufMax /\ Len(alertBuf'[q]) <= AlertBufMax
          /\ metrics' \in [Procs -> [processed : Nat, flagged : Nat, alerts : Nat]]
      BY <2>11 DEF Terminate, NoMetrics
    <3>2. abandoned' \subseteq Txs
      BY <2>11 DEF Terminate, Abandon, Busy
    <3>3. \A q \in Procs : (Busy(q)' => cur'[q] \in Txs) /\ (verdict'[q] => Busy(q)')
      BY <2>11 DEF Terminate
    <3>4. /\ pc' \in [Procs -> {"down", "idle"} \cup Waiting]
          /\ cur' \in [Procs -> Txs \cup {None}]
          /\ verdict' \in [Procs -> BOOLEAN]
          /\ attempt' \in [Procs -> 0..MaxRetries]
          /\ sent' \in [Procs -> Nat]
      BY <2>11 DEF Terminate
    <3> QED BY <2>11, <3>1, <3>2, <3>3, <3>4 DEF Terminate, tables
  <2>12. ASSUME NEW t \in WorkerTxs, NEW flagged \in BOOLEAN, WorkerStores(t, flagged)
         PROVE  TypeOK'
    <3> DEFINE row == [flagged |-> flagged, by |-> Worker]
    <3>1. t \in Txs /\ row \in Row
      BY DEF Row
    <3>2. Append(txRows[t], row) \in Seq(Row)
      BY <3>1, AppendProperties
    <3>3. txRows' \in [Txs -> Seq(Row)]
      BY <2>12, <3>1, <3>2 DEF WorkerStores
    <3> QED BY <2>12, <3>3 DEF WorkerStores, memory
  <2>13. CASE UNCHANGED vars
    BY <2>13 DEF vars
  <2> HIDE DEF TypeOK, Busy, Waiting
  <2> QED BY <2>1, <2>2, <2>3, <2>4, <2>5, <2>6, <2>7, <2>8, <2>9, <2>10, <2>11,
             <2>12, <2>13 DEF Next, Step
<1> QED BY <1>1, <1>2, PTL DEF Spec

-----------------------------------------------------------------------------
(***************************************************************************)
(* The tables.  TablesInv is the inductive invariant behind the safety     *)
(* properties: a hash has one row at most; an alert row goes with a flagged*)
(* row of a pipeline process and the other way round; a verdict in hand was*)
(* announced; and a process that waits for commit() to return has its rows *)
(* in the tables, which is what lets Finish forget the transaction.        *)
(***************************************************************************)
OwnFlagged(t) == txRows[t] # <<>> /\ txRows[t][1].flagged /\ txRows[t][1].by # Worker

OneRowPerHash == \A t \in Txs : Len(txRows[t]) <= 1
AlertsMatchRows == \A t \in Txs : t \in alertRows <=> OwnFlagged(t)
VerdictAnnounced == \A p \in Procs : verdict[p] => cur[p] \in announced
CommittedIsStored ==
  \A p \in Procs : pc[p] = "committed" =>
    txRows[cur[p]] # <<>> /\ (verdict[p] => cur[p] \in alertRows)

TablesInv ==
  /\ OneRowPerHash
  /\ AlertsMatchRows
  /\ VerdictAnnounced
  /\ CommittedIsStored
  /\ AnnouncedBeforeStored
  /\ NoAlertSilentlyLost

(* What a store of a row does to one hash's rows. *)
LEMMA FirstRow ==
  ASSUME NEW row \in Row
  PROVE  /\ Append(<<>>, row) = <<row>>
         /\ Len(<<row>>) = 1
         /\ <<row>> # <<>>
         /\ <<row>>[1] = row
  OBVIOUS

(* A commit that goes through, seen from the tables. *)
LEMMA StoreEffect ==
  ASSUME TypeOK, NEW p \in Procs, CommitStores(p)
  PROVE  LET t == cur[p]
             row == [flagged |-> verdict[p], by |-> p]
         IN  /\ t \in Txs
             /\ row \in Row
             /\ txRows[t] = <<>>
             /\ txRows' = [txRows EXCEPT ![t] = <<row>>]
             /\ alertRows' = IF verdict[p] THEN alertRows \cup {t} ELSE alertRows
             /\ pc' = [pc EXCEPT ![p] = "committed"]
             /\ UNCHANGED <<cur, verdict, announced, abandoned>>
<1> DEFINE t == cur[p]
           row == [flagged |-> verdict[p], by |-> p]
<1>1. t \in Txs /\ row \in Row
  BY DEF TypeOK, CommitStores, Busy, Waiting, Row
<1>2. txRows[t] = <<>>
  BY DEF CommitStores, Conflict
<1>3. txRows' = [txRows EXCEPT ![t] = Append(txRows[t], row)]
  BY DEF CommitStores, Insert
<1>4. txRows' = [txRows EXCEPT ![t] = <<row>>]
  <2> HIDE DEF row, t
  <2> QED BY <1>1, <1>2, <1>3, FirstRow
<1>5. /\ alertRows' = IF verdict[p] THEN alertRows \cup {t} ELSE alertRows
      /\ pc' = [pc EXCEPT ![p] = "committed"]
      /\ UNCHANGED <<cur, verdict, announced, abandoned>>
  BY DEF CommitStores, Insert, GoTo
<1> QED BY <1>1, <1>2, <1>4, <1>5

(* The worker's insert, seen from the tables. *)
LEMMA WorkerStoreEffect ==
  ASSUME TypeOK, NEW t \in WorkerTxs, NEW flagged \in BOOLEAN, WorkerStores(t, flagged)
  PROVE  LET row == [flagged |-> flagged, by |-> Worker]
         IN  /\ t \in Txs
             /\ row \in Row
             /\ txRows[t] = <<>>
             /\ txRows' = [txRows EXCEPT ![t] = <<row>>]
             /\ UNCHANGED <<pc, cur, verdict, alertRows, announced, abandoned>>
<1> DEFINE row == [flagged |-> flagged, by |-> Worker]
<1>1. t \in Txs /\ row \in Row
  BY WorkerTxsAssumption DEF Row
<1>2. txRows' = [txRows EXCEPT ![t] = Append(txRows[t], row)]
  BY DEF WorkerStores
<1>3. txRows[t] = <<>>
  BY DEF WorkerStores
<1>4. txRows' = [txRows EXCEPT ![t] = <<row>>]
  <2> HIDE DEF row
  <2> QED BY <1>1, <1>2, <1>3, FirstRow
<1>5. UNCHANGED <<pc, cur, verdict, alertRows, announced, abandoned>>
  BY DEF WorkerStores
<1> QED BY <1>1, <1>3, <1>4, <1>5

(* The invariant survives every step of Next. *)
LEMMA TablesInvStep == TypeOK /\ TablesInv /\ [Next]_vars => TablesInv'
<1> SUFFICES ASSUME TypeOK, TablesInv, [Next]_vars PROVE TablesInv'
  OBVIOUS
<1> USE DEF TablesInv, OneRowPerHash, AlertsMatchRows, VerdictAnnounced,
            CommittedIsStored, AnnouncedBeforeStored, NoAlertSilentlyLost, OwnFlagged
<1>1. ASSUME NEW p \in Procs, Start(p) PROVE TablesInv'
  BY <1>1 DEF Start, tables, TypeOK, Busy, Waiting
<1>2. ASSUME NEW p \in Procs, NEW t \in Txs, NEW flagged \in BOOLEAN, Process(p, t, flagged)
      PROVE  TablesInv'
  <2>1. /\ cur' = [cur EXCEPT ![p] = t]
        /\ verdict' = [verdict EXCEPT ![p] = flagged]
        /\ pc' = [pc EXCEPT ![p] = "committing"]
        /\ announced' = IF flagged THEN announced \cup {t} ELSE announced
        /\ UNCHANGED <<txRows, alertRows, abandoned>>
        /\ pc[p] = "idle"
    BY <1>2 DEF Process, Announce, tables
  <2>2. OneRowPerHash' /\ AlertsMatchRows' /\ AnnouncedBeforeStored'
    BY <2>1
  <2>3. VerdictAnnounced'
    BY <2>1 DEF TypeOK
  <2>4. CommittedIsStored'
    BY <2>1 DEF TypeOK
  <2>5. NoAlertSilentlyLost'
    <3> SUFFICES ASSUME NEW u \in announced', u \notin (alertRows \cup abandoned)'
                 PROVE  \E q \in Procs : Busy(q)' /\ cur'[q] = u /\ verdict'[q]
      OBVIOUS
    <3>1. CASE u \in announced
      <4>1. PICK q \in Procs : Busy(q) /\ cur[q] = u /\ verdict[q]
        BY <2>1, <3>1
      <4>2. q # p
        BY <2>1, <4>1 DEF Busy, Waiting
      <4>3. Busy(q)' /\ cur'[q] = u /\ verdict'[q]
        BY <2>1, <4>1, <4>2 DEF TypeOK, Busy
      <4> QED BY <4>3
    <3>2. CASE u \notin announced
      <4>1. u = t /\ flagged
        BY <2>1, <3>2
      <4>2. Busy(p)' /\ cur'[p] = u /\ verdict'[p]
        BY <2>1, <4>1 DEF TypeOK, Busy, Waiting
      <4> QED BY <4>2
    <3> QED BY <3>1, <3>2
  <2> QED BY <2>2, <2>3, <2>4, <2>5
<1>3. ASSUME NEW p \in Procs, ScoringFails(p) PROVE TablesInv'
  BY <1>3 DEF ScoringFails, tables, Busy
<1>4. ASSUME NEW p \in Procs, CommitStores(p) PROVE TablesInv'
  <2> DEFINE t == cur[p]
             row == [flagged |-> verdict[p], by |-> p]
  <2>1. /\ t \in Txs
        /\ row \in Row
        /\ txRows[t] = <<>>
        /\ txRows' = [txRows EXCEPT ![t] = <<row>>]
        /\ alertRows' = IF verdict[p] THEN alertRows \cup {t} ELSE alertRows
        /\ pc' = [pc EXCEPT ![p] = "committed"]
        /\ UNCHANGED <<cur, verdict, announced, abandoned>>
    BY <1>4, StoreEffect
  <2>2. row.flagged = verdict[p] /\ row.by # Worker
    BY WorkerAssumption
  <2>3. /\ txRows'[t] = <<row>>
        /\ \A u \in Txs \ {t} : txRows'[u] = txRows[u]
    BY <2>1 DEF TypeOK
  <2>4. Len(<<row>>) = 1 /\ <<row>> # <<>> /\ <<row>>[1] = row
    BY <2>1, FirstRow
  <2> HIDE DEF row
  <2>5. OneRowPerHash'
    <3> SUFFICES ASSUME NEW u \in Txs PROVE Len(txRows'[u]) <= 1
      OBVIOUS
    <3>1. Len(<<row>>) <= 1
      BY <2>4
    <3> QED BY <2>3, <3>1
  <2>6. AlertsMatchRows'
    BY <2>1, <2>2, <2>3, <2>4 DEF TypeOK
  <2>7. VerdictAnnounced' /\ AnnouncedBeforeStored'
    BY <2>1
  <2>8. CommittedIsStored'
    <3> SUFFICES ASSUME NEW q \in Procs, pc'[q] = "committed"
                 PROVE  txRows'[cur[q]] # <<>> /\ (verdict[q] => cur[q] \in alertRows')
      BY <2>1
    <3>1. CASE q = p
      BY <2>1, <2>3, <2>4, <3>1
    <3>2. CASE q # p
      <4>1. pc[q] = "committed" /\ cur[q] \in Txs
        BY <2>1, <3>2 DEF TypeOK, Busy, Waiting
      <4>2. cur[q] # t
        BY <2>1, <4>1
      <4> QED BY <2>1, <2>3, <4>1, <4>2
    <3> QED BY <3>1, <3>2
  <2>9. NoAlertSilentlyLost'
    BY <2>1 DEF TypeOK, Busy, Waiting
  <2> QED BY <2>5, <2>6, <2>7, <2>8, <2>9
<1>5. ASSUME NEW p \in Procs, CommitFails(p) PROVE TablesInv'
  BY <1>5 DEF CommitFails, GoTo, tables, TypeOK, Busy, Waiting
<1>6. ASSUME NEW p \in Procs, AckLost(p) PROVE TablesInv'
  BY <1>6 DEF AckLost, GoTo, tables, TypeOK, Busy, Waiting
<1>7. ASSUME NEW p \in Procs, Retry(p) PROVE TablesInv'
  BY <1>7 DEF Retry, GoTo, tables, TypeOK, Busy, Waiting
<1>8. ASSUME NEW p \in Procs, Finish(p) PROVE TablesInv'
  BY <1>8 DEF Finish, Leave, tables, TypeOK, Busy, Waiting
<1>9. ASSUME NEW p \in Procs, GiveUp(p) PROVE TablesInv'
  BY <1>9 DEF GiveUp, Leave, Abandon, tables, TypeOK, Busy, Waiting
<1>10. ASSUME NEW p \in Procs, Abort(p) PROVE TablesInv'
  BY <1>10 DEF Abort, Leave, Abandon, tables, TypeOK, Busy, Waiting
<1>11. ASSUME NEW p \in Procs, Terminate(p) PROVE TablesInv'
  BY <1>11 DEF Terminate, Abandon, tables, TypeOK, Busy, Waiting
<1>12. ASSUME NEW t \in WorkerTxs, NEW flagged \in BOOLEAN, WorkerStores(t, flagged)
       PROVE  TablesInv'
  <2> DEFINE row == [flagged |-> flagged, by |-> Worker]
  <2>1. /\ t \in Txs
        /\ row \in Row
        /\ txRows[t] = <<>>
        /\ txRows' = [txRows EXCEPT ![t] = <<row>>]
        /\ UNCHANGED <<pc, cur, verdict, alertRows, announced, abandoned>>
    BY <1>12, WorkerStoreEffect
  <2>2. row.by = Worker
    OBVIOUS
  <2>3. /\ txRows'[t] = <<row>>
        /\ \A u \in Txs \ {t} : txRows'[u] = txRows[u]
    BY <2>1 DEF TypeOK
  <2>4. Len(<<row>>) = 1 /\ <<row>> # <<>> /\ <<row>>[1] = row
    BY <2>1, FirstRow
  <2> HIDE DEF row
  <2>5. OneRowPerHash' /\ AlertsMatchRows'
    BY <2>1, <2>2, <2>3, <2>4 DEF TypeOK
  <2>6. VerdictAnnounced' /\ AnnouncedBeforeStored' /\ NoAlertSilentlyLost'
    BY <2>1 DEF Busy
  <2>7. CommittedIsStored'
    BY <2>1, <2>3, <2>4 DEF TypeOK, Busy, Waiting
  <2> QED BY <2>5, <2>6, <2>7
<1>13. CASE UNCHANGED vars
  BY <1>13 DEF vars, Busy
<1> HIDE DEF TablesInv
<1> QED BY <1>1, <1>2, <1>3, <1>4, <1>5, <1>6, <1>7, <1>8, <1>9, <1>10, <1>11,
           <1>12, <1>13 DEF Next, Step

LEMMA TablesInvariant == Spec => []TablesInv
<1>1. Init => TablesInv
  BY DEF Init, TablesInv, OneRowPerHash, AlertsMatchRows, VerdictAnnounced,
         CommittedIsStored, AnnouncedBeforeStored, NoAlertSilentlyLost, OwnFlagged
<1> QED BY <1>1, TablesInvStep, TypeCorrect, PTL DEF Spec

(* No alert row exists that was not announced before (AnnouncedBeforeStored). *)
THEOREM AnnouncedFirst == Spec => []AnnouncedBeforeStored
<1>1. TablesInv => AnnouncedBeforeStored
  BY DEF TablesInv
<1> QED BY <1>1, TablesInvariant, PTL

(* An announced alert is stored, still being saved, or abandoned
   (NoAlertSilentlyLost). *)
THEOREM AlertsAccountedFor == Spec => []NoAlertSilentlyLost
<1>1. TablesInv => NoAlertSilentlyLost
  BY DEF TablesInv
<1> QED BY <1>1, TablesInvariant, PTL

(* A transaction goes to the stream's clients only when its row is stored or
   all attempts are spent (BroadcastOnlySettled). *)
THEOREM BroadcastSettled == Spec => BroadcastOnlySettled
<1> DEFINE Settled ==
      \A p \in Procs :
        sent'[p] > sent[p] => txRows[cur[p]] # <<>> \/ attempt[p] = MaxRetries
<1>1. TypeOK /\ TablesInv /\ [Next]_vars => [Settled]_vars
  <2> SUFFICES ASSUME TypeOK, TablesInv, Next, NEW p \in Procs, sent'[p] > sent[p]
               PROVE  txRows[cur[p]] # <<>> \/ attempt[p] = MaxRetries
    OBVIOUS
  <2>1. sent[p] \in Nat /\ attempt[p] \in 0..MaxRetries /\ sent \in [Procs -> Nat]
    BY DEF TypeOK
  <2>2. sent' # sent
    BY <2>1
  <2>3. PICK q \in Procs : Finish(q) \/ GiveUp(q) \/ Terminate(q)
    BY <2>2 DEF Next, Step, Start, Process, ScoringFails, CommitStores, CommitFails,
                AckLost, Retry, Abort, WorkerStores
  <2>4. q = p /\ ~Terminate(q)
    <3>1. ~Terminate(q)
      <4>1. ASSUME sent' = [sent EXCEPT ![q] = 0] PROVE FALSE
        BY <2>1, <4>1
      <4> QED BY <4>1 DEF Terminate
    <3>2. sent' = [sent EXCEPT ![q] = @ + 1]
      BY <2>3, <3>1 DEF Finish, GiveUp
    <3>3. q = p
      BY <2>1, <3>2
    <3> QED BY <3>1, <3>3
  <2>5. CASE Finish(p)
    BY <2>5 DEF Finish, TablesInv, CommittedIsStored
  <2>6. CASE GiveUp(p)
    BY <2>1, <2>6, RetriesAssumption DEF GiveUp
  <2> QED BY <2>3, <2>4, <2>5, <2>6
<1> QED BY <1>1, TypeCorrect, TablesInvariant, PTL DEF Spec, BroadcastOnlySettled

(* Counters and deques move together, and the transaction in hand is the
   newest one buffered (CountersMatchBuffers). *)
THEOREM CountersFollowBuffers == Spec => []CountersMatchBuffers
<1> USE BufferAssumption
<1>1. Init => CountersMatchBuffers
  <2> SUFFICES ASSUME Init, NEW p \in Procs PROVE CountsMatch(p)
    BY DEF CountersMatchBuffers
  <2>1. /\ metrics[p] = NoMetrics
        /\ txBuf[p] = <<>> /\ alertBuf[p] = <<>>
        /\ ~Busy(p)
    BY DEF Init, Busy, Waiting
  <2> QED BY <2>1 DEF CountsMatch, NoMetrics
<1>2. TypeOK /\ CountersMatchBuffers /\ [Next]_vars => CountersMatchBuffers'
  <2> SUFFICES ASSUME TypeOK, CountersMatchBuffers, [Next]_vars, NEW q \in Procs
               PROVE  CountsMatch(q)'
    BY DEF CountersMatchBuffers
  <2>1. ASSUME UNCHANGED <<metrics[q], txBuf[q], alertBuf[q]>>,
               Busy(q)' => Busy(q) /\ cur'[q] = cur[q]
        PROVE  CountsMatch(q)'
    BY <2>1 DEF CountersMatchBuffers, CountsMatch
  <2>2. ASSUME NEW t \in Txs, NEW flagged \in BOOLEAN, Process(q, t, flagged)
        PROVE  CountsMatch(q)'
    <3> DEFINE n == IF flagged THEN 1 ELSE 0
               counted == [processed |-> metrics[q].processed + 1,
                           flagged   |-> metrics[q].flagged + n,
                           alerts    |-> metrics[q].alerts + n]
    <3>1. /\ txBuf[q] \in Seq(Txs) /\ alertBuf[q] \in Seq(Txs)
          /\ metrics[q] \in [processed : Nat, flagged : Nat, alerts : Nat]
      BY DEF TypeOK
    <3>2. metrics'[q] = counted
      BY <2>2 DEF Process, CountAndBuffer, TypeOK
    <3>3. /\ txBuf'[q] = Push(txBuf[q], t, TxBufMax)
          /\ cur'[q] = t
      BY <2>2 DEF Process, CountAndBuffer, TypeOK
    <3>4. alertBuf'[q] = IF flagged THEN Push(alertBuf[q], t, AlertBufMax) ELSE alertBuf[q]
      BY <2>2 DEF Process, Announce, TypeOK
    <3>5. /\ Len(txBuf'[q]) = IF Len(txBuf[q]) < TxBufMax
                              THEN Len(txBuf[q]) + 1 ELSE TxBufMax
          /\ Head(txBuf'[q]) = t
      BY <3>1, <3>3, PushProperties
    <3>6. flagged => Len(alertBuf'[q]) = IF Len(alertBuf[q]) < AlertBufMax
                                        THEN Len(alertBuf[q]) + 1 ELSE AlertBufMax
      <4>1. /\ Len(Push(alertBuf[q], t, AlertBufMax))
                 = IF Len(alertBuf[q]) < AlertBufMax THEN Len(alertBuf[q]) + 1 ELSE AlertBufMax
        <5>1. alertBuf[q] \in Seq(Txs) /\ AlertBufMax \in Nat \ {0}
          BY <3>1
        <5> HIDE DEF CountersMatchBuffers, CountsMatch, TypeOK, n, counted
        <5> QED BY <5>1, PushProperties
      <4> QED BY <3>4, <4>1
    <3>7. CountsMatch(q)
      BY DEF CountersMatchBuffers
    <3>8. Len(txBuf'[q]) = IF metrics'[q].processed < TxBufMax
                          THEN metrics'[q].processed ELSE TxBufMax
      BY <3>1, <3>2, <3>5, <3>7 DEF CountsMatch
    <3>9. Len(alertBuf'[q]) = IF metrics'[q].alerts < AlertBufMax
                             THEN metrics'[q].alerts ELSE AlertBufMax
      <4>1. CASE flagged
        BY <3>1, <3>2, <3>6, <3>7, <4>1 DEF CountsMatch
      <4>2. CASE ~flagged
        BY <3>1, <3>2, <3>4, <3>7, <4>2 DEF CountsMatch
      <4> QED BY <4>1, <4>2
    <3>10. /\ metrics'[q].alerts = metrics'[q].flagged
           /\ metrics'[q].flagged <= metrics'[q].processed
      BY <3>1, <3>2, <3>7 DEF CountsMatch
    <3> QED BY <3>3, <3>5, <3>8, <3>9, <3>10 DEF CountsMatch
  <2>3. ASSUME Terminate(q) PROVE CountsMatch(q)'
    <3>1. /\ metrics'[q] = NoMetrics
          /\ txBuf'[q] = <<>> /\ alertBuf'[q] = <<>>
          /\ ~Busy(q)'
      BY <2>3 DEF Terminate, TypeOK, Busy, Waiting
    <3> QED BY <3>1 DEF CountsMatch, NoMetrics
  <2>4. ASSUME NEW p \in Procs, p # q, NEW t \in Txs, NEW flagged \in BOOLEAN,
               Process(p, t, flagged)
        PROVE  CountsMatch(q)'
    <3>1. /\ UNCHANGED <<metrics[q], txBuf[q], alertBuf[q]>>
          /\ Busy(q)' => Busy(q) /\ cur'[q] = cur[q]
      BY <2>4 DEF Process, CountAndBuffer, Announce, TypeOK, Busy
    <3> QED BY <3>1, <2>1
  <2>5. ASSUME NEW p \in Procs, p # q, Terminate(p) PROVE CountsMatch(q)'
    <3>1. /\ UNCHANGED <<metrics[q], txBuf[q], alertBuf[q]>>
          /\ Busy(q)' => Busy(q) /\ cur'[q] = cur[q]
      BY <2>5 DEF Terminate, TypeOK, Busy
    <3> QED BY <3>1, <2>1
  <2>6. ASSUME NEW p \in Procs, Start(p) \/ ScoringFails(p) \/ Step(p)
        PROVE  CountsMatch(q)'
    <3>1. /\ UNCHANGED <<metrics[q], txBuf[q], alertBuf[q]>>
          /\ Busy(q)' => Busy(q) /\ cur'[q] = cur[q]
      BY <2>6 DEF Start, ScoringFails, Step, CommitStores, CommitFails, AckLost, Retry,
                  Finish, GiveUp, Abort, GoTo, Leave, memory, TypeOK, Busy, Waiting
    <3> QED BY <3>1, <2>1
  <2>7. ASSUME \/ \E t \in WorkerTxs, flagged \in BOOLEAN : WorkerStores(t, flagged)
               \/ UNCHANGED vars
        PROVE  CountsMatch(q)'
    <3>1. /\ UNCHANGED <<metrics[q], txBuf[q], alertBuf[q]>>
          /\ Busy(q)' => Busy(q) /\ cur'[q] = cur[q]
      BY <2>7 DEF WorkerStores, memory, vars, Busy
    <3> QED BY <3>1, <2>1
  <2> QED BY <2>2, <2>3, <2>4, <2>5, <2>6, <2>7 DEF Next
<1> QED BY <1>1, <1>2, TypeCorrect, PTL DEF Spec

-----------------------------------------------------------------------------
(* The ledger's view of one hash, without rows and with the one row stored. *)
LEMMA EmptyEntry ==
  ASSUME NEW t \in Txs, txRows[t] = <<>>
  PROVE  ledger[t] = <<>>
<1>1. 1..Len(txRows[t]) = {}
  OBVIOUS
<1>2. ledger[t] = [i \in 1..Len(txRows[t]) |-> VerdictOf(t, txRows[t][i])]
  BY DEF ledger
<1> QED BY <1>1, <1>2

LEMMA StoredEntry ==
  ASSUME NEW t \in Txs, NEW row \in Row, txRows'[t] = <<row>>
  PROVE  ledger'[t] = <<VerdictOf(t, row)'>>
<1>1. Len(<<row>>) = 1 /\ <<row>>[1] = row
  BY FirstRow
<1>2. ledger'[t] = [i \in 1..Len(txRows'[t]) |-> VerdictOf(t, txRows[t][i])']
  BY DEF ledger
<1>3. ledger'[t] = [i \in 1..1 |-> VerdictOf(t, txRows[t][i])']
  BY <1>1, <1>2
<1> QED BY <1>1, <1>3 DEF VerdictOf

(* A hash whose rows and alert do not change keeps its entry. *)
LEMMA SameEntry ==
  ASSUME NEW t \in Txs, txRows'[t] = txRows[t], t \in alertRows' <=> t \in alertRows
  PROVE  ledger'[t] = ledger[t]
BY DEF ledger, VerdictOf

(* The tables implement TxLedger (LedgerSpec): however API processes, their
   retries and the worker interleave, each hash gets one entry, whole, for good. *)
THEOREM TablesImplementLedger == Spec => LedgerSpec
<1>1. Init => Ledger!Init
  <2> SUFFICES ASSUME Init PROVE ledger = [t \in Txs |-> <<>>]
    BY DEF Ledger!Init
  <2>1. ASSUME NEW t \in Txs PROVE ledger[t] = <<>>
    BY EmptyEntry DEF Init
  <2> QED BY <2>1 DEF ledger
<1>2. TypeOK /\ TablesInv /\ [Next]_vars => [Ledger!Next]_ledger
  <2> SUFFICES ASSUME TypeOK, TablesInv, [Next]_vars
               PROVE  Ledger!Next \/ UNCHANGED ledger
    BY DEF ledger
  <2>1. ASSUME NEW t \in Txs, NEW row \in Row, txRows[t] = <<>>,
               txRows' = [txRows EXCEPT ![t] = <<row>>],
               \A u \in Txs \ {t} : u \in alertRows' <=> u \in alertRows,
               VerdictOf(t, row)' \in Ledger!Verdicts
        PROVE  Ledger!Next
    <3> DEFINE v == VerdictOf(t, row)'
    <3>1. ledger[t] = <<>>
      BY <2>1, EmptyEntry
    <3>2. ledger'[t] = <<v>>
      BY <2>1, StoredEntry DEF TypeOK
    <3>3. ASSUME NEW u \in Txs \ {t} PROVE ledger'[u] = ledger[u]
      BY <2>1, <3>3, SameEntry DEF TypeOK
    <3>4. /\ ledger = [u \in Txs |-> ledger[u]]
          /\ ledger' = [u \in Txs |-> ledger'[u]]
      BY DEF ledger
    <3>5. ledger' = [ledger EXCEPT ![t] = <<v>>]
      <4> HIDE DEF v
      <4> QED BY <3>2, <3>3, <3>4
    <3> QED BY <2>1, <3>1, <3>5 DEF Ledger!Next, Ledger!Record
  <2>2. ASSUME NEW p \in Procs, CommitStores(p) PROVE Ledger!Next
    <3>1. PICK t \in Txs, row \in Row :
            /\ t = cur[p] /\ row = [flagged |-> verdict[p], by |-> p]
            /\ txRows[t] = <<>>
            /\ txRows' = [txRows EXCEPT ![t] = <<row>>]
            /\ alertRows' = IF verdict[p] THEN alertRows \cup {t} ELSE alertRows
      BY <2>2, StoreEffect
    <3>2. t \notin alertRows
      BY <3>1 DEF TablesInv, AlertsMatchRows, OwnFlagged
    <3>3. row.by # Worker /\ row.flagged = verdict[p] /\ verdict[p] \in BOOLEAN
      BY <3>1, WorkerAssumption DEF TypeOK
    <3>4. VerdictOf(t, row)' \in Ledger!Verdicts
      BY <3>1, <3>2, <3>3 DEF VerdictOf, Ledger!Verdicts
    <3>5. \A u \in Txs \ {t} : u \in alertRows' <=> u \in alertRows
      BY <3>1
    <3> QED BY <3>1, <3>4, <3>5, <2>1
  <2>3. ASSUME NEW t \in WorkerTxs, NEW flagged \in BOOLEAN, WorkerStores(t, flagged)
        PROVE  Ledger!Next
    <3> DEFINE row == [flagged |-> flagged, by |-> Worker]
    <3>1. /\ t \in Txs
          /\ row \in Row
          /\ txRows[t] = <<>>
          /\ txRows' = [txRows EXCEPT ![t] = <<row>>]
          /\ UNCHANGED alertRows
      BY <2>3, WorkerStoreEffect
    <3>2. t \notin alertRows
      BY <3>1 DEF TablesInv, AlertsMatchRows, OwnFlagged
    <3>3. VerdictOf(t, row)' \in Ledger!Verdicts
      BY <3>1, <3>2 DEF VerdictOf, Ledger!Verdicts
    <3>4. \A u \in Txs \ {t} : u \in alertRows' <=> u \in alertRows
      BY <3>1
    <3> HIDE DEF row
    <3> QED BY <3>1, <3>3, <3>4, <2>1
  <2>4. ASSUME UNCHANGED tables PROVE UNCHANGED ledger
    BY <2>4 DEF tables, ledger, VerdictOf
  <2>5. ASSUME NEW p \in Procs, Step(p), ~CommitStores(p) PROVE UNCHANGED tables
    BY <2>5 DEF Step, CommitFails, AckLost, Retry, Finish, GiveUp, Abort, tables
  <2>6. ASSUME NEW p \in Procs, NEW t \in Txs, NEW flagged \in BOOLEAN,
               Process(p, t, flagged)
        PROVE  UNCHANGED tables
    BY <2>6 DEF Process, tables
  <2>7. ASSUME NEW p \in Procs, Start(p) \/ ScoringFails(p) \/ Terminate(p)
        PROVE  UNCHANGED tables
    BY <2>7 DEF Start, ScoringFails, Terminate, tables
  <2>8. UNCHANGED vars => UNCHANGED tables
    BY DEF vars, tables
  <2> QED BY <2>2, <2>3, <2>4, <2>5, <2>6, <2>7, <2>8 DEF Next
<1> QED BY <1>1, <1>2, TypeCorrect, TablesInvariant, PTL DEF Spec, LedgerSpec, Ledger!Spec
=============================================================================
