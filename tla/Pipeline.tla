------------------------------ MODULE Pipeline ------------------------------
(***************************************************************************)
(* The live pipeline (app/blockchain/pipeline.py).  Every API process runs *)
(* run_pipeline as one asyncio task: it takes a transaction from the       *)
(* listener, scores and buffers it, announces an alert when it is flagged, *)
(* saves transaction and alert in one commit (three attempts), and then    *)
(* broadcasts the transaction.  The image runs several API processes over  *)
(* one database, and the stand-alone worker (app/worker.py) writes to the  *)
(* transactions table too.                                                 *)
(*                                                                         *)
(* A step is the code between two suspension points.  The subscribers'     *)
(* callbacks never suspend and the subscriber lock is never contended, so  *)
(* the only suspension points of _process_transaction_impl are the commit, *)
(* the rollback, the sleep between attempts and the session's close; at    *)
(* each of them the 30 s timeout, a cancellation or a crash may strike.    *)
(***************************************************************************)
EXTENDS Integers, Sequences

CONSTANTS
  Procs,        \* API processes, each with its own buffers and counters
  Worker,       \* the stand-alone worker, as the writer of a row
  Txs,          \* transactions, named by their hash
  WorkerTxs,    \* the transactions the worker's feed holds
  AlertId,      \* [Txs -> ids]: "alert-" and the hash's first 12 characters
  MaxRetries,   \* attempts of _save_to_db
  TxBufMax,     \* maxlen of _tx_buffer
  AlertBufMax,  \* maxlen of _alert_buffer
  MaxInputs,    \* bound: transactions taken by all processes together
  None

ASSUME WorkerAssumption == Worker \notin Procs
ASSUME WorkerTxsAssumption == WorkerTxs \subseteq Txs
ASSUME NoneAssumption == None \notin Txs
ASSUME RetriesAssumption == MaxRetries \in Nat \ {0}
ASSUME BufferAssumption == TxBufMax \in Nat \ {0} /\ AlertBufMax \in Nat \ {0}
ASSUME InputsAssumption == MaxInputs \in Nat

VARIABLES
  pc,         \* where the process's task is suspended
  cur,        \* the transaction in hand
  verdict,    \* its is_flagged
  attempt,    \* _save_to_db's attempt, from 1
  txBuf,      \* _tx_buffer, newest first
  alertBuf,   \* _alert_buffer, newest first
  metrics,    \* _metrics: total_processed, total_flagged, total_alerts
  sent,       \* history: transactions _broadcast_tx sent in this life
  txRows,     \* rows of the transactions table by tx_hash
  alertRows,  \* transactions whose alert row is in the alerts table
  announced,  \* history: transactions whose alert was broadcast
  abandoned,  \* history: flagged ones whose save was cut short or given up
  fed         \* history: transactions taken from the listener

memory == <<txBuf, alertBuf, metrics>>
tables == <<txRows, alertRows>>
vars == <<pc, cur, verdict, attempt, txBuf, alertBuf, metrics, sent,
          txRows, alertRows, announced, abandoned, fed>>

Waiting == {"committing", "committed", "failed"}
Row == [flagged : BOOLEAN, by : Procs \cup {Worker}]
NoMetrics == [processed |-> 0, flagged |-> 0, alerts |-> 0]

(* Mutation of Push: the bound is one short. *)
PushOneShort(buf, x, max) ==
  SubSeq(<<x>> \o buf, 1, IF Len(buf) < max - 1 THEN Len(buf) + 1 ELSE max - 1)

(* deque.appendleft on a deque with a maxlen: the oldest entry falls off. *)
Push(buf, x, max) ==
  SubSeq(<<x>> \o buf, 1, IF Len(buf) < max THEN Len(buf) + 1 ELSE max)

Init ==
  /\ pc = [p \in Procs |-> "down"]
  /\ cur = [p \in Procs |-> None]
  /\ verdict = [p \in Procs |-> FALSE]
  /\ attempt = [p \in Procs |-> 0]
  /\ txBuf = [p \in Procs |-> <<>>]
  /\ alertBuf = [p \in Procs |-> <<>>]
  /\ metrics = [p \in Procs |-> NoMetrics]
  /\ sent = [p \in Procs |-> 0]
  /\ txRows = [t \in Txs |-> <<>>]
  /\ alertRows = {}
  /\ announced = {}
  /\ abandoned = {}
  /\ fed = 0

(***************************************************************************)
(* The task's position.  Leave ends the work on the transaction in hand;   *)
(* GoTo suspends the task at another point of the same transaction.        *)
(***************************************************************************)
GoTo(p, point) ==
  /\ pc' = [pc EXCEPT ![p] = point]
  /\ UNCHANGED <<cur, verdict>>

Leave(p) ==
  /\ pc' = [pc EXCEPT ![p] = "idle"]
  /\ cur' = [cur EXCEPT ![p] = None]
  /\ verdict' = [verdict EXCEPT ![p] = FALSE]
  /\ attempt' = [attempt EXCEPT ![p] = 0]

Abandon(p) ==
  abandoned' = IF verdict[p] THEN abandoned \cup {cur[p]} ELSE abandoned

(* lifespan starts a pipeline in a fresh process. *)
Start(p) ==
  /\ pc[p] = "down"
  /\ pc' = [pc EXCEPT ![p] = "idle"]
  /\ UNCHANGED <<cur, verdict, attempt, memory, sent, tables, announced,
                 abandoned, fed>>

(* Counters and _tx_buffer, before anything can be awaited. *)
CountAndBuffer(p, t, flagged) ==
  LET n == IF flagged THEN 1 ELSE 0 IN
    /\ txBuf' = [txBuf EXCEPT ![p] = Push(@, t, TxBufMax)]
    /\ metrics' = [metrics EXCEPT ![p] = [processed |-> @.processed + 1,
                                          flagged   |-> @.flagged + n,
                                          alerts    |-> @.alerts + n]]

(* Mutation of Announce: the alert is left for after the save. *)
AnnounceLater(p, t, flagged) == UNCHANGED <<alertBuf, announced>>

(* A flagged transaction's alert is buffered and broadcast at once. *)
Announce(p, t, flagged) ==
  /\ alertBuf' = [alertBuf EXCEPT ![p] =
                    IF flagged THEN Push(@, t, AlertBufMax) ELSE @]
  /\ announced' = IF flagged THEN announced \cup {t} ELSE announced

(***************************************************************************)
(* Take a transaction from the listener and run to the first commit.  The  *)
(* score depends on the process's own graph, gas window and model, so two  *)
(* processes may disagree: the verdict is any Boolean.                     *)
(***************************************************************************)
Process(p, t, flagged) ==
  /\ pc[p] = "idle"
  /\ fed < MaxInputs
  /\ fed' = fed + 1
  /\ pc' = [pc EXCEPT ![p] = "committing"]
  /\ cur' = [cur EXCEPT ![p] = t]
  /\ verdict' = [verdict EXCEPT ![p] = flagged]
  /\ attempt' = [attempt EXCEPT ![p] = 1]
  /\ CountAndBuffer(p, t, flagged)
  /\ Announce(p, t, flagged)
  /\ UNCHANGED <<sent, tables, abandoned>>

(* predict raises: process_transaction swallows it, nothing was counted.  *)
ScoringFails(p) ==
  /\ pc[p] = "idle"
  /\ fed < MaxInputs
  /\ fed' = fed + 1
  /\ UNCHANGED <<pc, cur, verdict, attempt, memory, sent, tables, announced,
                 abandoned>>

(***************************************************************************)
(* The database side of a commit.  tx_hash is unique and the alert's id is *)
(* a primary key; both inserts succeed or neither does.                    *)
(***************************************************************************)
(* Mutation of Conflict: tx_hash is not unique. *)
ConflictOnAlertOnly(t, flagged) ==
  flagged /\ \E u \in alertRows : AlertId[u] = AlertId[t]

Conflict(t, flagged) ==
  \/ txRows[t] # <<>>
  \/ flagged /\ \E u \in alertRows : AlertId[u] = AlertId[t]

(* Mutation of Insert: the alert is not part of the commit. *)
InsertRowOnly(p, t, flagged) ==
  /\ txRows' = [txRows EXCEPT
                  ![t] = Append(@, [flagged |-> flagged, by |-> p])]
  /\ UNCHANGED alertRows

Insert(p, t, flagged) ==
  /\ txRows' = [txRows EXCEPT
                  ![t] = Append(@, [flagged |-> flagged, by |-> p])]
  /\ alertRows' = IF flagged THEN alertRows \cup {t} ELSE alertRows

CommitStores(p) ==
  /\ pc[p] = "committing"
  /\ ~Conflict(cur[p], verdict[p])
  /\ Insert(p, cur[p], verdict[p])
  /\ GoTo(p, "committed")
  /\ UNCHANGED <<attempt, memory, sent, announced, abandoned, fed>>

(* A violated constraint, or the database is out of reach. *)
CommitFails(p) ==
  /\ pc[p] = "committing"
  /\ GoTo(p, "failed")
  /\ UNCHANGED <<attempt, memory, sent, tables, announced, abandoned, fed>>

(* The rows are in, but the connection breaks before commit() returns. *)
AckLost(p) ==
  /\ pc[p] = "committed"
  /\ GoTo(p, "failed")
  /\ UNCHANGED <<attempt, memory, sent, tables, announced, abandoned, fed>>

(* Mutation of Retry: one attempt too many. *)
RetryOnceMore(p) ==
  /\ pc[p] = "failed"
  /\ attempt[p] <= MaxRetries
  /\ attempt' = [attempt EXCEPT ![p] = @ + 1]
  /\ GoTo(p, "committing")
  /\ UNCHANGED <<memory, sent, tables, announced, abandoned, fed>>

(* Mutation of Retry: the attempts are not counted. *)
RetryUncounted(p) ==
  /\ pc[p] = "failed"
  /\ GoTo(p, "committing")
  /\ UNCHANGED <<attempt, memory, sent, tables, announced, abandoned, fed>>

(* Roll back, sleep, and try again in a new session. *)
Retry(p) ==
  /\ pc[p] = "failed"
  /\ attempt[p] < MaxRetries
  /\ attempt' = [attempt EXCEPT ![p] = @ + 1]
  /\ GoTo(p, "committing")
  /\ UNCHANGED <<memory, sent, tables, announced, abandoned, fed>>

(* commit() returned: broadcast the transaction, take the next one. *)
Finish(p) ==
  /\ pc[p] = "committed"
  /\ sent' = [sent EXCEPT ![p] = @ + 1]
  /\ Leave(p)
  /\ UNCHANGED <<memory, tables, announced, abandoned, fed>>

(* Mutation of GiveUp: it gives up one attempt early. *)
GiveUpEarly(p) ==
  /\ pc[p] = "failed"
  /\ attempt[p] >= MaxRetries - 1
  /\ sent' = [sent EXCEPT ![p] = @ + 1]
  /\ Abandon(p)
  /\ Leave(p)
  /\ UNCHANGED <<memory, tables, announced, fed>>

(* The last attempt failed: log, return normally, and broadcast all the same. *)
GiveUp(p) ==
  /\ pc[p] = "failed"
  /\ attempt[p] >= MaxRetries
  /\ sent' = [sent EXCEPT ![p] = @ + 1]
  /\ Abandon(p)
  /\ Leave(p)
  /\ UNCHANGED <<memory, tables, announced, fed>>

(* The 30 s timeout cancels the work, or the rollback itself raises: the
   exception skips the broadcast and process_transaction swallows it. *)
Abort(p) ==
  /\ pc[p] \in Waiting
  /\ Abandon(p)
  /\ Leave(p)
  /\ UNCHANGED <<memory, sent, tables, announced, fed>>

(* stop_pipeline at shutdown, or a crash: the process's memory is gone. *)
Terminate(p) ==
  /\ pc[p] # "down"
  /\ pc' = [pc EXCEPT ![p] = "down"]
  /\ cur' = [cur EXCEPT ![p] = None]
  /\ verdict' = [verdict EXCEPT ![p] = FALSE]
  /\ attempt' = [attempt EXCEPT ![p] = 0]
  /\ txBuf' = [txBuf EXCEPT ![p] = <<>>]
  /\ alertBuf' = [alertBuf EXCEPT ![p] = <<>>]
  /\ metrics' = [metrics EXCEPT ![p] = NoMetrics]
  /\ sent' = [sent EXCEPT ![p] = 0]
  /\ Abandon(p)
  /\ UNCHANGED <<tables, announced, fed>>

(* The worker stores a transaction it has scored, and no alert with it.  Its
   look-up asks for a primary key with a hash and finds nothing; the unique
   hash alone keeps the row single, and a failed insert changes nothing. *)
WorkerStores(t, flagged) ==
  /\ txRows[t] = <<>>
  /\ txRows' = [txRows EXCEPT
                  ![t] = Append(@, [flagged |-> flagged, by |-> Worker])]
  /\ UNCHANGED <<pc, cur, verdict, attempt, memory, sent, alertRows,
                 announced, abandoned, fed>>

(* What the event loop, the database and the timeout do for a process that
   has a transaction in hand. *)
Step(p) ==
  \/ CommitStores(p) \/ CommitFails(p) \/ AckLost(p) \/ Retry(p)
  \/ Finish(p) \/ GiveUp(p) \/ Abort(p)

Next ==
  \/ \E p \in Procs :
       \/ Start(p)
       \/ \E t \in Txs, flagged \in BOOLEAN : Process(p, t, flagged)
       \/ ScoringFails(p)
       \/ Step(p)
       \/ Terminate(p)
  \/ \E t \in WorkerTxs, flagged \in BOOLEAN : WorkerStores(t, flagged)

Spec == Init /\ [][Next]_vars

(* Each process's event loop runs on by itself; nothing else is promised. *)
FairSpec == Spec /\ \A p \in Procs : WF_vars(Step(p))

-----------------------------------------------------------------------------
Busy(p) == pc[p] \in Waiting

(* Every variable has its type; a deque never outgrows its maxlen and no
   save makes more than MaxRetries attempts. *)
TypeOK ==
  /\ pc \in [Procs -> {"down", "idle"} \cup Waiting]
  /\ cur \in [Procs -> Txs \cup {None}]
  /\ verdict \in [Procs -> BOOLEAN]
  /\ attempt \in [Procs -> 0..MaxRetries]
  /\ txBuf \in [Procs -> Seq(Txs)]
  /\ alertBuf \in [Procs -> Seq(Txs)]
  /\ \A p \in Procs : Len(txBuf[p]) <= TxBufMax /\ Len(alertBuf[p]) <= AlertBufMax
  /\ metrics \in [Procs -> [processed : Nat, flagged : Nat, alerts : Nat]]
  /\ sent \in [Procs -> Nat]
  /\ txRows \in [Txs -> Seq(Row)]
  /\ alertRows \subseteq Txs
  /\ announced \subseteq Txs
  /\ abandoned \subseteq Txs
  /\ fed \in 0..MaxInputs
  /\ \A p \in Procs : (Busy(p) => cur[p] \in Txs) /\ (verdict[p] => Busy(p))

CountsMatch(p) ==
  /\ metrics[p].alerts = metrics[p].flagged
  /\ metrics[p].flagged <= metrics[p].processed
  /\ Len(txBuf[p]) = IF metrics[p].processed < TxBufMax
                     THEN metrics[p].processed ELSE TxBufMax
  /\ Len(alertBuf[p]) = IF metrics[p].alerts < AlertBufMax
                        THEN metrics[p].alerts ELSE AlertBufMax
  /\ Busy(p) => Head(txBuf[p]) = cur[p]

(* Lines 128-145 update counters and buffers in one step whatever happens to
   the save later: alerts equal flagged transactions, each deque holds as many
   entries as were counted up to its maxlen, and the transaction being saved is
   the newest entry, so a client that connects during the save gets it in its
   catch-up. *)
CountersMatchBuffers == \A p \in Procs : CountsMatch(p)

(* _broadcast_alert (146) precedes _save_to_db (151): no alert row exists that
   some process has not announced, however the processes interleave. *)
AnnouncedBeforeStored == alertRows \subseteq announced

(* An announced alert is in the table, or some process is still saving it, or
   its save was cut short or given up: a save that ends normally never drops
   the alert of a flagged transaction. *)
NoAlertSilentlyLost ==
  \A t \in announced :
    \/ t \in alertRows \cup abandoned
    \/ \E p \in Procs : Busy(p) /\ cur[p] = t /\ verdict[p]

(* _broadcast_tx (153) runs after _save_to_db has settled: a step that sends a
   transaction to the stream's clients finds its row in the table, or follows
   MaxRetries failed attempts. *)
BroadcastOnlySettled ==
  [][\A p \in Procs :
       sent'[p] > sent[p] =>
         txRows[cur[p]] # <<>> \/ attempt[p] = MaxRetries]_vars

(* The retry bound alone, without the timeout, ends every save: a process with
   a transaction in hand goes back to the listener or down. *)
EveryTxLeavesPipeline ==
  \A p \in Procs : Busy(p) ~> ~Busy(p)

(* The module's first lines (pipeline.py:4) give the order "DB write ->
   Broadcast": nothing is broadcast that the database does not hold, unless
   the write was abandoned. *)
DbWriteBeforeBroadcast ==
  announced \subseteq {t \in Txs : txRows[t] # <<>>} \cup abandoned

(***************************************************************************)
(* The tables implement TxLedger.  A row and an alert that do not belong   *)
(* together would show as "torn", which the ledger does not know.          *)
(***************************************************************************)
VerdictOf(t, row) ==
  IF row.by = Worker
  THEN IF t \in alertRows THEN "torn" ELSE "scored"
  ELSE IF row.flagged
       THEN IF t \in alertRows THEN "alerted" ELSE "torn"
       ELSE IF t \in alertRows THEN "torn" ELSE "clean"

ledger == [t \in Txs |-> [i \in 1..Len(txRows[t]) |-> VerdictOf(t, txRows[t][i])]]

Ledger == INSTANCE TxLedger WITH Txs <- Txs, ledger <- ledger

(* Concurrent processes, retries after a lost acknowledgement, re-delivered
   transactions and the worker together write every hash at most once, flagged
   rows of the pipeline with their alert in the same step, and never change it. *)
LedgerSpec == Ledger!Spec
=============================================================================
