------------------------------ MODULE WsStream ------------------------------
(***************************************************************************)
(* The WebSocket endpoints /ws/stream and /ws/alerts                       *)
(* (app/routes/websocket.py) of one API process, fed by its pipeline's     *)
(* buffers and broadcasts (app/blockchain/pipeline.py).  A connection      *)
(* subscribes a callback that fills a bounded queue, replays the newest    *)
(* buffer entries to the client, and then a send loop drains the queue     *)
(* while a receive loop waits for the client to go.                        *)
(*                                                                         *)
(* Messages are numbered in the order the pipeline processes transactions; *)
(* an alert has the number of its transaction.  A step is the code between *)
(* two suspension points: callbacks never suspend, so a broadcast is one   *)
(* step, and a transaction's alert is buffered and broadcast in the step   *)
(* that buffers the transaction, while the transaction itself is broadcast *)
(* after its save.  What the pipeline has in hand, and not a choice made   *)
(* when it is processed, says whether an alert will come of it.            *)
(***************************************************************************)
EXTENDS Integers, Sequences, SequencesExt

CONSTANTS
  StreamSessions, \* connections to /ws/stream
  AlertSessions,  \* connections to /ws/alerts
  Readers,        \* the connections whose client reads on; the others may stop
  QueueMax,       \* [Channels -> Nat]: maxsize of a connection's queue
  CatchupMax,     \* [Channels -> Nat]: entries replayed to a new connection
  BufMax,         \* [Channels -> Nat]: maxlen of _tx_buffer and _alert_buffer
  MaxTx           \* bound: transactions processed

Channels == {"tx", "alert"}
Sessions == StreamSessions \cup AlertSessions

ASSUME SessionsAssumption == StreamSessions \cap AlertSessions = {}
ASSUME ReadersAssumption == Readers \subseteq Sessions
ASSUME SizesAssumption ==
  /\ QueueMax \in [Channels -> Nat \ {0}]
  /\ CatchupMax \in [Channels -> Nat \ {0}]
  /\ BufMax \in [Channels -> Nat \ {0}]
  /\ MaxTx \in Nat

VARIABLES
  hand,     \* the transaction the chain has yielded: is it flagged?  Or empty
  made,     \* transactions processed so far
  saving,   \* the one being saved and not yet broadcast, or 0
  buf,      \* per channel, newest first
  subs,     \* connections whose callback is in _tx_subscribers, _alert_subscribers
  phase,    \* where a connection's handler is
  catchup,  \* what the handler has still to replay
  queue,    \* the connection's asyncio.Queue
  got,      \* history: what the handler gave to send_text, in order
  bcast,    \* history: messages broadcast per channel
  joined,   \* history: broadcasts and transaction in flight at subscription
  dropped   \* history: messages that found the queue full

pipeline == <<hand, made, saving, buf, bcast>>
vars == <<hand, made, saving, buf, subs, phase, catchup, queue, got, bcast, joined, dropped>>

Channel(s) == IF s \in StreamSessions THEN "tx" ELSE "alert"
Nobody == [broadcasts |-> 0, inFlight |-> 0, oldest |-> 0]

Init ==
  /\ hand = <<>>
  /\ made = 0
  /\ saving = 0
  /\ buf = [ch \in Channels |-> <<>>]
  /\ subs = {}
  /\ phase = [s \in Sessions |-> "new"]
  /\ catchup = [s \in Sessions |-> <<>>]
  /\ queue = [s \in Sessions |-> <<>>]
  /\ got = [s \in Sessions |-> <<>>]
  /\ bcast = [ch \in Channels |-> <<>>]
  /\ joined = [s \in Sessions |-> Nobody]
  /\ dropped = [s \in Sessions |-> {}]

Newest(seq, n) == SubSeq(seq, 1, IF Len(seq) < n THEN Len(seq) ELSE n)

(***************************************************************************)
(* Broadcasting: enqueue every subscriber's copy, dropping it when that    *)
(* queue is full.  put_nowait never waits and its QueueFull is swallowed,  *)
(* so no callback ever lands on the dead list.                             *)
(***************************************************************************)
(* Mutation of Enqueue: the oldest message makes room. *)
EnqueueEvicting(q, m, max) == IF Len(q) < max THEN Append(q, m) ELSE Append(Tail(q), m)

(* Mutation of Enqueue: put_nowait on an unbounded queue. *)
EnqueueUnbounded(q, m, max) == Append(q, m)

Enqueue(q, m, max) == IF Len(q) < max THEN Append(q, m) ELSE q

(* Mutation of Receivers: one subscriber set for both endpoints. *)
ReceiversOfBoth(ch) == subs

Receivers(ch) == {s \in subs : Channel(s) = ch}

(* Mutation of Deliver: the callback awaits queue.put, so the broadcast waits
   for room in every queue. *)
DeliverAwaiting(ch, m) ==
  /\ \A s \in Receivers(ch) : Len(queue[s]) < QueueMax[ch]
  /\ queue' = [s \in Sessions |-> IF s \in Receivers(ch) THEN Append(queue[s], m) ELSE queue[s]]
  /\ bcast' = [bcast EXCEPT ![ch] = Append(@, m)]
  /\ UNCHANGED dropped

Deliver(ch, m) ==
  /\ queue' = [s \in Sessions |-> IF s \in Receivers(ch)
                                  THEN Enqueue(queue[s], m, QueueMax[ch]) ELSE queue[s]]
  /\ dropped' = [s \in Sessions |->
                   IF s \in Receivers(ch) /\ Len(queue[s]) >= QueueMax[ch]
                   THEN dropped[s] \cup {m} ELSE dropped[s]]
  /\ bcast' = [bcast EXCEPT ![ch] = Append(@, m)]

Keep == UNCHANGED <<queue, dropped, bcast>>

(* The chain yields the loop its next transaction. *)
Yield(flagged) ==
  /\ hand = <<>>
  /\ saving = 0
  /\ made < MaxTx
  /\ hand' = <<flagged>>
  /\ UNCHANGED <<made, saving, buf, subs, phase, catchup, queue, got, bcast, joined, dropped>>

(* Process the transaction in hand up to its save: buffer it; buffer and
   broadcast its alert when it is flagged. *)
Process(flagged) ==
  LET n == made + 1
      entry == [tx |-> TRUE, alert |-> flagged]
  IN  /\ hand = <<flagged>>
      /\ hand' = <<>>
      /\ made' = n
      /\ saving' = n
      /\ buf' = [ch \in Channels |-> IF entry[ch] THEN Newest(<<n>> \o buf[ch], BufMax[ch])
                                     ELSE buf[ch]]
      /\ IF flagged THEN Deliver("alert", n) ELSE Keep
      /\ UNCHANGED <<subs, phase, catchup, got, joined>>

(* The save has settled: broadcast the transaction. *)
Broadcast ==
  /\ saving # 0
  /\ Deliver("tx", saving)
  /\ saving' = 0
  /\ UNCHANGED <<hand, made, buf, subs, phase, catchup, got, joined>>

(* The save timed out or raised: the transaction is never broadcast. *)
SaveAborts ==
  /\ saving # 0
  /\ saving' = 0
  /\ UNCHANGED <<hand, made, buf, subs, phase, catchup, got, joined>>
  /\ Keep

(***************************************************************************)
(* A connection.  Subscribing and copying the recent entries are one step. *)
(***************************************************************************)
Subscribed(s) == subs \cup {s}
Unsubscribed(s) == subs \ {s}

Snapshot(s) == Newest(buf[Channel(s)], CatchupMax[Channel(s)])

(* Mutation of Connect: the callback is registered when the replay is over. *)
ConnectUnsubscribed(s) ==
  /\ phase[s] = "new"
  /\ phase' = [phase EXCEPT ![s] = "catchup"]
  /\ catchup' = [catchup EXCEPT ![s] = Snapshot(s)]
  /\ joined' = [joined EXCEPT ![s] =
                  [broadcasts |-> Len(bcast[Channel(s)]), inFlight |-> saving,
                   oldest |-> IF Snapshot(s) = <<>> THEN 0 ELSE Last(Snapshot(s))]]
  /\ UNCHANGED <<pipeline, subs, queue, got, dropped>>

Connect(s) ==
  /\ phase[s] = "new"
  /\ phase' = [phase EXCEPT ![s] = "catchup"]
  /\ subs' = Subscribed(s)
  /\ catchup' = [catchup EXCEPT ![s] = Snapshot(s)]
  /\ joined' = [joined EXCEPT ![s] =
                  [broadcasts |-> Len(bcast[Channel(s)]), inFlight |-> saving,
                   oldest |-> IF Snapshot(s) = <<>> THEN 0 ELSE Last(Snapshot(s))]]
  /\ UNCHANGED <<pipeline, queue, got, dropped>>

SendCatchup(s) ==
  /\ phase[s] = "catchup"
  /\ catchup[s] # <<>>
  /\ got' = [got EXCEPT ![s] = Append(@, Head(catchup[s]))]
  /\ catchup' = [catchup EXCEPT ![s] = Tail(@)]
  /\ UNCHANGED <<pipeline, subs, phase, queue, joined, dropped>>

(* The client goes away during the replay: the send_text under way raises
   outside the try, the handler ends, and the callback stays subscribed. *)
CatchupBreaks(s) ==
  /\ phase[s] = "catchup"
  /\ got[s] # <<>>
  /\ phase' = [phase EXCEPT ![s] = "broken"]
  /\ catchup' = [catchup EXCEPT ![s] = <<>>]
  /\ UNCHANGED <<pipeline, subs, queue, got, joined, dropped>>

GoLive(s) ==
  /\ phase[s] = "catchup"
  /\ catchup[s] = <<>>
  /\ phase' = [phase EXCEPT ![s] = "live"]
  /\ UNCHANGED <<pipeline, subs, catchup, queue, got, joined, dropped>>

SendLive(s) ==
  /\ phase[s] = "live"
  /\ queue[s] # <<>>
  /\ got' = [got EXCEPT ![s] = Append(@, Head(queue[s]))]
  /\ queue' = [queue EXCEPT ![s] = Tail(@)]
  /\ UNCHANGED <<pipeline, subs, phase, catchup, joined, dropped>>

(* Mutation of Disconnect: the finally clause is missing. *)
DisconnectSubscribed(s) ==
  /\ phase[s] = "live"
  /\ phase' = [phase EXCEPT ![s] = "closed"]
  /\ queue' = [queue EXCEPT ![s] = <<>>]
  /\ UNCHANGED <<pipeline, subs, catchup, got, joined, dropped>>

(* Either loop ends, for whatever reason: the other is cancelled and the
   callback unsubscribed; what was queued is lost with the handler. *)
Disconnect(s) ==
  /\ phase[s] = "live"
  /\ phase' = [phase EXCEPT ![s] = "closed"]
  /\ subs' = Unsubscribed(s)
  /\ queue' = [queue EXCEPT ![s] = <<>>]
  /\ UNCHANGED <<pipeline, catchup, got, joined, dropped>>

Next ==
  \/ \E flagged \in BOOLEAN : Yield(flagged) \/ Process(flagged)
  \/ Broadcast
  \/ SaveAborts
  \/ \E s \in Sessions :
       Connect(s) \/ SendCatchup(s) \/ CatchupBreaks(s) \/ GoLive(s)
         \/ SendLive(s) \/ Disconnect(s)

Spec == Init /\ [][Next]_vars

(* The pipeline's task takes its next step whenever it can, a save settles,
   and the handler of a client that reads on keeps sending.  The chain need
   not yield, and nothing is assumed of the other clients. *)
FairSpec ==
  /\ Spec
  /\ WF_vars(\E flagged \in BOOLEAN : Process(flagged))
  /\ WF_vars(Broadcast \/ SaveAborts)
  /\ \A s \in Readers : WF_vars(SendCatchup(s) \/ GoLive(s) \/ SendLive(s))

-----------------------------------------------------------------------------
Messages == 1..MaxTx
Open(s) == phase[s] \in {"catchup", "live"}

(* Every variable has its type; no queue or buffer outgrows its limit. *)
TypeOK ==
  /\ hand \in {<<>>, <<TRUE>>, <<FALSE>>}
  /\ made \in 0..MaxTx
  /\ saving \in 0..MaxTx
  /\ buf \in [Channels -> Seq(Messages)]
  /\ \A ch \in Channels : Len(buf[ch]) <= BufMax[ch]
  /\ subs \subseteq Sessions
  /\ phase \in [Sessions -> {"new", "catchup", "live", "broken", "closed"}]
  /\ catchup \in [Sessions -> Seq(Messages)]
  /\ queue \in [Sessions -> Seq(Messages)]
  /\ \A s \in Sessions : Len(queue[s]) <= QueueMax[Channel(s)]
  /\ got \in [Sessions -> Seq(Messages)]
  /\ bcast \in [Channels -> Seq(Messages)]
  /\ joined \in [Sessions -> [broadcasts : Nat, inFlight : 0..MaxTx, oldest : 0..MaxTx]]
  /\ dropped \in [Sessions -> SUBSET Messages]

(* The queue is FIFO and loses only what found it full: what a connection has
   received since the replay, then its queue, is every broadcast since its
   subscription but the dropped ones, in the order of processing. *)
LiveIsFifo ==
  \A s \in Sessions : phase[s] = "live" =>
    LET sent == bcast[Channel(s)]
        kept == {sent[i] : i \in (joined[s].broadcasts + 1)..Len(sent)} \ dropped[s]
        both == got[s] \o queue[s]
        live == SubSeq(both, Len(both) - Cardinality(kept) + 1, Len(both))
    IN  ToSet(live) = kept /\ \A i, j \in 1..Len(live) : i < j => live[i] < live[j]

(* Subscribing before the replay (line 55) leaves no gap between replay and
   live messages: a live connection has received, has queued or has dropped
   every broadcast since its oldest replayed entry. *)
NoGapAtHandover ==
  \A s \in Sessions : phase[s] = "live" =>
    \A m \in ToSet(bcast[Channel(s)]) :
      m >= joined[s].oldest =>
        m \in ToSet(got[s]) \cup ToSet(queue[s]) \cup dropped[s]

(* An alert is buffered and broadcast in one step, so no connection to
   /ws/alerts receives the same alert twice; a connection to /ws/stream
   receives at most one message twice: the transaction that was being saved
   when it connected, once in the replay and once live. *)
OnlyInFlightTwice ==
  \A s \in Sessions : \A i, j \in 1..Len(got[s]) :
    i # j /\ got[s][i] = got[s][j] =>
      s \in StreamSessions /\ got[s][i] = joined[s].inFlight

(* A callback outlives its connection only when the replay broke: every other
   way out of the handler unsubscribes. *)
OnlyBrokenReplayLeaks ==
  subs = {s \in Sessions : Open(s) \/ phase[s] = "broken"}

(* What the pipeline did with message m, on the channel of s. *)
NotSent(s, m) == m <= made /\ m # saving /\ m \notin ToSet(bcast[Channel(s)])

(* A client that stops reading holds up neither the pipeline nor the other
   clients (websocket.py:51-53, pipeline.py:246-248): whenever a transaction is
   in hand while the client of s reads, that client is sent it (its alert), or
   lost it because its own queue was full, or has left, or nobody was sent it
   (the save was aborted, no alert was due). *)
ReadersAreServed ==
  \A s \in Readers : \A m \in Messages :
    hand # <<>> /\ m = made + 1 /\ Open(s) ~>
      m \in ToSet(got[s]) \cup dropped[s] \/ ~Open(s) \/ NotSent(s, m)
=============================================================================
