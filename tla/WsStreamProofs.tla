--------------------------- MODULE WsStreamProofs ---------------------------
(***************************************************************************)
(* What a WebSocket connection misses and what it leaves behind, for any   *)
(* connections and any sizes of queues, replays and buffers; and what the  *)
(* browser's end of it keeps open, for any numbers of sockets and mounts.  *)
(***************************************************************************)
EXTENDS WsStream, WsClient, TLAPS, FiniteSetTheorems, SequenceTheorems, WellFoundedInduction

Phases == {"new", "catchup", "live", "broken", "closed"}

StreamType ==
  /\ made \in Nat /\ saving \in Nat
  /\ buf \in [Channels -> Seq(Nat)]
  /\ bcast \in [Channels -> Seq(Nat)]
  /\ phase \in [Sessions -> Phases]
  /\ catchup \in [Sessions -> Seq(Nat)]
  /\ queue \in [Sessions -> Seq(Nat)]
  /\ got \in [Sessions -> Seq(Nat)]
  /\ dropped \in [Sessions -> SUBSET Nat]
  /\ joined \in [Sessions -> [broadcasts : Nat, inFlight : Nat, oldest : Nat]]

(* What has been broadcast, or will be, was buffered; and the buffer holds all
   of it from any of its entries on. *)
Due(ch) == ToSet(bcast[ch]) \cup {m \in {saving} : ch = "tx" /\ saving # 0}

Covers(seq, m) ==
  /\ seq # <<>>
  /\ \A k \in 1..Len(seq) : m >= seq[k] => \E j \in 1..k : seq[j] = m

BufferInv == \A ch \in Channels : \A m \in Due(ch) : m <= made /\ Covers(buf[ch], m)

(* A connection has, or will replay or receive, or has dropped, all that was
   broadcast since its oldest replayed entry. *)
Accounted(s) == ToSet(got[s]) \cup ToSet(catchup[s]) \cup ToSet(queue[s]) \cup dropped[s]

HandoverInv ==
  \A s \in Sessions :
    /\ phase[s] = "live" => catchup[s] = <<>>
    /\ Open(s) => \A m \in ToSet(bcast[Channel(s)]) :
         m >= joined[s].oldest => m \in Accounted(s)

StreamInv == StreamType /\ OnlyBrokenReplayLeaks /\ BufferInv /\ HandoverInv

(* What a step keeps that only yields a transaction, or does nothing. *)
shared == <<made, saving, buf, subs, phase, catchup, queue, got, bcast, joined, dropped>>

(* A transaction is in hand only between two saves. *)
HandInv ==
  /\ hand \in {<<>>, <<TRUE>>, <<FALSE>>}
  /\ hand # <<>> => saving = 0 /\ made < MaxTx

LEMMA HandInit == Init => HandInv
  BY DEF Init, HandInv

LEMMA HandStep == HandInv /\ [Next]_vars => HandInv'
<1> SUFFICES ASSUME HandInv, [Next]_vars PROVE HandInv'
  OBVIOUS
<1>1. ASSUME NEW flagged \in BOOLEAN, Yield(flagged) PROVE HandInv'
  BY <1>1 DEF Yield, HandInv
<1>2. ASSUME NEW flagged \in BOOLEAN, Process(flagged) PROVE HandInv'
  BY <1>2 DEF Process, HandInv
<1>3. CASE Broadcast \/ SaveAborts
  BY <1>3 DEF Broadcast, SaveAborts, HandInv
<1>4. ASSUME NEW s \in Sessions, Connect(s) \/ SendCatchup(s) \/ CatchupBreaks(s)
                                  \/ GoLive(s) \/ SendLive(s) \/ Disconnect(s)
      PROVE  HandInv'
  <2>1. UNCHANGED <<hand, saving, made>>
    BY <1>4 DEF Connect, SendCatchup, CatchupBreaks, GoLive, SendLive, Disconnect, pipeline
  <2> QED BY <2>1 DEF HandInv
<1>5. CASE UNCHANGED vars
  BY <1>5 DEF vars, HandInv
<1> QED BY <1>1, <1>2, <1>3, <1>4, <1>5 DEF Next

LEMMA YieldKeeps ==
  ASSUME [Next]_vars,
         ~((\E flagged \in BOOLEAN : Process(flagged)) \/ Broadcast \/ SaveAborts),
         ~(\E s \in Sessions : Connect(s) \/ SendCatchup(s) \/ CatchupBreaks(s)
                                \/ GoLive(s) \/ SendLive(s) \/ Disconnect(s))
  PROVE  UNCHANGED shared
  BY DEF Next, Yield, vars, shared

LEMMA StreamInit == Init => StreamInv
<1> SUFFICES ASSUME Init PROVE StreamInv
  OBVIOUS
<1>1. StreamType
  BY DEF Init, StreamType, Nobody, Phases
<1>2. OnlyBrokenReplayLeaks
  BY DEF Init, OnlyBrokenReplayLeaks, Open
<1>3. BufferInv
  BY DEF Init, BufferInv, Due, ToSet
<1>4. HandoverInv
  BY DEF Init, HandoverInv, Open
<1> QED BY <1>1, <1>2, <1>3, <1>4 DEF StreamInv

(***************************************************************************)
(* Sequences.                                                              *)
(***************************************************************************)
LEMMA AppendSet ==
  ASSUME NEW q \in Seq(Nat), NEW m \in Nat
  PROVE  Append(q, m) \in Seq(Nat) /\ ToSet(Append(q, m)) = ToSet(q) \cup {m}
<1> DEFINE t == Append(q, m)
<1>1. /\ t \in Seq(Nat) /\ DOMAIN t = 1..(Len(q) + 1) /\ DOMAIN q = 1..Len(q)
      /\ Len(q) \in Nat /\ t[Len(q) + 1] = m
      /\ \A i \in 1..Len(q) : t[i] = q[i]
  OBVIOUS
<1> HIDE DEF t
<1>2. \A i \in 1..(Len(q) + 1) : i \in 1..Len(q) \/ i = Len(q) + 1
  BY <1>1
<1>3. {t[i] : i \in DOMAIN t} = {q[i] : i \in DOMAIN q} \cup {m}
  BY <1>1, <1>2
<1> QED BY <1>1, <1>3 DEF ToSet, t

LEMMA TailSet ==
  ASSUME NEW q \in Seq(Nat), q # <<>>
  PROVE  /\ Head(q) \in Nat /\ Tail(q) \in Seq(Nat)
         /\ ToSet(q) = {Head(q)} \cup ToSet(Tail(q))
<1>1. Head(q) = q[1] /\ Len(q) >= 1 /\ Len(Tail(q)) = Len(q) - 1
      /\ \A i \in 1..Len(Tail(q)) : Tail(q)[i] = q[i + 1]
  OBVIOUS
<1>2. ToSet(q) \subseteq {Head(q)} \cup ToSet(Tail(q))
  <2> SUFFICES ASSUME NEW i \in 1..Len(q)
               PROVE  q[i] = Head(q) \/ \E j \in 1..Len(Tail(q)) : q[i] = Tail(q)[j]
    <3>1. DOMAIN q = 1..Len(q) /\ DOMAIN Tail(q) = 1..Len(Tail(q))
      OBVIOUS
    <3> QED BY <3>1 DEF ToSet
  <2>1. CASE i = 1
    BY <1>1, <2>1
  <2>2. CASE i # 1
    <3>1. i - 1 \in 1..Len(Tail(q)) /\ q[i] = Tail(q)[i - 1]
      BY <1>1, <2>2
    <3> QED BY <3>1
  <2> QED BY <2>1, <2>2
<1>3. {Head(q)} \cup ToSet(Tail(q)) \subseteq ToSet(q)
  BY <1>1 DEF ToSet
<1> QED BY <1>2, <1>3

LEMMA NewestPrefix ==
  ASSUME NEW seq \in Seq(Nat), NEW n \in Nat \ {0}
  PROVE  /\ Newest(seq, n) \in Seq(Nat) /\ Len(Newest(seq, n)) <= Len(seq)
         /\ \A i \in 1..Len(Newest(seq, n)) : Newest(seq, n)[i] = seq[i]
         /\ seq # <<>> => Newest(seq, n) # <<>>
<1> DEFINE k == IF Len(seq) < n THEN Len(seq) ELSE n
<1>1. k \in 0..Len(seq) /\ (seq # <<>> => k > 0) /\ Newest(seq, n) = SubSeq(seq, 1, k)
  BY DEF Newest
<1> HIDE DEF k
<1> DEFINE t == SubSeq(seq, 1, k)
<1>2. /\ t \in Seq(Nat) /\ Len(t) = k
      /\ \A i \in 1..k : t[i] = seq[i]
  BY <1>1
<1> HIDE DEF t
<1>3. Len(t) <= Len(seq) /\ (seq # <<>> => t # <<>>)
  BY <1>1, <1>2
<1>4. Newest(seq, n) = t
  BY <1>1 DEF t
<1> QED BY <1>2, <1>3, <1>4

(* A prefix covers what the whole covers, and a newer entry in front is covered
   with the rest. *)
LEMMA CoversPrefix ==
  ASSUME NEW seq \in Seq(Nat), NEW n \in Nat \ {0}, NEW m \in Nat, Covers(seq, m)
  PROVE  Covers(Newest(seq, n), m)
<1> DEFINE t == Newest(seq, n)
<1>1. /\ t \in Seq(Nat) /\ Len(t) <= Len(seq) /\ t # <<>>
      /\ \A i \in 1..Len(t) : t[i] = seq[i]
  BY NewestPrefix DEF Covers
<1> HIDE DEF t
<1>2. \A k \in 1..Len(t) : k \in 1..Len(seq) /\ \A j \in 1..k : j \in 1..Len(t)
  BY <1>1
<1> QED BY <1>1, <1>2 DEF Covers, t

LEMMA CoversPush ==
  ASSUME NEW seq \in Seq(Nat), NEW n \in Nat, NEW m \in Nat, (m < n /\ Covers(seq, m)) \/ m = n
  PROVE  <<n>> \o seq \in Seq(Nat) /\ Covers(<<n>> \o seq, m)
<1> DEFINE t == <<n>> \o seq
<1>1. /\ t \in Seq(Nat) /\ t # <<>> /\ Len(t) = Len(seq) + 1 /\ t[1] = n
      /\ \A i \in 1..Len(seq) : t[i + 1] = seq[i]
  OBVIOUS
<1> HIDE DEF t
<1>2. ASSUME NEW k \in 1..Len(t), m >= t[k]
      PROVE  \E j \in 1..k : t[j] = m
  <2>1. CASE m = n
    BY <1>1, <2>1
  <2>2. CASE m < n /\ Covers(seq, m)
    <3>1. k # 1
      BY <1>1, <1>2, <2>2
    <3>2. k - 1 \in 1..Len(seq) /\ t[k] = seq[k - 1]
      <4>1. k - 1 \in 1..Len(seq)
        BY <1>1, <3>1
      <4>2. t[(k - 1) + 1] = seq[k - 1]
        BY <1>1, <4>1
      <4> QED BY <4>1, <4>2
    <3>3. PICK j \in 1..(k - 1) : seq[j] = m
      BY <1>2, <2>2, <3>2 DEF Covers
    <3>4. j \in 1..Len(seq) /\ j + 1 \in 1..k
      BY <3>2, <3>3
    <3> QED BY <1>1, <3>3, <3>4
  <2> QED BY <2>1, <2>2
<1> QED BY <1>1, <1>2 DEF Covers, t

(***************************************************************************)
(* Broadcasts.                                                             *)
(***************************************************************************)
LEMMA DeliverEffect ==
  ASSUME StreamType, NEW ch \in Channels, NEW m \in Nat, Deliver(ch, m)
  PROVE  /\ bcast' \in [Channels -> Seq(Nat)]
         /\ queue' \in [Sessions -> Seq(Nat)]
         /\ dropped' \in [Sessions -> SUBSET Nat]
         /\ ToSet(bcast'[ch]) = ToSet(bcast[ch]) \cup {m}
         /\ \A c \in Channels : c # ch => bcast'[c] = bcast[c]
         /\ \A s \in Sessions :
              /\ ToSet(queue[s]) \subseteq ToSet(queue'[s])
              /\ dropped[s] \subseteq dropped'[s]
              /\ s \in Receivers(ch) => m \in ToSet(queue'[s]) \cup dropped'[s]
<1>1. /\ bcast' = [bcast EXCEPT ![ch] = Append(bcast[ch], m)]
      /\ queue' = [s \in Sessions |-> IF s \in Receivers(ch)
                                     THEN Enqueue(queue[s], m, QueueMax[ch]) ELSE queue[s]]
      /\ dropped' = [s \in Sessions |->
                       IF s \in Receivers(ch) /\ Len(queue[s]) >= QueueMax[ch]
                       THEN dropped[s] \cup {m} ELSE dropped[s]]
  BY DEF Deliver
<1>2. bcast[ch] \in Seq(Nat) /\ \A s \in Sessions : queue[s] \in Seq(Nat)
  BY DEF StreamType
<1>3. /\ Append(bcast[ch], m) \in Seq(Nat)
      /\ ToSet(Append(bcast[ch], m)) = ToSet(bcast[ch]) \cup {m}
  BY <1>2, AppendSet
<1>4. /\ bcast' \in [Channels -> Seq(Nat)]
      /\ ToSet(bcast'[ch]) = ToSet(bcast[ch]) \cup {m}
      /\ \A c \in Channels : c # ch => bcast'[c] = bcast[c]
  BY <1>1, <1>3 DEF StreamType
<1>5. dropped' \in [Sessions -> SUBSET Nat]
  BY <1>1 DEF StreamType
<1>6. ASSUME NEW s \in Sessions
      PROVE  /\ queue'[s] \in Seq(Nat)
             /\ ToSet(queue[s]) \subseteq ToSet(queue'[s])
             /\ dropped[s] \subseteq dropped'[s]
             /\ s \in Receivers(ch) => m \in ToSet(queue'[s]) \cup dropped'[s]
  <2>1. /\ Append(queue[s], m) \in Seq(Nat)
        /\ ToSet(Append(queue[s], m)) = ToSet(queue[s]) \cup {m}
    BY <1>2, AppendSet
  <2>2. CASE s \in Receivers(ch) /\ Len(queue[s]) < QueueMax[ch]
    <3>1. queue'[s] = Append(queue[s], m)
      BY <1>1, <2>2 DEF Enqueue
    <3>2. dropped[s] \subseteq dropped'[s]
      BY <1>1
    <3> QED BY <2>1, <3>1, <3>2
  <2>3. CASE s \in Receivers(ch) /\ ~(Len(queue[s]) < QueueMax[ch])
    <3>1. Len(queue[s]) >= QueueMax[ch]
      BY <1>2, <2>3, SizesAssumption
    <3>2. queue'[s] = queue[s] /\ dropped'[s] = dropped[s] \cup {m}
      BY <1>1, <2>3, <3>1 DEF Enqueue
    <3> QED BY <1>2, <3>2
  <2>4. CASE s \notin Receivers(ch)
    BY <1>1, <1>2, <2>4
  <2> QED BY <2>2, <2>3, <2>4
<1>7. queue' \in [Sessions -> Seq(Nat)]
  BY <1>1, <1>6
<1> QED BY <1>4, <1>5, <1>6, <1>7

(* No connection is left without a message that is broadcast. *)
LEMMA HandoverDeliver ==
  ASSUME StreamType, OnlyBrokenReplayLeaks, HandoverInv,
         NEW ch \in Channels, NEW m \in Nat, Deliver(ch, m),
         UNCHANGED <<phase, catchup, got, joined>>
  PROVE  HandoverInv'
<1>1. /\ ToSet(bcast'[ch]) = ToSet(bcast[ch]) \cup {m}
      /\ \A c \in Channels : c # ch => bcast'[c] = bcast[c]
      /\ \A s \in Sessions :
           /\ ToSet(queue[s]) \subseteq ToSet(queue'[s])
           /\ dropped[s] \subseteq dropped'[s]
           /\ s \in Receivers(ch) => m \in ToSet(queue'[s]) \cup dropped'[s]
  BY DeliverEffect
<1>2. ASSUME NEW s \in Sessions, Open(s), NEW n \in ToSet(bcast'[Channel(s)]),
             n >= joined[s].oldest
      PROVE  n \in Accounted(s)'
  <2>1. Accounted(s) \subseteq Accounted(s)'
    BY <1>1 DEF Accounted
  <2>2. CASE n \in ToSet(bcast[Channel(s)])
    BY <1>2, <2>1, <2>2 DEF HandoverInv
  <2>3. CASE n \notin ToSet(bcast[Channel(s)])
    <3>1. Channel(s) = ch /\ n = m
      BY <1>1, <1>2, <2>3 DEF Channel, Channels
    <3>2. s \in Receivers(ch)
      BY <1>2, <3>1 DEF Receivers, OnlyBrokenReplayLeaks
    <3> QED BY <1>1, <3>1, <3>2 DEF Accounted
  <2> QED BY <2>2, <2>3
<1>3. \A s \in Sessions : Channel(s)' = Channel(s) /\ Open(s)' = Open(s)
  BY DEF Channel, Open
<1> QED BY <1>2, <1>3 DEF HandoverInv, Channel

(***************************************************************************)
(* The pipeline's steps.                                                   *)
(***************************************************************************)
LEMMA ProcessStep ==
  ASSUME StreamInv, HandInv, NEW flagged \in BOOLEAN, Process(flagged)
  PROVE  StreamInv'
<1> DEFINE n == made + 1
           entry == [tx |-> TRUE, alert |-> flagged]
<1>1. /\ saving = 0 /\ made' = n /\ saving' = n
      /\ buf' = [ch \in Channels |-> IF entry[ch] THEN Newest(<<n>> \o buf[ch], BufMax[ch])
                                     ELSE buf[ch]]
      /\ UNCHANGED <<subs, phase, catchup, got, joined>>
      /\ IF flagged THEN Deliver("alert", n) ELSE Keep
  BY DEF Process, HandInv
<1>2. StreamType /\ OnlyBrokenReplayLeaks /\ BufferInv /\ HandoverInv
  BY DEF StreamInv
<1>3. n \in Nat /\ n > 0 /\ made \in Nat /\ made < n
  BY <1>2 DEF StreamType
<1> HIDE DEF n
<1>4. /\ bcast' \in [Channels -> Seq(Nat)]
      /\ queue' \in [Sessions -> Seq(Nat)]
      /\ dropped' \in [Sessions -> SUBSET Nat]
      /\ bcast'["tx"] = bcast["tx"]
      /\ ToSet(bcast'["alert"]) = ToSet(bcast["alert"]) \cup {m \in {n} : flagged}
  <2>1. CASE flagged
    <3>1. Deliver("alert", n)
      BY <1>1, <2>1
    <3>2. /\ bcast' \in [Channels -> Seq(Nat)]
          /\ queue' \in [Sessions -> Seq(Nat)]
          /\ dropped' \in [Sessions -> SUBSET Nat]
          /\ ToSet(bcast'["alert"]) = ToSet(bcast["alert"]) \cup {n}
          /\ \A c \in Channels : c # "alert" => bcast'[c] = bcast[c]
      BY <1>2, <1>3, <3>1, DeliverEffect DEF Channels
    <3> QED BY <2>1, <3>2 DEF Channels
  <2>2. CASE ~flagged
    BY <1>1, <1>2, <2>2 DEF Keep, StreamType
  <2> QED BY <2>1, <2>2
<1>5. ASSUME NEW ch \in Channels, NEW m \in Nat, m \in Due(ch) \/ (m = n /\ entry[ch])
      PROVE  m <= n /\ Covers(buf'[ch], m)
  <2>1. m \in Due(ch) => m <= made /\ Covers(buf[ch], m)
    BY <1>2 DEF BufferInv
  <2>2. /\ buf[ch] \in Seq(Nat) /\ BufMax[ch] \in Nat \ {0}
        /\ entry[ch] => buf'[ch] = Newest(<<n>> \o buf[ch], BufMax[ch])
        /\ ~entry[ch] => buf'[ch] = buf[ch]
    BY <1>1, <1>2, SizesAssumption DEF StreamType
  <2>3. m <= n /\ ((m < n /\ Covers(buf[ch], m)) \/ m = n)
    BY <1>3, <1>5, <2>1
  <2>4. CASE entry[ch]
    <3>1. <<n>> \o buf[ch] \in Seq(Nat) /\ Covers(<<n>> \o buf[ch], m)
      BY <1>3, <2>2, <2>3, CoversPush
    <3>2. Covers(Newest(<<n>> \o buf[ch], BufMax[ch]), m)
      BY <2>2, <3>1, CoversPrefix
    <3> QED BY <2>2, <2>3, <2>4, <3>2
  <2>5. CASE ~entry[ch]
    BY <1>5, <2>1, <2>2, <2>3, <2>5
  <2> QED BY <2>4, <2>5
<1>6. ASSUME NEW ch \in Channels, NEW m \in Due(ch)'
      PROVE  m \in Nat /\ (m \in Due(ch) \/ (m = n /\ entry[ch]))
  <2>1. CASE ch = "tx"
    BY <1>1, <1>3, <1>4, <1>6, <2>1 DEF Due, ToSet, StreamType, Channels
  <2>2. CASE ch = "alert"
    <3>1. m \in ToSet(bcast["alert"]) \/ (m = n /\ flagged)
      BY <1>4, <1>6, <2>2 DEF Due
    <3>2. ToSet(bcast["alert"]) \subseteq Nat
      BY <1>2 DEF StreamType, Channels, ToSet
    <3> QED BY <1>3, <2>2, <3>1, <3>2 DEF Due
  <2> QED BY <2>1, <2>2 DEF Channels
<1>7. BufferInv'
  BY <1>1, <1>5, <1>6 DEF BufferInv
<1>8. buf' \in [Channels -> Seq(Nat)]
  <2>1. ASSUME NEW ch \in Channels
        PROVE  /\ buf[ch] \in Seq(Nat) /\ <<n>> \o buf[ch] \in Seq(Nat)
               /\ Newest(<<n>> \o buf[ch], BufMax[ch]) \in Seq(Nat)
    <3>1. buf[ch] \in Seq(Nat) /\ BufMax[ch] \in Nat \ {0}
      BY <1>2, SizesAssumption DEF StreamType
    <3>2. <<n>> \o buf[ch] \in Seq(Nat)
      BY <1>3, <3>1
    <3> QED BY <3>1, <3>2, NewestPrefix
  <2> QED BY <1>1, <2>1
<1>9. StreamType'
  BY <1>1, <1>2, <1>3, <1>4, <1>8 DEF StreamType
<1>10. HandoverInv'
  <2>1. CASE flagged
    BY <1>1, <1>2, <1>3, <2>1, HandoverDeliver DEF Channels
  <2>2. CASE ~flagged
    BY <1>1, <1>2, <2>2 DEF Keep, HandoverInv, Open, Accounted
  <2> QED BY <2>1, <2>2
<1>11. OnlyBrokenReplayLeaks'
  BY <1>1, <1>2 DEF OnlyBrokenReplayLeaks, Open
<1> QED BY <1>7, <1>9, <1>10, <1>11 DEF StreamInv

LEMMA SettleStep ==
  ASSUME StreamInv, Broadcast \/ SaveAborts
  PROVE  StreamInv'
<1>1. StreamType /\ OnlyBrokenReplayLeaks /\ BufferInv /\ HandoverInv
  BY DEF StreamInv
<1>2. saving' = 0 /\ saving \in Nat /\ saving # 0
      /\ UNCHANGED <<made, buf, subs, phase, catchup, got, joined>>
  BY <1>1 DEF Broadcast, SaveAborts, StreamType
<1>3. CASE Broadcast
  <2>1. Deliver("tx", saving)
    BY <1>3 DEF Broadcast
  <2>2. /\ bcast' \in [Channels -> Seq(Nat)]
        /\ queue' \in [Sessions -> Seq(Nat)]
        /\ dropped' \in [Sessions -> SUBSET Nat]
        /\ ToSet(bcast'["tx"]) = ToSet(bcast["tx"]) \cup {saving}
        /\ \A c \in Channels : c # "tx" => bcast'[c] = bcast[c]
    BY <1>1, <1>2, <2>1, DeliverEffect DEF Channels
  <2>3. \A ch \in Channels : Due(ch)' \subseteq Due(ch)
    BY <1>2, <2>2 DEF Due
  <2>4. BufferInv'
    BY <1>1, <1>2, <2>3 DEF BufferInv
  <2>5. HandoverInv'
    BY <1>1, <1>2, <2>1, HandoverDeliver DEF Channels
  <2> QED BY <1>1, <1>2, <2>2, <2>4, <2>5 DEF StreamInv, StreamType, OnlyBrokenReplayLeaks, Open
<1>4. CASE SaveAborts
  <2>1. UNCHANGED <<queue, dropped, bcast>>
    BY <1>4 DEF SaveAborts, Keep
  <2>2. \A ch \in Channels : Due(ch)' \subseteq Due(ch)
    BY <1>2, <2>1 DEF Due
  <2>3. BufferInv'
    BY <1>1, <1>2, <2>2 DEF BufferInv
  <2>4. HandoverInv'
    BY <1>1, <1>2, <2>1 DEF HandoverInv, Open, Accounted
  <2> QED BY <1>1, <1>2, <2>1, <2>3, <2>4 DEF StreamInv, StreamType, OnlyBrokenReplayLeaks, Open
<1> QED BY <1>3, <1>4

(***************************************************************************)
(* A connection's steps.                                                   *)
(***************************************************************************)
(* The replay of a new connection has all that was broadcast since its oldest
   entry. *)
LEMMA SnapshotCovers ==
  ASSUME StreamType, BufferInv, NEW s \in Sessions
  PROVE  LET snap == Snapshot(s)
             oldest == IF snap = <<>> THEN 0 ELSE Last(snap)
         IN  /\ snap \in Seq(Nat) /\ oldest \in Nat
             /\ \A m \in ToSet(bcast[Channel(s)]) : m >= oldest => m \in ToSet(snap)
<1> DEFINE ch == Channel(s)
           t == Newest(buf[ch], CatchupMax[ch])
<1>1. ch \in Channels
  BY DEF Channel, Channels
<1> HIDE DEF ch
<1>2. buf[ch] \in Seq(Nat) /\ CatchupMax[ch] \in Nat \ {0} /\ ToSet(bcast[ch]) \subseteq Nat
  BY <1>1, SizesAssumption DEF StreamType, ToSet
<1>3. t \in Seq(Nat)
  BY <1>2, NewestPrefix
<1>4. ASSUME NEW m \in ToSet(bcast[ch])
      PROVE  m \in Nat /\ Covers(t, m)
  <2>1. m \in Nat /\ Covers(buf[ch], m)
    BY <1>1, <1>2, <1>4 DEF BufferInv, Due
  <2> QED BY <1>2, <2>1, CoversPrefix
<1> HIDE DEF t
<1>5. t # <<>> => Len(t) \in 1..Len(t) /\ Last(t) = t[Len(t)] /\ Last(t) \in Nat
  BY <1>3 DEF Last
<1>6. ASSUME NEW m \in ToSet(bcast[ch]), t # <<>>, m >= Last(t)
      PROVE  m \in ToSet(t)
  <2>1. \E j \in 1..Len(t) : t[j] = m
    BY <1>4, <1>5, <1>6 DEF Covers
  <2>2. DOMAIN t = 1..Len(t)
    BY <1>3
  <2> QED BY <2>1, <2>2 DEF ToSet
<1>7. t = <<>> => ToSet(bcast[ch]) = {}
  BY <1>4 DEF Covers
<1>8. Snapshot(s) = t
  BY DEF Snapshot, t, ch
<1> QED BY <1>3, <1>5, <1>6, <1>7, <1>8 DEF ch

LEMMA ConnectStep ==
  ASSUME StreamInv, NEW s \in Sessions, Connect(s)
  PROVE  StreamInv'
<1> DEFINE oldest == IF Snapshot(s) = <<>> THEN 0 ELSE Last(Snapshot(s))
<1>1. /\ phase' = [phase EXCEPT ![s] = "catchup"] /\ phase[s] = "new"
      /\ subs' = subs \cup {s}
      /\ catchup' = [catchup EXCEPT ![s] = Snapshot(s)]
      /\ joined' = [joined EXCEPT ![s] =
           [broadcasts |-> Len(bcast[Channel(s)]), inFlight |-> saving, oldest |-> oldest]]
      /\ UNCHANGED <<pipeline, queue, got, dropped>>
  BY DEF Connect, Subscribed
<1>2. StreamType /\ OnlyBrokenReplayLeaks /\ BufferInv /\ HandoverInv
  BY DEF StreamInv
<1>3. /\ Snapshot(s) \in Seq(Nat) /\ oldest \in Nat
      /\ \A m \in ToSet(bcast[Channel(s)]) : m >= oldest => m \in ToSet(Snapshot(s))
  BY <1>2, SnapshotCovers
<1> HIDE DEF oldest
<1>4. Len(bcast[Channel(s)]) \in Nat /\ saving \in Nat
  <2>1. Channel(s) \in Channels
    BY DEF Channel, Channels
  <2> QED BY <1>2, <2>1 DEF StreamType
<1>5. StreamType'
  BY <1>1, <1>2, <1>3, <1>4 DEF StreamType, Phases, pipeline
<1>6. OnlyBrokenReplayLeaks'
  BY <1>1, <1>2 DEF OnlyBrokenReplayLeaks, Open, StreamType
<1>7. BufferInv'
  BY <1>1, <1>2 DEF BufferInv, Due, pipeline
<1>8. HandoverInv'
  <2>1. /\ phase'[s] = "catchup" /\ catchup'[s] = Snapshot(s) /\ joined'[s].oldest = oldest
        /\ \A r \in Sessions : r # s =>
             phase'[r] = phase[r] /\ catchup'[r] = catchup[r] /\ joined'[r] = joined[r]
    BY <1>1, <1>2 DEF StreamType
  <2>2. UNCHANGED <<bcast, queue, got, dropped>>
    BY <1>1 DEF pipeline
  <2> QED BY <1>2, <1>3, <2>1, <2>2 DEF HandoverInv, Open, Accounted, Channel
<1> QED BY <1>5, <1>6, <1>7, <1>8 DEF StreamInv

(* Moving a message from the replay or the queue to the client. *)
LEMMA SendStep ==
  ASSUME StreamInv, NEW s \in Sessions, SendCatchup(s) \/ SendLive(s)
  PROVE  StreamInv'
<1>1. StreamType /\ OnlyBrokenReplayLeaks /\ BufferInv /\ HandoverInv
  BY DEF StreamInv
<1>2. UNCHANGED <<made, saving, buf, bcast, subs, phase, joined, dropped>>
  BY DEF SendCatchup, SendLive, pipeline
<1>3. PICK from \in {catchup, queue} :
        /\ from[s] # <<>>
        /\ got' = [got EXCEPT ![s] = Append(got[s], Head(from[s]))]
        /\ \/ from = catchup /\ catchup' = [catchup EXCEPT ![s] = Tail(catchup[s])] /\ queue' = queue
              /\ phase[s] = "catchup"
           \/ from = queue /\ queue' = [queue EXCEPT ![s] = Tail(queue[s])] /\ catchup' = catchup
  BY DEF SendCatchup, SendLive
<1>4. from \in [Sessions -> Seq(Nat)] /\ got \in [Sessions -> Seq(Nat)]
  BY <1>1 DEF StreamType
<1>5. /\ Head(from[s]) \in Nat /\ Tail(from[s]) \in Seq(Nat)
      /\ ToSet(from[s]) = {Head(from[s])} \cup ToSet(Tail(from[s]))
  BY <1>3, <1>4, TailSet
<1>6. /\ Append(got[s], Head(from[s])) \in Seq(Nat)
      /\ ToSet(Append(got[s], Head(from[s]))) = ToSet(got[s]) \cup {Head(from[s])}
  BY <1>4, <1>5, AppendSet
<1>7. got' \in [Sessions -> Seq(Nat)] /\ catchup' \in [Sessions -> Seq(Nat)]
      /\ queue' \in [Sessions -> Seq(Nat)]
  <2>1. catchup \in [Sessions -> Seq(Nat)] /\ queue \in [Sessions -> Seq(Nat)]
    BY <1>1 DEF StreamType
  <2>2. got' \in [Sessions -> Seq(Nat)]
    <3>1. Append(got[s], Head(from[s])) \in Seq(Nat)
      BY <1>6
    <3> QED BY <1>3, <1>4, <3>1
  <2>3. Tail(from[s]) \in Seq(Nat)
    BY <1>5
  <2>4. CASE from = catchup /\ catchup' = [catchup EXCEPT ![s] = Tail(catchup[s])] /\ queue' = queue
    BY <2>1, <2>2, <2>3, <2>4
  <2>5. CASE from = queue /\ queue' = [queue EXCEPT ![s] = Tail(queue[s])] /\ catchup' = catchup
    BY <2>1, <2>2, <2>3, <2>5
  <2> QED BY <1>3, <2>4, <2>5
<1>8. \A r \in Sessions : Accounted(r)' = Accounted(r)
  <2>1. ASSUME NEW r \in Sessions, r # s
        PROVE  Accounted(r)' = Accounted(r)
    BY <1>1, <1>2, <1>3, <2>1 DEF Accounted, StreamType
  <2>2. ToSet(got'[s]) = ToSet(got[s]) \cup {Head(from[s])}
    BY <1>3, <1>4, <1>6
  <2>3. \/ from = catchup /\ catchup'[s] = Tail(catchup[s]) /\ queue'[s] = queue[s]
        \/ from = queue /\ queue'[s] = Tail(queue[s]) /\ catchup'[s] = catchup[s]
    BY <1>1, <1>3 DEF StreamType
  <2>4. Accounted(s)' = Accounted(s)
    BY <1>2, <1>5, <2>2, <2>3 DEF Accounted
  <2> QED BY <2>1, <2>4
<1>9. \A r \in Sessions : phase[r] = "live" => catchup'[r] = <<>>
  BY <1>1, <1>3 DEF HandoverInv, StreamType
<1>10. StreamType' /\ OnlyBrokenReplayLeaks' /\ BufferInv'
  BY <1>1, <1>2, <1>7 DEF StreamType, OnlyBrokenReplayLeaks, Open, BufferInv, Due
<1>11. HandoverInv'
  BY <1>1, <1>2, <1>8, <1>9 DEF HandoverInv, Open
<1> QED BY <1>10, <1>11 DEF StreamInv

LEMMA LeaveStep ==
  ASSUME StreamInv, NEW s \in Sessions, CatchupBreaks(s) \/ GoLive(s) \/ Disconnect(s)
  PROVE  StreamInv'
<1>1. StreamType /\ OnlyBrokenReplayLeaks /\ BufferInv /\ HandoverInv
  BY DEF StreamInv
<1>2. UNCHANGED <<made, saving, buf, bcast, got, joined, dropped>>
  BY DEF CatchupBreaks, GoLive, Disconnect, pipeline
<1>3. \/ /\ phase' = [phase EXCEPT ![s] = "broken"] /\ catchup' = [catchup EXCEPT ![s] = <<>>]
         /\ subs' = subs /\ queue' = queue /\ phase[s] = "catchup"
      \/ /\ phase' = [phase EXCEPT ![s] = "live"] /\ catchup' = catchup /\ catchup[s] = <<>>
         /\ subs' = subs /\ queue' = queue /\ phase[s] = "catchup"
      \/ /\ phase' = [phase EXCEPT ![s] = "closed"] /\ catchup' = catchup
         /\ subs' = subs \ {s} /\ queue' = [queue EXCEPT ![s] = <<>>] /\ phase[s] = "live"
  BY DEF CatchupBreaks, GoLive, Disconnect, Unsubscribed
<1>4. StreamType'
  <2>1. phase' \in [Sessions -> Phases]
    BY <1>1, <1>3 DEF StreamType, Phases
  <2>2. <<>> \in Seq(Nat)
    OBVIOUS
  <2>3. catchup' \in [Sessions -> Seq(Nat)] /\ queue' \in [Sessions -> Seq(Nat)]
    BY <1>1, <1>3, <2>2 DEF StreamType
  <2> QED BY <1>1, <1>2, <2>1, <2>3 DEF StreamType
<1>5. OnlyBrokenReplayLeaks'
  BY <1>1, <1>3 DEF OnlyBrokenReplayLeaks, Open, StreamType
<1>6. BufferInv'
  BY <1>1, <1>2 DEF BufferInv, Due
<1>7. ASSUME NEW r \in Sessions
      PROVE  /\ phase'[r] = "live" => catchup'[r] = <<>>
             /\ Open(r)' => Open(r) /\ Accounted(r)' = Accounted(r)
  <2>1. CASE r # s
    BY <1>1, <1>2, <1>3, <2>1 DEF StreamType, HandoverInv, Open, Accounted
  <2>2. CASE r = s
    BY <1>1, <1>2, <1>3, <2>2 DEF StreamType, HandoverInv, Open, Accounted
  <2> QED BY <2>1, <2>2
<1>8. HandoverInv'
  BY <1>1, <1>2, <1>7 DEF HandoverInv
<1> QED BY <1>4, <1>5, <1>6, <1>8 DEF StreamInv

LEMMA StreamStep == StreamInv /\ HandInv /\ [Next]_vars => StreamInv'
<1>1. StreamInv /\ UNCHANGED shared => StreamInv'
  BY DEF shared, StreamInv, StreamType, OnlyBrokenReplayLeaks, Open, BufferInv, Due,
         HandoverInv, Accounted
<1> QED BY <1>1, YieldKeeps, ProcessStep, SettleStep, ConnectStep, SendStep, LeaveStep DEF Next

(***************************************************************************)
(* A callback outlives its connection only when the replay broke.          *)
(***************************************************************************)
THEOREM LeaksNeedBrokenReplay == Spec => []OnlyBrokenReplayLeaks
<1>1. StreamInv => OnlyBrokenReplayLeaks
  BY DEF StreamInv
<1> QED BY <1>1, HandInit, HandStep, StreamInit, StreamStep, PTL DEF Spec

(***************************************************************************)
(* From its oldest replayed entry on, a live connection has received, has  *)
(* queued or has dropped every message that was broadcast.                 *)
(***************************************************************************)
THEOREM NoGap == Spec => []NoGapAtHandover
<1>1. StreamInv => NoGapAtHandover
  BY DEF StreamInv, HandoverInv, Open, Accounted, NoGapAtHandover, ToSet
<1> QED BY <1>1, HandInit, HandStep, StreamInit, StreamStep, PTL DEF Spec

(***************************************************************************)
(* What a connection receives twice.                                       *)
(***************************************************************************)
Distinct(q) == \A i, j \in 1..Len(q) : q[i] = q[j] => i = j

(* Of a message received, still to replay and queued (g, c, q) only f, which was
   being saved at the subscription, occurs twice, and only on /ws/stream. *)
Few(s, g, c, q, f) ==
  /\ Distinct(c) /\ Distinct(q)
  /\ ToSet(g) \cap ToSet(c) = {}
  /\ \A m \in ToSet(q) : m \in ToSet(g) \cup ToSet(c) => s \in StreamSessions /\ m = f
  /\ \A i, j \in 1..Len(g) : i # j /\ g[i] = g[j] => s \in StreamSessions /\ g[i] = f

LEMMA MembersOf ==
  ASSUME NEW q \in Seq(Nat), NEW m
  PROVE  m \in ToSet(q) <=> \E i \in 1..Len(q) : q[i] = m
<1>1. DOMAIN q = 1..Len(q)
  OBVIOUS
<1> QED BY <1>1 DEF ToSet

LEMMA DistinctAppend ==
  ASSUME NEW q \in Seq(Nat), NEW m \in Nat, Distinct(q), m \notin ToSet(q)
  PROVE  Distinct(Append(q, m))
<1> DEFINE t == Append(q, m)
<1>1. /\ Len(t) = Len(q) + 1 /\ t[Len(q) + 1] = m /\ Len(q) \in Nat
      /\ \A i \in 1..Len(q) : t[i] = q[i]
  OBVIOUS
<1>2. \A i \in 1..Len(q) : q[i] # m
  BY MembersOf
<1> HIDE DEF t
<1>3. \A i \in 1..Len(t) : i \in 1..Len(q) \/ i = Len(q) + 1
  BY <1>1
<1> QED BY <1>1, <1>2, <1>3 DEF Distinct, t

LEMMA DistinctTail ==
  ASSUME NEW q \in Seq(Nat), q # <<>>, Distinct(q)
  PROVE  Distinct(Tail(q)) /\ Head(q) \notin ToSet(Tail(q))
<1> DEFINE t == Tail(q)
<1>1. /\ Head(q) = q[1] /\ Len(q) >= 1 /\ Len(q) \in Nat /\ Len(t) = Len(q) - 1
      /\ t \in Seq(Nat) /\ \A i \in 1..Len(t) : t[i] = q[i + 1]
  OBVIOUS
<1> HIDE DEF t
<1>2. \A i \in 1..Len(t) : i + 1 \in 1..Len(q) /\ i + 1 # 1
  BY <1>1
<1>3. Distinct(t)
  <2> SUFFICES ASSUME NEW i \in 1..Len(t), NEW j \in 1..Len(t), t[i] = t[j] PROVE i = j
    BY DEF Distinct
  <2>1. /\ i + 1 \in 1..Len(q) /\ j + 1 \in 1..Len(q)
        /\ q[i + 1] = q[j + 1]
    BY <1>1, <1>2
  <2>2. i + 1 = j + 1
    BY <2>1 DEF Distinct
  <2> QED BY <2>2
<1>4. \A i \in 1..Len(t) : t[i] # Head(q)
  BY <1>1, <1>2 DEF Distinct
<1>5. Head(q) \notin ToSet(t)
  BY <1>1, <1>4, MembersOf
<1> QED BY <1>3, <1>5 DEF t

LEMMA DistinctNewest ==
  ASSUME NEW seq \in Seq(Nat), NEW n \in Nat \ {0}, Distinct(seq)
  PROVE  /\ Distinct(Newest(seq, n)) /\ Len(Newest(seq, n)) <= n
         /\ ToSet(Newest(seq, n)) \subseteq ToSet(seq)
<1> DEFINE t == Newest(seq, n)
<1>1. /\ t \in Seq(Nat) /\ Len(t) <= Len(seq) /\ \A i \in 1..Len(t) : t[i] = seq[i]
  BY NewestPrefix
<1>2. Len(t) <= n
  BY DEF Newest
<1> HIDE DEF t
<1>3. \A i \in 1..Len(t) : i \in 1..Len(seq)
  BY <1>1
<1>4. Distinct(t)
  BY <1>1, <1>3 DEF Distinct
<1>5. ToSet(t) \subseteq ToSet(seq)
  BY <1>1, <1>3, MembersOf
<1> QED BY <1>2, <1>4, <1>5 DEF t

LEMMA DistinctPush ==
  ASSUME NEW seq \in Seq(Nat), NEW n \in Nat, Distinct(seq), n \notin ToSet(seq)
  PROVE  /\ <<n>> \o seq \in Seq(Nat) /\ Distinct(<<n>> \o seq)
         /\ ToSet(<<n>> \o seq) = {n} \cup ToSet(seq)
<1> DEFINE t == <<n>> \o seq
<1>1. /\ t \in Seq(Nat) /\ Len(t) = Len(seq) + 1 /\ t[1] = n /\ Len(seq) \in Nat
      /\ \A i \in 1..Len(seq) : t[i + 1] = seq[i]
  OBVIOUS
<1> HIDE DEF t
<1>2. \A k \in 1..Len(t) : k = 1 \/ (k - 1 \in 1..Len(seq) /\ t[k] = seq[k - 1])
  <2> SUFFICES ASSUME NEW k \in 1..Len(t), k # 1
               PROVE  k - 1 \in 1..Len(seq) /\ t[k] = seq[k - 1]
    OBVIOUS
  <2>1. k - 1 \in 1..Len(seq)
    BY <1>1
  <2>2. t[(k - 1) + 1] = seq[k - 1]
    BY <1>1, <2>1
  <2> QED BY <2>1, <2>2
<1>3. \A i \in 1..Len(seq) : seq[i] # n
  BY MembersOf
<1>4. Distinct(t)
  <2> SUFFICES ASSUME NEW i \in 1..Len(t), NEW j \in 1..Len(t), t[i] = t[j] PROVE i = j
    BY DEF Distinct
  <2>1. CASE i = 1 \/ j = 1
    BY <1>1, <1>2, <1>3, <2>1
  <2>2. CASE i # 1 /\ j # 1
    <3>1. /\ i - 1 \in 1..Len(seq) /\ j - 1 \in 1..Len(seq)
          /\ seq[i - 1] = seq[j - 1]
      BY <1>2, <2>2
    <3>2. i - 1 = j - 1
      BY <3>1 DEF Distinct
    <3> QED BY <3>2
  <2> QED BY <2>1, <2>2
<1>5. ToSet(t) = {n} \cup ToSet(seq)
  <2>1. \A m : (\E k \in 1..Len(t) : t[k] = m) => m = n \/ \E i \in 1..Len(seq) : seq[i] = m
    BY <1>1, <1>2
  <2>2. \A i \in 1..Len(seq) : i + 1 \in 1..Len(t) /\ t[i + 1] = seq[i]
    BY <1>1
  <2>3. 1 \in 1..Len(t) /\ t[1] = n
    BY <1>1
  <2>4. \A m : m \in ToSet(t) <=> m = n \/ m \in ToSet(seq)
    <3> SUFFICES ASSUME NEW m PROVE m \in ToSet(t) <=> m = n \/ m \in ToSet(seq)
      OBVIOUS
    <3>1. (m \in ToSet(t) <=> \E k \in 1..Len(t) : t[k] = m)
          /\ (m \in ToSet(seq) <=> \E i \in 1..Len(seq) : seq[i] = m)
      BY <1>1, MembersOf
    <3> QED BY <2>1, <2>2, <2>3, <3>1
  <2> QED BY <2>4
<1> QED BY <1>1, <1>4, <1>5 DEF t

LEMMA FewReplayed ==
  ASSUME NEW s, NEW g \in Seq(Nat), NEW c \in Seq(Nat), NEW q \in Seq(Nat), NEW f,
         Few(s, g, c, q, f), c # <<>>
  PROVE  Few(s, Append(g, Head(c)), Tail(c), q, f)
<1> DEFINE t == Append(g, Head(c))
<1>1. /\ Head(c) \in Nat /\ ToSet(c) = {Head(c)} \cup ToSet(Tail(c))
  BY TailSet
<1>2. ToSet(t) = ToSet(g) \cup {Head(c)}
  BY <1>1, AppendSet
<1>3. Distinct(Tail(c)) /\ Head(c) \notin ToSet(Tail(c))
  BY DistinctTail DEF Few
<1>4. /\ Len(t) = Len(g) + 1 /\ t[Len(g) + 1] = Head(c) /\ Len(g) \in Nat
      /\ \A i \in 1..Len(g) : t[i] = g[i]
  BY <1>1
<1> HIDE DEF t
<1>5. \A i \in 1..Len(g) : g[i] # Head(c)
  BY <1>1, MembersOf DEF Few
<1>6. \A i \in 1..Len(t) : i \in 1..Len(g) \/ i = Len(g) + 1
  <2>1. Len(t) = Len(g) + 1 /\ Len(g) \in Nat
    BY <1>4
  <2> QED BY <2>1
<1>7. \A i, j \in 1..Len(t) : i # j /\ t[i] = t[j] => s \in StreamSessions /\ t[i] = f
  BY <1>4, <1>5, <1>6 DEF Few
<1>8. ToSet(t) \cap ToSet(Tail(c)) = {} /\ ToSet(t) \cup ToSet(Tail(c)) = ToSet(g) \cup ToSet(c)
  BY <1>1, <1>2, <1>3 DEF Few
<1> QED BY <1>3, <1>7, <1>8 DEF Few, t

LEMMA FewSent ==
  ASSUME NEW s, NEW g \in Seq(Nat), NEW q \in Seq(Nat), NEW f,
         Few(s, g, <<>>, q, f), q # <<>>
  PROVE  Few(s, Append(g, Head(q)), <<>>, Tail(q), f)
<1> DEFINE t == Append(g, Head(q))
<1>1. /\ Head(q) \in Nat /\ ToSet(q) = {Head(q)} \cup ToSet(Tail(q))
  BY TailSet
<1>2. ToSet(t) = ToSet(g) \cup {Head(q)} /\ ToSet(<<>>) = {}
  <2>1. ToSet(<<>>) = {}
    BY DEF ToSet
  <2> QED BY <1>1, <2>1, AppendSet
<1>3. Distinct(Tail(q)) /\ Head(q) \notin ToSet(Tail(q))
  BY DistinctTail DEF Few
<1>4. /\ Len(t) = Len(g) + 1 /\ t[Len(g) + 1] = Head(q) /\ Len(g) \in Nat
      /\ \A i \in 1..Len(g) : t[i] = g[i]
  BY <1>1
<1> HIDE DEF t
<1>5. \A i \in 1..Len(g) : g[i] = Head(q) => s \in StreamSessions /\ g[i] = f
  BY <1>1, MembersOf DEF Few
<1>6. \A i \in 1..Len(t) : i \in 1..Len(g) \/ i = Len(g) + 1
  <2>1. Len(t) = Len(g) + 1 /\ Len(g) \in Nat
    BY <1>4
  <2> QED BY <2>1
<1>7. \A i, j \in 1..Len(t) : i # j /\ t[i] = t[j] => s \in StreamSessions /\ t[i] = f
  BY <1>4, <1>5, <1>6 DEF Few
<1>8. \A m \in ToSet(Tail(q)) : m \in ToSet(t) \cup ToSet(<<>>) => s \in StreamSessions /\ m = f
  BY <1>1, <1>2, <1>3 DEF Few
<1>9. ToSet(t) \cap ToSet(<<>>) = {} /\ Distinct(<<>>)
  BY <1>2 DEF Distinct
<1> QED BY <1>3, <1>7, <1>8, <1>9 DEF Few, t

LEMMA FewQueued ==
  ASSUME NEW s, NEW g, NEW c, NEW q \in Seq(Nat), NEW f, Few(s, g, c, q, f),
         NEW m \in Nat, m \notin ToSet(q),
         m \in ToSet(g) \cup ToSet(c) => s \in StreamSessions /\ m = f
  PROVE  Few(s, g, c, Append(q, m), f)
<1>1. ToSet(Append(q, m)) = ToSet(q) \cup {m}
  BY AppendSet
<1>2. Distinct(Append(q, m))
  BY DistinctAppend DEF Few
<1> QED BY <1>1, <1>2 DEF Few

LEMMA FewLeft ==
  ASSUME NEW s, NEW g, NEW c, NEW q, NEW f, Few(s, g, c, q, f)
  PROVE  Few(s, g, <<>>, q, f) /\ Few(s, g, c, <<>>, f)
<1>1. ToSet(<<>>) = {} /\ Distinct(<<>>)
  BY DEF ToSet, Distinct
<1> QED BY <1>1 DEF Few

LEMMA FewFirst ==
  ASSUME NEW s, NEW c, NEW f, Distinct(c)
  PROVE  Few(s, <<>>, c, <<>>, f)
<1>1. ToSet(<<>>) = {} /\ Distinct(<<>>) /\ Len(<<>>) = 0
  BY DEF ToSet, Distinct
<1> QED BY <1>1 DEF Few

Past(s) == ToSet(got[s]) \cup ToSet(catchup[s])

SessionInv(s) ==
  /\ Few(s, got[s], catchup[s], queue[s], joined[s].inFlight)
  /\ Past(s) \cup ToSet(queue[s]) \cup dropped[s] \subseteq 1..made
  /\ Len(queue[s]) <= QueueMax[Channel(s)]
  /\ joined[s].inFlight <= made /\ joined[s].oldest <= made
  /\ phase[s] = "new" => got[s] = <<>> /\ catchup[s] = <<>> /\ queue[s] = <<>>
  /\ s \in StreamSessions /\ saving # 0 =>
       saving \notin ToSet(queue[s]) /\ (saving \in Past(s) => saving = joined[s].inFlight)

BoundedInv ==
  /\ made <= MaxTx /\ saving <= made
  /\ \A ch \in Channels :
       /\ Distinct(buf[ch]) /\ Len(buf[ch]) <= BufMax[ch]
       /\ ToSet(buf[ch]) \cup ToSet(bcast[ch]) \subseteq 1..made

OrderInv == BoundedInv /\ \A s \in Sessions : SessionInv(s)

LEMMA OrderInit == Init => OrderInv
<1> SUFFICES ASSUME Init PROVE OrderInv
  OBVIOUS
<1>1. ToSet(<<>>) = {} /\ Distinct(<<>>) /\ Len(<<>>) = 0
  BY DEF ToSet, Distinct
<1>2. BoundedInv
  BY <1>1, SizesAssumption DEF Init, BoundedInv
<1>3. ASSUME NEW s \in Sessions PROVE SessionInv(s)
  <2>1. /\ got[s] = <<>> /\ catchup[s] = <<>> /\ queue[s] = <<>> /\ dropped[s] = {}
        /\ joined[s].inFlight = 0 /\ joined[s].oldest = 0 /\ made = 0 /\ saving = 0
    BY DEF Init, Nobody
  <2>2. Few(s, <<>>, <<>>, <<>>, 0)
    BY <1>1, FewFirst
  <2>3. Channel(s) \in Channels
    BY DEF Channel, Channels
  <2>4. QueueMax[Channel(s)] >= 0
    BY <2>3, SizesAssumption
  <2> QED BY <1>1, <2>1, <2>2, <2>4 DEF SessionInv, Past
<1> QED BY <1>2, <1>3 DEF OrderInv

LEMMA OrderDeliver ==
  ASSUME StreamType, OrderInv, NEW ch \in Channels, NEW m \in Nat, Deliver(ch, m),
         NEW s \in Sessions,
         s \in Receivers(ch) =>
           /\ m \notin ToSet(queue[s])
           /\ m \in Past(s) => s \in StreamSessions /\ m = joined[s].inFlight
  PROVE  /\ Few(s, got[s], catchup[s], queue'[s], joined[s].inFlight)
         /\ ToSet(queue'[s]) \cup dropped'[s] \subseteq ToSet(queue[s]) \cup dropped[s] \cup {m}
         /\ Len(queue'[s]) <= QueueMax[Channel(s)]
         /\ s \notin Receivers(ch) => queue'[s] = queue[s]
<1>1. /\ queue'[s] = IF s \in Receivers(ch) THEN Enqueue(queue[s], m, QueueMax[ch]) ELSE queue[s]
      /\ dropped'[s] \subseteq dropped[s] \cup {m}
  BY DEF Deliver
<1>2. SessionInv(s) /\ queue[s] \in Seq(Nat)
  BY DEF OrderInv, StreamType
<1>3. CASE s \in Receivers(ch) /\ Len(queue[s]) < QueueMax[ch]
  <2>1. queue'[s] = Append(queue[s], m) /\ Channel(s) = ch
    BY <1>1, <1>3 DEF Enqueue, Receivers
  <2>2. ToSet(Append(queue[s], m)) = ToSet(queue[s]) \cup {m}
    BY <1>2, AppendSet
  <2>3. Few(s, got[s], catchup[s], Append(queue[s], m), joined[s].inFlight)
    BY <1>2, <1>3, FewQueued DEF SessionInv, Past
  <2>4. Len(Append(queue[s], m)) = Len(queue[s]) + 1 /\ Len(queue[s]) \in Nat
    BY <1>2
  <2>5. QueueMax[ch] \in Nat
    BY SizesAssumption
  <2>6. Len(queue'[s]) <= QueueMax[Channel(s)]
    BY <1>3, <2>1, <2>4, <2>5
  <2>7. ToSet(queue'[s]) \cup dropped'[s] \subseteq ToSet(queue[s]) \cup dropped[s] \cup {m}
    BY <1>1, <2>1, <2>2
  <2>8. Few(s, got[s], catchup[s], queue'[s], joined[s].inFlight)
    BY <2>1, <2>3
  <2> QED BY <1>3, <2>6, <2>7, <2>8
<1>4. CASE ~(s \in Receivers(ch) /\ Len(queue[s]) < QueueMax[ch])
  <2>1. queue'[s] = queue[s]
    BY <1>1, <1>4 DEF Enqueue
  <2> QED BY <1>1, <1>2, <2>1 DEF SessionInv
<1> QED BY <1>3, <1>4

LEMMA OrderProcess ==
  ASSUME StreamInv, HandInv, OrderInv, NEW flagged \in BOOLEAN, Process(flagged)
  PROVE  OrderInv'
<1> DEFINE n == made + 1
           entry == [tx |-> TRUE, alert |-> flagged]
<1>1. /\ saving = 0 /\ made' = n /\ saving' = n /\ made < MaxTx
      /\ buf' = [ch \in Channels |-> IF entry[ch] THEN Newest(<<n>> \o buf[ch], BufMax[ch])
                                     ELSE buf[ch]]
      /\ UNCHANGED <<subs, phase, catchup, got, joined>>
      /\ IF flagged THEN Deliver("alert", n) ELSE Keep
  BY DEF Process, HandInv
<1>2. StreamType /\ OnlyBrokenReplayLeaks /\ BoundedInv /\ \A s \in Sessions : SessionInv(s)
  BY DEF StreamInv, OrderInv
<1>3. n \in Nat /\ n > 0 /\ made \in Nat /\ made < n /\ n <= MaxTx
  BY <1>1, <1>2, SizesAssumption DEF StreamType
<1>4. n \in 1..n /\ n \notin 1..made /\ 1..made \subseteq 1..n
  BY <1>3
<1> HIDE DEF n
<1>5. ASSUME NEW s \in Sessions
      PROVE  /\ Few(s, got[s], catchup[s], queue'[s], joined[s].inFlight)
             /\ ToSet(queue'[s]) \cup dropped'[s] \subseteq ToSet(queue[s]) \cup dropped[s] \cup {n}
             /\ Len(queue'[s]) <= QueueMax[Channel(s)]
             /\ phase[s] = "new" \/ s \in StreamSessions => queue'[s] = queue[s]
  <2>1. SessionInv(s) /\ n \notin ToSet(queue[s]) /\ n \notin Past(s)
    BY <1>2, <1>4 DEF SessionInv
  <2>2. CASE flagged
    <3>1. Deliver("alert", n) /\ "alert" \in Channels
      BY <1>1, <2>2 DEF Channels
    <3>2. phase[s] = "new" \/ s \in StreamSessions => s \notin Receivers("alert")
      BY <1>2 DEF Receivers, Channel, OnlyBrokenReplayLeaks, Open
    <3> QED BY <1>2, <1>3, <2>1, <3>1, <3>2, OrderDeliver
  <2>3. CASE ~flagged
    BY <1>1, <2>1, <2>3 DEF Keep, SessionInv
  <2> QED BY <2>2, <2>3
<1>6. ASSUME NEW s \in Sessions PROVE SessionInv(s)'
  <2>1. SessionInv(s) /\ joined[s].inFlight \in Nat /\ joined[s].oldest \in Nat
    BY <1>2 DEF StreamType
  <2>2. joined[s].inFlight <= n /\ joined[s].oldest <= n
    BY <1>3, <2>1 DEF SessionInv
  <2>3. Past(s)' = Past(s) /\ Past(s) \cup ToSet(queue'[s]) \cup dropped'[s] \subseteq 1..n
    BY <1>1, <1>4, <1>5, <2>1 DEF SessionInv, Past
  <2>4. n \notin Past(s) /\ n \notin ToSet(queue[s])
    BY <1>4, <2>1 DEF SessionInv
  <2>5. Channel(s)' = Channel(s)
    BY DEF Channel
  <2> QED BY <1>1, <1>5, <2>1, <2>2, <2>3, <2>4, <2>5 DEF SessionInv
<1>7. ASSUME NEW ch \in Channels
      PROVE  Distinct(buf'[ch]) /\ Len(buf'[ch]) <= BufMax[ch] /\ ToSet(buf'[ch]) \subseteq 1..n
  <2>1. /\ buf[ch] \in Seq(Nat) /\ Distinct(buf[ch]) /\ ToSet(buf[ch]) \subseteq 1..made
        /\ Len(buf[ch]) <= BufMax[ch] /\ BufMax[ch] \in Nat \ {0}
    BY <1>2, SizesAssumption DEF StreamType, BoundedInv
  <2>2. CASE entry[ch]
    <3>1. buf'[ch] = Newest(<<n>> \o buf[ch], BufMax[ch])
      BY <1>1, <2>2
    <3>2. n \notin ToSet(buf[ch])
      BY <1>4, <2>1
    <3>3. /\ <<n>> \o buf[ch] \in Seq(Nat) /\ Distinct(<<n>> \o buf[ch])
          /\ ToSet(<<n>> \o buf[ch]) = {n} \cup ToSet(buf[ch])
      BY <1>3, <2>1, <3>2, DistinctPush
    <3> DEFINE b == <<n>> \o buf[ch]
    <3>4. b \in Seq(Nat) /\ Distinct(b) /\ ToSet(b) = {n} \cup ToSet(buf[ch])
      BY <3>3
    <3>5. buf'[ch] = Newest(b, BufMax[ch])
      BY <3>1
    <3> HIDE DEF b
    <3>6. /\ Distinct(buf'[ch]) /\ Len(buf'[ch]) <= BufMax[ch]
          /\ ToSet(buf'[ch]) \subseteq ToSet(b)
      BY <2>1, <3>4, <3>5, DistinctNewest
    <3> QED BY <1>4, <2>1, <3>4, <3>6
  <2>3. CASE ~entry[ch]
    <3>1. buf'[ch] = buf[ch]
      BY <1>1, <2>3
    <3> QED BY <1>4, <2>1, <3>1
  <2> QED BY <2>2, <2>3
<1>8. ASSUME NEW ch \in Channels PROVE ToSet(bcast'[ch]) \subseteq 1..n
  <2>1. ToSet(bcast[ch]) \subseteq 1..made
    BY <1>2 DEF BoundedInv
  <2>2. CASE flagged
    <3>1. /\ ToSet(bcast'["alert"]) = ToSet(bcast["alert"]) \cup {n}
          /\ \A c \in Channels : c # "alert" => bcast'[c] = bcast[c]
      BY <1>1, <1>2, <1>3, <2>2, DeliverEffect DEF Channels
    <3> QED BY <1>4, <2>1, <3>1
  <2>3. CASE ~flagged
    BY <1>1, <1>4, <2>1, <2>3 DEF Keep
  <2> QED BY <2>2, <2>3
<1>9. BoundedInv'
  <2>1. made' = n /\ saving' = n
    BY <1>1
  <2> QED BY <1>3, <1>7, <1>8, <2>1 DEF BoundedInv
<1> QED BY <1>6, <1>9 DEF OrderInv

LEMMA OrderSettle ==
  ASSUME StreamInv, OrderInv, Broadcast \/ SaveAborts
  PROVE  OrderInv'
<1>1. saving' = 0 /\ saving # 0 /\ UNCHANGED <<made, buf, subs, phase, catchup, got, joined>>
  BY DEF Broadcast, SaveAborts
<1>2. /\ StreamType /\ OnlyBrokenReplayLeaks /\ BoundedInv /\ \A s \in Sessions : SessionInv(s)
      /\ saving \in Nat /\ made \in Nat
  BY DEF StreamInv, StreamType, OrderInv
<1>3. saving \in 1..made
  BY <1>1, <1>2 DEF BoundedInv
<1>4. CASE Broadcast
  <2>1. Deliver("tx", saving) /\ "tx" \in Channels
    BY <1>4 DEF Broadcast, Channels
  <2>2. ASSUME NEW s \in Sessions PROVE SessionInv(s)'
    <3>1. SessionInv(s)
      BY <1>2
    <3>2. s \in Receivers("tx") =>
            saving \notin ToSet(queue[s])
            /\ (saving \in Past(s) => s \in StreamSessions /\ saving = joined[s].inFlight)
      BY <1>1, <3>1 DEF SessionInv, Receivers, Channel
    <3>3. /\ Few(s, got[s], catchup[s], queue'[s], joined[s].inFlight)
          /\ ToSet(queue'[s]) \cup dropped'[s] \subseteq ToSet(queue[s]) \cup dropped[s] \cup {saving}
          /\ Len(queue'[s]) <= QueueMax[Channel(s)]
          /\ s \notin Receivers("tx") => queue'[s] = queue[s]
      BY <1>2, <2>1, <3>2, OrderDeliver
    <3>4. phase[s] = "new" => s \notin Receivers("tx")
      BY <1>2 DEF Receivers, OnlyBrokenReplayLeaks, Open
    <3>5. Past(s)' = Past(s) /\ Channel(s)' = Channel(s)
      BY <1>1 DEF Past, Channel
    <3> QED BY <1>1, <1>3, <3>1, <3>3, <3>4, <3>5 DEF SessionInv
  <2>3. ASSUME NEW ch \in Channels PROVE ToSet(bcast'[ch]) \subseteq 1..made
    <3>1. ToSet(bcast[ch]) \subseteq 1..made
      BY <1>2 DEF BoundedInv
    <3>2. /\ ToSet(bcast'["tx"]) = ToSet(bcast["tx"]) \cup {saving}
          /\ \A c \in Channels : c # "tx" => bcast'[c] = bcast[c]
      BY <1>2, <2>1, DeliverEffect
    <3> QED BY <1>3, <3>1, <3>2
  <2>4. BoundedInv'
    BY <1>1, <1>2, <2>3 DEF BoundedInv
  <2> QED BY <2>2, <2>4 DEF OrderInv
<1>5. CASE SaveAborts
  <2>1. UNCHANGED <<queue, dropped, bcast>>
    BY <1>5 DEF SaveAborts, Keep
  <2>2. \A s \in Sessions : SessionInv(s)'
    BY <1>1, <1>2, <2>1 DEF SessionInv, Past, Channel
  <2>3. BoundedInv'
    BY <1>1, <1>2, <2>1 DEF BoundedInv
  <2> QED BY <2>2, <2>3 DEF OrderInv
<1> QED BY <1>4, <1>5

(* A step of one connection. *)
LEMMA OrderSession ==
  ASSUME OrderInv, NEW s \in Sessions, UNCHANGED <<made, saving, buf, bcast, dropped>>,
         \A r \in Sessions \ {s} : /\ phase'[r] = phase[r] /\ catchup'[r] = catchup[r]
                                   /\ queue'[r] = queue[r] /\ got'[r] = got[r]
                                   /\ joined'[r] = joined[r],
         SessionInv(s)'
  PROVE  OrderInv'
<1>1. BoundedInv'
  BY DEF OrderInv, BoundedInv
<1>2. ASSUME NEW r \in Sessions PROVE SessionInv(r)'
  <2>1. CASE r = s
    BY <2>1
  <2>2. CASE r # s
    <3>1. SessionInv(r) /\ Past(r)' = Past(r) /\ Channel(r)' = Channel(r)
      BY <2>2 DEF OrderInv, Past, Channel
    <3> QED BY <2>2, <3>1 DEF SessionInv
  <2> QED BY <2>1, <2>2
<1> QED BY <1>1, <1>2 DEF OrderInv

LEMMA OrderConnect ==
  ASSUME StreamInv, OrderInv, NEW s \in Sessions, Connect(s)
  PROVE  OrderInv'
<1> DEFINE ch == Channel(s)
           c == Snapshot(s)
           oldest == IF c = <<>> THEN 0 ELSE Last(c)
<1>1. /\ phase' = [phase EXCEPT ![s] = "catchup"] /\ phase[s] = "new"
      /\ catchup' = [catchup EXCEPT ![s] = c]
      /\ joined' = [joined EXCEPT ![s] =
           [broadcasts |-> Len(bcast[ch]), inFlight |-> saving, oldest |-> oldest]]
      /\ UNCHANGED <<made, saving, buf, bcast, queue, got, dropped>>
  BY DEF Connect, pipeline
<1>2. StreamType /\ BoundedInv /\ SessionInv(s) /\ ch \in Channels
  BY DEF StreamInv, OrderInv, Channel, Channels
<1>3. /\ catchup'[s] = c /\ joined'[s].inFlight = saving /\ joined'[s].oldest = oldest
      /\ phase'[s] = "catchup"
      /\ \A r \in Sessions \ {s} : /\ phase'[r] = phase[r] /\ catchup'[r] = catchup[r]
                                   /\ joined'[r] = joined[r]
  BY <1>1, <1>2 DEF StreamType
<1> HIDE DEF ch
<1>4. /\ buf[ch] \in Seq(Nat) /\ Distinct(buf[ch]) /\ ToSet(buf[ch]) \subseteq 1..made
      /\ CatchupMax[ch] \in Nat \ {0} /\ made \in Nat /\ saving \in Nat /\ saving <= made
  BY <1>2, SizesAssumption DEF StreamType, BoundedInv
<1>5. c = Newest(buf[ch], CatchupMax[ch])
  BY DEF Snapshot, ch
<1> HIDE DEF c
<1>6. c \in Seq(Nat) /\ Distinct(c) /\ ToSet(c) \subseteq 1..made
  BY <1>4, <1>5, NewestPrefix, DistinctNewest
<1>7. oldest <= made
  <2>1. c # <<>> => Last(c) \in ToSet(c)
    <3> SUFFICES ASSUME c # <<>> PROVE Last(c) \in ToSet(c)
      OBVIOUS
    <3>1. Len(c) \in 1..Len(c) /\ c[Len(c)] = Last(c)
      BY <1>6 DEF Last
    <3> QED BY <1>6, <3>1, MembersOf
  <2> QED BY <1>4, <1>6, <2>1
<1> HIDE DEF oldest
<1>8. got[s] = <<>> /\ queue[s] = <<>> /\ Few(s, <<>>, c, <<>>, saving) /\ ToSet(<<>>) = {}
  BY <1>1, <1>2, <1>6, FewFirst DEF SessionInv, ToSet
<1>9. SessionInv(s)'
  <2>1. /\ got'[s] = <<>> /\ queue'[s] = <<>> /\ dropped'[s] = dropped[s]
        /\ made' = made /\ saving' = saving
    BY <1>1, <1>8
  <2>2. Past(s)' = ToSet(c) /\ Channel(s)' = Channel(s)
    BY <1>3, <1>8, <2>1 DEF Past, Channel
  <2>3. Few(s, got'[s], catchup'[s], queue'[s], joined'[s].inFlight)
    BY <1>3, <1>8, <2>1
  <2>4. Past(s)' \cup ToSet(queue'[s]) \cup dropped'[s] \subseteq 1..made'
    BY <1>2, <1>6, <1>8, <2>1, <2>2 DEF SessionInv
  <2>5. Len(queue'[s]) <= QueueMax[Channel(s)]
    BY <1>1, <1>2 DEF SessionInv
  <2> QED BY <1>3, <1>4, <1>7, <1>8, <2>1, <2>2, <2>3, <2>4, <2>5 DEF SessionInv
<1> QED BY <1>1, <1>3, <1>9, OrderSession

LEMMA OrderSend ==
  ASSUME StreamInv, OrderInv, NEW s \in Sessions, SendCatchup(s) \/ SendLive(s)
  PROVE  OrderInv'
<1>1. /\ UNCHANGED <<made, saving, buf, bcast, phase, joined, dropped>> /\ phase[s] # "new"
      /\ StreamType /\ SessionInv(s)
  BY DEF SendCatchup, SendLive, pipeline, StreamInv, OrderInv
<1>2. got[s] \in Seq(Nat) /\ catchup[s] \in Seq(Nat) /\ queue[s] \in Seq(Nat)
  BY <1>1 DEF StreamType
<1>3. \A r \in Sessions \ {s} : got'[r] = got[r] /\ catchup'[r] = catchup[r] /\ queue'[r] = queue[r]
  BY <1>1 DEF SendCatchup, SendLive, StreamType
<1>4. /\ Few(s, got'[s], catchup'[s], queue'[s], joined[s].inFlight)
      /\ ToSet(queue'[s]) \subseteq ToSet(queue[s])
      /\ Past(s)' \cup ToSet(queue'[s]) \subseteq Past(s) \cup ToSet(queue[s])
      /\ queue'[s] \in Seq(Nat) /\ Len(queue'[s]) <= Len(queue[s])
  <2>1. CASE SendCatchup(s)
    <3>1. /\ catchup[s] # <<>> /\ queue'[s] = queue[s]
          /\ got'[s] = Append(got[s], Head(catchup[s])) /\ catchup'[s] = Tail(catchup[s])
      BY <1>1, <2>1 DEF SendCatchup, StreamType
    <3>2. Few(s, got'[s], catchup'[s], queue'[s], joined[s].inFlight)
      BY <1>1, <1>2, <3>1, FewReplayed DEF SessionInv
    <3>3. /\ Head(catchup[s]) \in Nat
          /\ ToSet(catchup[s]) = {Head(catchup[s])} \cup ToSet(Tail(catchup[s]))
      BY <1>2, <3>1, TailSet
    <3>4. ToSet(got'[s]) = ToSet(got[s]) \cup {Head(catchup[s])}
      BY <1>2, <3>1, <3>3, AppendSet
    <3>5. Past(s)' = Past(s)
      BY <3>1, <3>3, <3>4 DEF Past
    <3>6. queue'[s] \in Seq(Nat) /\ Len(queue'[s]) <= Len(queue[s])
      BY <1>2, <3>1
    <3> QED BY <3>1, <3>2, <3>5, <3>6
  <2>2. CASE SendLive(s)
    <3>1. /\ queue[s] # <<>> /\ catchup'[s] = catchup[s] /\ catchup[s] = <<>>
          /\ got'[s] = Append(got[s], Head(queue[s])) /\ queue'[s] = Tail(queue[s])
      BY <1>1, <2>2 DEF SendLive, StreamType, StreamInv, HandoverInv
    <3>2. Few(s, got'[s], catchup'[s], queue'[s], joined[s].inFlight)
      BY <1>1, <1>2, <3>1, FewSent DEF SessionInv
    <3>3. /\ Head(queue[s]) \in Nat
          /\ ToSet(queue[s]) = {Head(queue[s])} \cup ToSet(Tail(queue[s]))
      BY <1>2, <3>1, TailSet
    <3>4. ToSet(got'[s]) = ToSet(got[s]) \cup {Head(queue[s])}
      BY <1>2, <3>1, <3>3, AppendSet
    <3>5. /\ ToSet(queue'[s]) \subseteq ToSet(queue[s])
          /\ Past(s)' \cup ToSet(queue'[s]) \subseteq Past(s) \cup ToSet(queue[s])
      BY <3>1, <3>3, <3>4 DEF Past
    <3>6. queue'[s] \in Seq(Nat) /\ Len(queue'[s]) <= Len(queue[s])
      BY <1>2, <3>1
    <3> QED BY <3>2, <3>5, <3>6
  <2> QED BY <2>1, <2>2
<1>5. SessionInv(s)'
  <2>1. Channel(s)' = Channel(s) /\ Channel(s) \in Channels
    BY DEF Channel, Channels
  <2>2. Len(queue'[s]) <= QueueMax[Channel(s)]
    <3>1. Len(queue[s]) \in Nat /\ Len(queue[s]) <= QueueMax[Channel(s)]
      BY <1>1, <1>2 DEF SessionInv
    <3>2. Len(queue'[s]) \in Nat /\ QueueMax[Channel(s)] \in Nat
      BY <1>4, <2>1, SizesAssumption
    <3> QED BY <1>4, <3>1, <3>2
  <2>3. Past(s)' \cup ToSet(queue'[s]) \cup dropped'[s] \subseteq 1..made'
    BY <1>1, <1>4 DEF SessionInv
  <2>4. s \in StreamSessions /\ saving' # 0 =>
          saving' \notin ToSet(queue'[s])
          /\ (saving' \in Past(s)' => saving' = joined'[s].inFlight)
    BY <1>1, <1>4 DEF SessionInv
  <2>5. /\ joined'[s].inFlight <= made' /\ joined'[s].oldest <= made'
        /\ joined'[s] = joined[s] /\ phase'[s] # "new"
    BY <1>1 DEF SessionInv
  <2> QED BY <1>4, <2>1, <2>2, <2>3, <2>4, <2>5 DEF SessionInv
<1> QED BY <1>1, <1>3, <1>5, OrderSession

LEMMA OrderLeave ==
  ASSUME StreamInv, OrderInv, NEW s \in Sessions, CatchupBreaks(s) \/ GoLive(s) \/ Disconnect(s)
  PROVE  OrderInv'
<1>1. /\ UNCHANGED <<made, saving, buf, bcast, got, joined, dropped>>
      /\ StreamType /\ SessionInv(s)
  BY DEF CatchupBreaks, GoLive, Disconnect, pipeline, StreamInv, OrderInv
<1>2. /\ phase'[s] # "new"
      /\ \A r \in Sessions \ {s} : phase'[r] = phase[r] /\ catchup'[r] = catchup[r] /\ queue'[r] = queue[r]
      /\ catchup'[s] = catchup[s] \/ catchup'[s] = <<>>
      /\ queue'[s] = queue[s] \/ queue'[s] = <<>>
  BY <1>1 DEF CatchupBreaks, GoLive, Disconnect, StreamType
<1>3. Few(s, got[s], catchup'[s], queue'[s], joined[s].inFlight)
  <2>1. Few(s, got[s], catchup[s], queue[s], joined[s].inFlight)
    BY <1>1 DEF SessionInv
  <2>2. Few(s, got[s], catchup'[s], queue[s], joined[s].inFlight)
    BY <1>2, <2>1, FewLeft
  <2> QED BY <1>2, <2>2, FewLeft
<1>4. ToSet(<<>>) = {} /\ Len(<<>>) = 0
  BY DEF ToSet
<1>5. Past(s)' \subseteq Past(s) /\ ToSet(queue'[s]) \subseteq ToSet(queue[s])
  BY <1>1, <1>2, <1>4 DEF Past
<1>6. Channel(s)' = Channel(s) /\ Len(queue'[s]) <= QueueMax[Channel(s)]
  <2>1. Channel(s) \in Channels
    BY DEF Channel, Channels
  <2>2. 0 <= QueueMax[Channel(s)]
    BY <2>1, SizesAssumption
  <2> QED BY <1>1, <1>2, <1>4, <2>2 DEF SessionInv, Channel
<1>7. SessionInv(s)'
  BY <1>1, <1>2, <1>3, <1>5, <1>6 DEF SessionInv
<1> QED BY <1>1, <1>2, <1>7, OrderSession

LEMMA OrderStep == StreamInv /\ HandInv /\ OrderInv /\ [Next]_vars => OrderInv'
<1>1. OrderInv /\ UNCHANGED shared => OrderInv'
  BY DEF shared, OrderInv, BoundedInv, SessionInv, Past, Channel
<1> QED BY <1>1, YieldKeeps, OrderProcess, OrderSettle, OrderConnect, OrderSend, OrderLeave DEF Next

(***************************************************************************)
(* Every variable has its type, and no queue or buffer outgrows its limit. *)
(***************************************************************************)
THEOREM StreamTypes == Spec => []TypeOK
<1>1. ASSUME StreamInv, HandInv, OrderInv PROVE TypeOK
  <2>1. StreamType /\ OnlyBrokenReplayLeaks /\ BoundedInv /\ \A s \in Sessions : SessionInv(s)
    BY <1>1 DEF StreamInv, OrderInv
  <2>2. made \in 0..MaxTx /\ saving \in 0..MaxTx /\ 1..made \subseteq Messages
    BY <2>1, SizesAssumption DEF StreamType, BoundedInv, Messages
  <2>3. ASSUME NEW q \in Seq(Nat), ToSet(q) \subseteq 1..made PROVE q \in Seq(Messages)
    <3>1. \A i \in 1..Len(q) : q[i] \in Messages
      BY <2>2, <2>3, MembersOf
    <3> QED BY <3>1
  <2>4. ASSUME NEW ch \in Channels
        PROVE  /\ buf[ch] \in Seq(Messages) /\ Len(buf[ch]) <= BufMax[ch]
               /\ bcast[ch] \in Seq(Messages)
    <3>1. /\ buf[ch] \in Seq(Nat) /\ bcast[ch] \in Seq(Nat) /\ Len(buf[ch]) <= BufMax[ch]
          /\ ToSet(buf[ch]) \subseteq 1..made /\ ToSet(bcast[ch]) \subseteq 1..made
      BY <2>1 DEF StreamType, BoundedInv
    <3> QED BY <2>3, <3>1
  <2>5. ASSUME NEW s \in Sessions
        PROVE  /\ catchup[s] \in Seq(Messages) /\ queue[s] \in Seq(Messages)
               /\ got[s] \in Seq(Messages) /\ dropped[s] \subseteq Messages
               /\ Len(queue[s]) <= QueueMax[Channel(s)]
               /\ joined[s] \in [broadcasts : Nat, inFlight : 0..MaxTx, oldest : 0..MaxTx]
    <3>1. /\ catchup[s] \in Seq(Nat) /\ queue[s] \in Seq(Nat) /\ got[s] \in Seq(Nat)
          /\ joined[s] \in [broadcasts : Nat, inFlight : Nat, oldest : Nat]
      BY <2>1 DEF StreamType
    <3>2. /\ ToSet(got[s]) \subseteq 1..made /\ ToSet(catchup[s]) \subseteq 1..made
          /\ ToSet(queue[s]) \subseteq 1..made /\ dropped[s] \subseteq 1..made
          /\ Len(queue[s]) <= QueueMax[Channel(s)]
          /\ joined[s].inFlight <= made /\ joined[s].oldest <= made
      BY <2>1 DEF SessionInv, Past
    <3>3. joined[s].inFlight \in 0..MaxTx /\ joined[s].oldest \in 0..MaxTx
      BY <2>2, <3>1, <3>2, SizesAssumption
    <3>4. joined[s] \in [broadcasts : Nat, inFlight : 0..MaxTx, oldest : 0..MaxTx]
      BY <3>1, <3>3
    <3> QED BY <2>2, <2>3, <3>1, <3>2, <3>4
  <2>6. subs \subseteq Sessions
    BY <2>1 DEF OnlyBrokenReplayLeaks
  <2>7. buf \in [Channels -> Seq(Messages)] /\ bcast \in [Channels -> Seq(Messages)]
    BY <2>1, <2>4 DEF StreamType
  <2>8. /\ catchup \in [Sessions -> Seq(Messages)] /\ queue \in [Sessions -> Seq(Messages)]
        /\ got \in [Sessions -> Seq(Messages)] /\ dropped \in [Sessions -> SUBSET Messages]
    BY <2>1, <2>5 DEF StreamType
  <2>9. joined \in [Sessions -> [broadcasts : Nat, inFlight : 0..MaxTx, oldest : 0..MaxTx]]
    BY <2>1, <2>5 DEF StreamType
  <2>10. phase \in [Sessions -> {"new", "catchup", "live", "broken", "closed"}]
    BY <2>1 DEF StreamType, Phases
  <2> QED BY <2>2, <2>4, <2>5, <2>6, <2>7, <2>8, <2>9, <2>10, <1>1 DEF TypeOK, HandInv
<1> QED BY <1>1, HandInit, HandStep, StreamInit, StreamStep, OrderInit, OrderStep, PTL DEF Spec

(***************************************************************************)
(* A connection receives at most one message twice, the transaction that   *)
(* was being saved when it connected, and an alert never.                  *)
(***************************************************************************)
THEOREM NothingElseTwice == Spec => []OnlyInFlightTwice
<1>1. OrderInv => OnlyInFlightTwice
  BY DEF OrderInv, SessionInv, Few, OnlyInFlightTwice
<1> QED BY <1>1, HandInit, HandStep, StreamInit, StreamStep, OrderInit, OrderStep, PTL DEF Spec

(***************************************************************************)
(* The order of what a connection receives live.                           *)
(***************************************************************************)
(* Broadcast since the subscription; and of that, not dropped. *)
Sent(s) == {bcast[Channel(s)][i] : i \in (joined[s].broadcasts + 1)..Len(bcast[Channel(s)])}
Kept(s) == Sent(s) \ dropped[s]

(* Behind its first n entries, seq has the numbers of K, in order. *)
Rises(seq, n, K) ==
  /\ n \in 0..Len(seq)
  /\ \A i, j \in (n + 1)..Len(seq) : i < j => seq[i] < seq[j]
  /\ K = {seq[i] : i \in (n + 1)..Len(seq)}

FifoInv(s) ==
  /\ joined[s].broadcasts <= Len(bcast[Channel(s)])
  /\ dropped[s] \subseteq ToSet(bcast[Channel(s)])
  /\ phase[s] = "catchup" => Rises(queue[s], 0, Kept(s))
  /\ phase[s] = "live" => \E n \in 0..Len(got[s]) : Rises(got[s] \o queue[s], n, Kept(s))

LineInv ==
  /\ saving # 0 => \A m \in ToSet(bcast["tx"]) : m < saving
  /\ \A s \in Sessions : FifoInv(s)

LEMMA RisesAppend ==
  ASSUME NEW seq \in Seq(Nat), NEW n, NEW K, Rises(seq, n, K), NEW m \in Nat, \A k \in K : k < m
  PROVE  Rises(Append(seq, m), n, K \cup {m})
<1> DEFINE t == Append(seq, m)
<1>1. /\ Len(t) = Len(seq) + 1 /\ t[Len(seq) + 1] = m /\ Len(seq) \in Nat
      /\ \A i \in 1..Len(seq) : t[i] = seq[i]
  OBVIOUS
<1>2. n \in 0..Len(seq) /\ K = {seq[i] : i \in (n + 1)..Len(seq)}
  BY DEF Rises
<1> HIDE DEF t
<1>3. /\ \A i \in (n + 1)..Len(t) : i = Len(seq) + 1 \/ (i \in (n + 1)..Len(seq) /\ t[i] = seq[i])
      /\ \A i \in (n + 1)..Len(seq) : i \in (n + 1)..Len(t) /\ t[i] = seq[i]
      /\ Len(seq) + 1 \in (n + 1)..Len(t) /\ n \in 0..Len(t)
  BY <1>1, <1>2
<1>4. K \cup {m} = {t[i] : i \in (n + 1)..Len(t)}
  BY <1>1, <1>2, <1>3
<1>5. ASSUME NEW i \in (n + 1)..Len(t), NEW j \in (n + 1)..Len(t), i < j
      PROVE  t[i] < t[j]
  <2>1. i \in (n + 1)..Len(seq) /\ t[i] = seq[i]
    BY <1>1, <1>2, <1>3, <1>5
  <2>2. CASE j = Len(seq) + 1
    BY <1>1, <1>2, <2>1, <2>2
  <2>3. CASE j \in (n + 1)..Len(seq) /\ t[j] = seq[j]
    BY <1>5, <2>1, <2>3 DEF Rises
  <2> QED BY <1>3, <2>2, <2>3
<1> QED BY <1>3, <1>4, <1>5 DEF Rises, t

LEMMA RisesBehind ==
  ASSUME NEW g \in Seq(Nat), NEW q \in Seq(Nat), NEW K, Rises(q, 0, K)
  PROVE  Rises(g \o q, Len(g), K)
<1> DEFINE t == g \o q
           n == Len(g)
<1>1. /\ Len(t) = n + Len(q) /\ n \in Nat /\ Len(q) \in Nat
      /\ \A i \in 1..Len(q) : t[n + i] = q[i]
  OBVIOUS
<1> HIDE DEF t, n
<1>2. \A i \in (n + 1)..Len(t) : i - n \in 1..Len(q) /\ t[i] = q[i - n]
  <2> SUFFICES ASSUME NEW i \in (n + 1)..Len(t) PROVE i - n \in 1..Len(q) /\ t[i] = q[i - n]
    OBVIOUS
  <2>1. i - n \in 1..Len(q) /\ n + (i - n) = i
    BY <1>1
  <2>2. t[n + (i - n)] = q[i - n]
    BY <1>1, <2>1
  <2> QED BY <2>1, <2>2
<1>3. \A i \in 1..Len(q) : n + i \in (n + 1)..Len(t) /\ t[n + i] = q[i]
  BY <1>1
<1>4. K = {q[i] : i \in 1..Len(q)} /\ \A i, j \in 1..Len(q) : i < j => q[i] < q[j]
  BY DEF Rises
<1>5. K = {t[i] : i \in (n + 1)..Len(t)}
  <2>1. K \subseteq {t[i] : i \in (n + 1)..Len(t)}
    BY <1>3, <1>4
  <2>2. {t[i] : i \in (n + 1)..Len(t)} \subseteq K
    BY <1>2, <1>4
  <2> QED BY <2>1, <2>2
<1>6. ASSUME NEW i \in (n + 1)..Len(t), NEW j \in (n + 1)..Len(t), i < j
      PROVE  t[i] < t[j]
  <2>1. i - n < j - n
    BY <1>1, <1>6
  <2>2. /\ i - n \in 1..Len(q) /\ t[i] = q[i - n]
        /\ j - n \in 1..Len(q) /\ t[j] = q[j - n]
    BY <1>2
  <2> QED BY <1>4, <2>1, <2>2
<1>7. n \in 0..Len(t)
  BY <1>1
<1> QED BY <1>5, <1>6, <1>7 DEF Rises, t, n

(* Queueing adds behind all that was sent or waits; sending moves the border. *)
LEMMA BehindAll ==
  ASSUME NEW g \in Seq(Nat), NEW q \in Seq(Nat)
  PROVE  /\ \A m \in Nat : g \o Append(q, m) = Append(g \o q, m)
         /\ q # <<>> => Append(g, Head(q)) \o Tail(q) = g \o q
<1>1. ASSUME NEW m \in Nat PROVE g \o Append(q, m) = Append(g \o q, m)
  <2> DEFINE t == g \o Append(q, m)
             u == Append(g \o q, m)
  <2>1. t \in Seq(Nat) /\ u \in Seq(Nat) /\ Len(t) = Len(u)
    OBVIOUS
  <2>2. ASSUME NEW i \in 1..Len(t) PROVE t[i] = u[i]
    OBVIOUS
  <2> QED BY <2>1, <2>2, SeqEqual
<1>2. ASSUME q # <<>> PROVE Append(g, Head(q)) \o Tail(q) = g \o q
  <2> DEFINE h == Append(g, Head(q))
             t == h \o Tail(q)
             u == g \o q
  <2>1. /\ Head(q) = q[1] /\ Tail(q) \in Seq(Nat) /\ Len(Tail(q)) = Len(q) - 1
        /\ Len(q) \in Nat \ {0} /\ q[1] \in Nat /\ Len(g) \in Nat
        /\ \A i \in 1..Len(Tail(q)) : Tail(q)[i] = q[i + 1]
    BY <1>2
  <2>2. h \in Seq(Nat) /\ Len(h) = Len(g) + 1
    BY <2>1
  <2>3. h[Len(g) + 1] = q[1] /\ \A i \in 1..Len(g) : h[i] = g[i]
    BY <2>1
  <2> HIDE DEF h
  <2>4. t \in Seq(Nat) /\ u \in Seq(Nat) /\ Len(t) = Len(g) + Len(q) /\ Len(u) = Len(g) + Len(q)
    BY <2>1, <2>2
  <2>5. ASSUME NEW i \in 1..(Len(g) + Len(q)) PROVE t[i] = u[i]
    <3>0. i \in Int /\ Len(g) \in Nat
      BY <2>1
    <3>1. t[i] = IF i <= Len(h) THEN h[i] ELSE Tail(q)[i - Len(h)]
      <4>1. i \in 1..(Len(h) + Len(Tail(q)))
        BY <2>1, <2>2
      <4>2. Tail(q) \in Seq(Nat) /\ h \in Seq(Nat)
        BY <2>1, <2>2
      <4> QED BY <4>1, <4>2, ConcatProperties
    <3>2. u[i] = IF i <= Len(g) THEN g[i] ELSE q[i - Len(g)]
      BY ConcatProperties
    <3>3. CASE i <= Len(g)
      <4>1. i \in 1..Len(g) /\ i <= Len(h)
        BY <2>1, <2>2, <3>3
      <4> QED BY <2>3, <3>1, <3>2, <3>3, <4>1
    <3>4. CASE i = Len(g) + 1
      <4>1. i <= Len(h) /\ ~(i <= Len(g)) /\ i - Len(g) = 1
        BY <2>1, <2>2, <3>4
      <4> QED BY <2>3, <3>1, <3>2, <3>4, <4>1
    <3>5. CASE i > Len(g) + 1
      <4>1. /\ ~(i <= Len(h)) /\ ~(i <= Len(g)) /\ i - Len(h) \in 1..Len(Tail(q))
            /\ i - Len(h) + 1 = i - Len(g)
        BY <2>1, <2>2, <3>5
      <4> QED BY <2>1, <3>1, <3>2, <4>1
    <3>6. i <= Len(g) \/ i = Len(g) + 1 \/ i > Len(g) + 1
      BY <3>0
    <3> QED BY <3>3, <3>4, <3>5, <3>6
  <2> HIDE DEF t, u
  <2>6. t = u
    BY <2>4, <2>5, SeqEqual
  <2> QED BY <2>6 DEF t, u, h
<1> QED BY <1>1, <1>2

LEMMA RisesIsSuffix ==
  ASSUME NEW seq \in Seq(Nat), NEW n, NEW K, Rises(seq, n, K)
  PROVE  LET t == SubSeq(seq, Len(seq) - Cardinality(K) + 1, Len(seq))
         IN  ToSet(t) = K /\ \A i, j \in 1..Len(t) : i < j => t[i] < t[j]
<1> DEFINE I == (n + 1)..Len(seq)
           f == [i \in I |-> seq[i]]
<1>1. Len(seq) \in Nat /\ n \in 0..Len(seq) /\ K = {seq[i] : i \in I}
  BY DEF Rises
<1>2. \A i, j \in I : i < j => seq[i] < seq[j]
  BY DEF Rises
<1>3. \A i \in I : i \in 1..Len(seq) /\ seq[i] \in Nat
  BY <1>1
<1>4. f \in Bijection(I, K)
  <2>1. f \in Surjection(I, K)
    BY <1>1 DEF Surjection
  <2>2. ASSUME NEW i \in I, NEW j \in I, f[i] = f[j] PROVE i = j
    <3>1. seq[i] = seq[j] /\ seq[i] \in Nat /\ seq[j] \in Nat
      BY <1>3, <2>2
    <3>2. ~(i < j) /\ ~(j < i)
      BY <1>2, <3>1
    <3> QED BY <1>3, <3>2
  <2>3. f \in Injection(I, K)
    BY <1>1, <2>2 DEF Injection, IsInjective
  <2> QED BY <2>1, <2>3 DEF Bijection
<1>5. IsFiniteSet(I) /\ Cardinality(I) = Len(seq) - n
  <2>1. n + 1 \in Int /\ Len(seq) \in Int
    BY <1>1
  <2>2. IsFiniteSet(I) /\ Cardinality(I) = IF n + 1 > Len(seq) THEN 0 ELSE Len(seq) - (n + 1) + 1
    BY <2>1, FS_Interval
  <2> QED BY <1>1, <2>2
<1>6. Cardinality(K) = Len(seq) - n
  <2>1. ExistsBijection(I, K)
    BY <1>4 DEF ExistsBijection
  <2> QED BY <1>5, <2>1, FS_Bijection
<1> DEFINE t == SubSeq(seq, n + 1, Len(seq))
<1>7. /\ t \in Seq(Nat) /\ Len(t) = Len(seq) - n
      /\ \A i \in 1..Len(t) : t[i] = seq[n + i]
  BY <1>1
<1>8. SubSeq(seq, Len(seq) - Cardinality(K) + 1, Len(seq)) = t
  <2>1. Len(seq) - Cardinality(K) + 1 = n + 1
    BY <1>1, <1>6
  <2> QED BY <2>1
<1> HIDE DEF t, f
<1>9. \A i \in 1..Len(t) : n + i \in I
  BY <1>1, <1>7
<1>10. \A i \in I : i - n \in 1..Len(t) /\ t[i - n] = seq[i]
  <2> SUFFICES ASSUME NEW i \in I PROVE i - n \in 1..Len(t) /\ t[i - n] = seq[i]
    OBVIOUS
  <2>1. i - n \in 1..Len(t) /\ n + (i - n) = i
    BY <1>1, <1>7
  <2> QED BY <1>7, <2>1
<1>11. ToSet(t) = K
  <2>1. \A m : m \in K <=> \E i \in I : seq[i] = m
    BY <1>1
  <2>2. \A m : (\E i \in I : seq[i] = m) <=> \E i \in 1..Len(t) : t[i] = m
    BY <1>7, <1>9, <1>10
  <2>3. \A m : m \in ToSet(t) <=> \E i \in 1..Len(t) : t[i] = m
    BY <1>7, MembersOf
  <2> QED BY <2>1, <2>2, <2>3
<1>12. ASSUME NEW i \in 1..Len(t), NEW j \in 1..Len(t), i < j PROVE t[i] < t[j]
  <2>1. n + i < n + j
    BY <1>1, <1>12
  <2> QED BY <1>2, <1>7, <1>9, <2>1
<1> QED BY <1>8, <1>11, <1>12

LEMMA LineInit == Init => LineInv
<1> SUFFICES ASSUME Init PROVE LineInv
  OBVIOUS
<1>1. ASSUME NEW s \in Sessions PROVE FifoInv(s)
  <2>1. Channel(s) \in Channels
    BY DEF Channel, Channels
  <2>2. /\ joined[s].broadcasts = 0 /\ bcast[Channel(s)] = <<>> /\ dropped[s] = {}
        /\ phase[s] = "new"
    BY <2>1 DEF Init, Nobody
  <2> QED BY <2>2 DEF FifoInv
<1> QED BY <1>1 DEF Init, LineInv

(* A broadcast of a number above all that came before it on the channel. *)
LEMMA FifoDeliver ==
  ASSUME StreamType, OnlyBrokenReplayLeaks, NEW ch \in Channels, NEW m \in Nat, Deliver(ch, m),
         UNCHANGED <<phase, got, joined>>,
         \A x \in ToSet(bcast[ch]) : x < m,
         NEW s \in Sessions, FifoInv(s)
  PROVE  FifoInv(s)'
<1>1. /\ bcast' = [bcast EXCEPT ![ch] = Append(bcast[ch], m)]
      /\ queue'[s] = IF s \in Receivers(ch) THEN Enqueue(queue[s], m, QueueMax[ch]) ELSE queue[s]
      /\ dropped'[s] = IF s \in Receivers(ch) /\ Len(queue[s]) >= QueueMax[ch]
                       THEN dropped[s] \cup {m} ELSE dropped[s]
  BY DEF Deliver
<1>2. CASE Channel(s) # ch
  <2>1. s \notin Receivers(ch) /\ Channel(s)' = Channel(s)
    BY <1>2 DEF Receivers, Channel
  <2>2. bcast'[Channel(s)] = bcast[Channel(s)]
    BY <1>1, <1>2, <2>1 DEF StreamType, Channel, Channels
  <2>3. Kept(s)' = Kept(s)
    BY <1>1, <2>1, <2>2 DEF Kept, Sent
  <2> QED BY <1>1, <2>1, <2>2, <2>3 DEF FifoInv
<1>3. CASE Channel(s) = ch
  <2> DEFINE t == bcast[ch]
             from == joined[s].broadcasts
  <2>1. /\ t \in Seq(Nat) /\ from \in Nat /\ from <= Len(t) /\ dropped[s] \subseteq ToSet(t)
        /\ queue[s] \in Seq(Nat) /\ got[s] \in Seq(Nat) /\ Len(queue[s]) \in Nat
        /\ QueueMax[ch] \in Nat
    BY <1>3, SizesAssumption DEF StreamType, FifoInv
  <2>2. bcast'[ch] = Append(t, m) /\ Channel(s)' = ch
    BY <1>1, <1>3 DEF StreamType, Channel
  <2> HIDE DEF t, from
  <2>3. /\ Len(Append(t, m)) = Len(t) + 1 /\ Append(t, m)[Len(t) + 1] = m /\ Len(t) \in Nat
        /\ \A i \in 1..Len(t) : Append(t, m)[i] = t[i]
    BY <2>1
  <2>4. Sent(s) = {t[i] : i \in (from + 1)..Len(t)}
    BY <1>3 DEF Sent, t, from
  <2>5. Sent(s)' = {Append(t, m)[i] : i \in (from + 1)..(Len(t) + 1)}
    BY <2>2, <2>3 DEF Sent, from
  <2>6. Sent(s)' = Sent(s) \cup {m}
    <3>1. /\ \A i \in (from + 1)..(Len(t) + 1) : i = Len(t) + 1 \/ i \in (from + 1)..Len(t)
          /\ \A i \in (from + 1)..Len(t) : i \in (from + 1)..(Len(t) + 1) /\ i \in 1..Len(t)
          /\ Len(t) + 1 \in (from + 1)..(Len(t) + 1)
      BY <2>1, <2>3
    <3> QED BY <2>3, <2>4, <2>5, <3>1
  <2>7. \A x \in ToSet(t) : x < m
    BY DEF t
  <2>8. Sent(s) \subseteq ToSet(t)
    <3>1. \A i \in (from + 1)..Len(t) : i \in 1..Len(t)
      BY <2>1
    <3>2. \A i \in 1..Len(t) : t[i] \in ToSet(t)
      BY <2>1, MembersOf
    <3> QED BY <2>4, <3>1, <3>2
  <2>9. m \notin ToSet(t)
    BY <2>7
  <2>10. from <= Len(bcast'[ch]) /\ dropped'[s] \subseteq ToSet(bcast'[ch])
    <3>1. ToSet(bcast'[ch]) = ToSet(t) \cup {m}
      BY <2>1, <2>2, AppendSet
    <3>2. dropped'[s] \subseteq dropped[s] \cup {m}
      BY <1>1
    <3>3. dropped'[s] \subseteq ToSet(bcast'[ch])
      BY <2>1, <3>1, <3>2
    <3>4. Len(bcast'[ch]) = Len(t) + 1
      BY <2>2, <2>3
    <3> QED BY <2>1, <2>3, <3>3, <3>4
  <2>11. CASE ~Open(s)
    BY <2>2, <2>10, <2>11 DEF FifoInv, Open, from
  <2>12. CASE Open(s)
    <3>1. s \in Receivers(ch)
      BY <1>3, <2>12 DEF Receivers, OnlyBrokenReplayLeaks
    <3>2. \A k \in Kept(s) : k < m
      BY <2>7, <2>8 DEF Kept
    <3>3. CASE Len(queue[s]) < QueueMax[ch]
      <4>1. queue'[s] = Append(queue[s], m) /\ dropped'[s] = dropped[s]
        BY <1>1, <2>1, <3>1, <3>3 DEF Enqueue
      <4>2. Kept(s)' = Kept(s) \cup {m}
        BY <2>1, <2>6, <2>9, <4>1 DEF Kept
      <4>3. phase[s] = "catchup" => Rises(queue'[s], 0, Kept(s)')
        <5> SUFFICES ASSUME phase[s] = "catchup" PROVE Rises(queue'[s], 0, Kept(s)')
          OBVIOUS
        <5>1. Rises(queue[s], 0, Kept(s))
          BY DEF FifoInv
        <5>2. Rises(Append(queue[s], m), 0, Kept(s) \cup {m})
          BY <2>1, <3>2, <5>1, RisesAppend
        <5> QED BY <4>1, <4>2, <5>2
      <4>4. ASSUME phase[s] = "live"
            PROVE  \E n \in 0..Len(got[s]) : Rises(got[s] \o queue'[s], n, Kept(s)')
        <5>1. PICK n \in 0..Len(got[s]) : Rises(got[s] \o queue[s], n, Kept(s))
          BY <4>4 DEF FifoInv
        <5>2. /\ got[s] \o queue[s] \in Seq(Nat)
              /\ got[s] \o queue'[s] = Append(got[s] \o queue[s], m)
          <6>1. got[s] \o Append(queue[s], m) = Append(got[s] \o queue[s], m)
            BY <2>1, BehindAll
          <6>2. got[s] \o queue[s] \in Seq(Nat)
            BY <2>1
          <6> QED BY <4>1, <6>1, <6>2
        <5>3. Rises(Append(got[s] \o queue[s], m), n, Kept(s) \cup {m})
          BY <3>2, <5>1, <5>2, RisesAppend
        <5>4. Rises(got[s] \o queue'[s], n, Kept(s)')
          BY <4>2, <5>2, <5>3
        <5> QED BY <5>4
      <4> QED BY <2>2, <2>10, <4>3, <4>4 DEF FifoInv, from
    <3>4. CASE ~(Len(queue[s]) < QueueMax[ch])
      <4>1. queue'[s] = queue[s] /\ dropped'[s] = dropped[s] \cup {m}
        BY <1>1, <2>1, <3>1, <3>4 DEF Enqueue
      <4>2. Kept(s)' = Kept(s)
        BY <2>6, <2>8, <2>9, <4>1 DEF Kept
      <4> QED BY <2>2, <2>10, <4>1, <4>2 DEF FifoInv, from
    <3> QED BY <3>3, <3>4
  <2> QED BY <2>11, <2>12
<1> QED BY <1>2, <1>3

LEMMA LinePipeline ==
  ASSUME StreamInv, OrderInv, LineInv,
         (\E flagged \in BOOLEAN : Process(flagged)) \/ Broadcast \/ SaveAborts
  PROVE  LineInv'
<1>1. /\ StreamType /\ OnlyBrokenReplayLeaks /\ BoundedInv /\ \A s \in Sessions : FifoInv(s)
      /\ made \in Nat /\ saving \in Nat
  BY DEF StreamInv, StreamType, OrderInv, LineInv
<1>2. ASSUME UNCHANGED <<bcast, queue, dropped, phase, got, joined>>, NEW s \in Sessions
      PROVE  FifoInv(s)'
  <2>1. FifoInv(s) /\ Kept(s)' = Kept(s) /\ Channel(s)' = Channel(s)
    BY <1>1, <1>2 DEF Kept, Sent, Channel
  <2> QED BY <1>2, <2>1 DEF FifoInv
<1>3. ASSUME NEW ch \in Channels, NEW x \in ToSet(bcast[ch]) PROVE x \in Nat /\ x <= made
  <2>1. x \in 1..made
    BY <1>1 DEF BoundedInv
  <2> QED BY <1>1, <2>1
<1>4. ASSUME NEW flagged \in BOOLEAN, Process(flagged) PROVE LineInv'
  <2>1. /\ saving' = made + 1 /\ UNCHANGED <<phase, got, joined>>
        /\ IF flagged THEN Deliver("alert", made + 1) ELSE Keep
    BY <1>4 DEF Process
  <2>2. "alert" \in Channels /\ "tx" \in Channels /\ made + 1 \in Nat
    BY <1>1 DEF Channels
  <2>3. \A ch \in Channels : \A x \in ToSet(bcast[ch]) : x < made + 1
    BY <1>1, <1>3
  <2>4. bcast'["tx"] = bcast["tx"]
    BY <1>1, <2>1, <2>2 DEF Deliver, Keep, StreamType
  <2>5. ASSUME NEW s \in Sessions PROVE FifoInv(s)'
    <3>1. CASE flagged
      BY <1>1, <2>1, <2>2, <2>3, <3>1, FifoDeliver
    <3>2. CASE ~flagged
      BY <1>2, <2>1, <3>2 DEF Keep
    <3> QED BY <3>1, <3>2
  <2> QED BY <2>1, <2>2, <2>3, <2>4, <2>5 DEF LineInv
<1>5. CASE Broadcast
  <2>1. /\ saving # 0 /\ saving' = 0 /\ UNCHANGED <<phase, got, joined>>
        /\ Deliver("tx", saving) /\ "tx" \in Channels
    BY <1>5 DEF Broadcast, Channels
  <2>2. \A x \in ToSet(bcast["tx"]) : x < saving
    BY <2>1 DEF LineInv
  <2>3. \A s \in Sessions : FifoInv(s)'
    BY <1>1, <2>1, <2>2, FifoDeliver
  <2> QED BY <2>1, <2>3 DEF LineInv
<1>6. CASE SaveAborts
  <2>1. saving' = 0 /\ UNCHANGED <<bcast, queue, dropped, phase, got, joined>>
    BY <1>6 DEF SaveAborts, Keep
  <2>2. \A s \in Sessions : FifoInv(s)'
    BY <1>2, <2>1
  <2> QED BY <2>1, <2>2 DEF LineInv
<1> QED BY <1>4, <1>5, <1>6

(* A step of one connection. *)
LEMMA LineSession ==
  ASSUME LineInv, NEW s \in Sessions, UNCHANGED <<saving, bcast, dropped>>,
         \A r \in Sessions \ {s} : /\ phase'[r] = phase[r] /\ queue'[r] = queue[r]
                                   /\ got'[r] = got[r] /\ joined'[r] = joined[r],
         FifoInv(s)'
  PROVE  LineInv'
<1>1. ASSUME NEW r \in Sessions PROVE FifoInv(r)'
  <2>1. CASE r = s
    BY <2>1
  <2>2. CASE r # s
    <3>1. FifoInv(r) /\ Kept(r)' = Kept(r) /\ Channel(r)' = Channel(r)
      BY <2>2 DEF LineInv, Kept, Sent, Channel
    <3> QED BY <2>2, <3>1 DEF FifoInv
  <2> QED BY <2>1, <2>2
<1> QED BY <1>1 DEF LineInv

LEMMA LineConnect ==
  ASSUME StreamInv, OrderInv, LineInv, NEW s \in Sessions, Connect(s)
  PROVE  LineInv'
<1> DEFINE ch == Channel(s)
<1>1. /\ StreamType /\ FifoInv(s) /\ phase[s] = "new" /\ queue[s] = <<>> /\ ch \in Channels
  BY DEF StreamInv, OrderInv, LineInv, SessionInv, Connect, Channel, Channels
<1>2. /\ phase'[s] = "catchup" /\ joined'[s].broadcasts = Len(bcast[ch])
      /\ UNCHANGED <<saving, bcast, dropped, queue, got>>
      /\ \A r \in Sessions \ {s} : phase'[r] = phase[r] /\ joined'[r] = joined[r]
  BY <1>1 DEF Connect, pipeline, StreamType
<1>3. Len(bcast[ch]) \in Nat /\ Channel(s)' = ch
  BY <1>1 DEF StreamType, Channel
<1> HIDE DEF ch
<1>4. Kept(s)' = {}
  <2>1. (Len(bcast[ch]) + 1)..Len(bcast[ch]) = {}
    BY <1>3
  <2> QED BY <1>2, <1>3, <2>1 DEF Kept, Sent
<1>5. Rises(<<>>, 0, {})
  BY DEF Rises
<1>6. FifoInv(s)'
  BY <1>1, <1>2, <1>3, <1>4, <1>5 DEF FifoInv, ch
<1> QED BY <1>2, <1>6, LineSession

LEMMA LineSend ==
  ASSUME StreamInv, LineInv, NEW s \in Sessions, SendCatchup(s) \/ SendLive(s)
  PROVE  LineInv'
<1>1. /\ StreamType /\ FifoInv(s) /\ UNCHANGED <<saving, bcast, dropped, phase, joined>>
  BY DEF StreamInv, LineInv, SendCatchup, SendLive, pipeline
<1>2. \A r \in Sessions \ {s} : got'[r] = got[r] /\ queue'[r] = queue[r]
  BY <1>1 DEF SendCatchup, SendLive, StreamType
<1>3. Kept(s)' = Kept(s) /\ Channel(s)' = Channel(s)
  BY <1>1 DEF Kept, Sent, Channel
<1>4. CASE SendCatchup(s)
  <2>1. phase[s] = "catchup" /\ queue'[s] = queue[s]
    BY <1>4 DEF SendCatchup
  <2>2. FifoInv(s)'
    BY <1>1, <1>3, <2>1 DEF FifoInv
  <2> QED BY <1>1, <1>2, <2>2, LineSession
<1>5. CASE SendLive(s)
  <2>1. /\ phase[s] = "live" /\ queue[s] # <<>> /\ queue'[s] = Tail(queue[s])
        /\ got'[s] = Append(got[s], Head(queue[s]))
        /\ got[s] \in Seq(Nat) /\ queue[s] \in Seq(Nat)
    BY <1>1, <1>5 DEF SendLive, StreamType
  <2>2. got'[s] \o queue'[s] = got[s] \o queue[s]
    BY <2>1, BehindAll
  <2>3. Len(got'[s]) = Len(got[s]) + 1 /\ Len(got[s]) \in Nat
    BY <2>1
  <2>4. PICK n \in 0..Len(got[s]) : Rises(got[s] \o queue[s], n, Kept(s))
    BY <1>1, <2>1 DEF FifoInv
  <2>5. n \in 0..Len(got'[s]) /\ Rises(got'[s] \o queue'[s], n, Kept(s)')
    BY <1>3, <2>2, <2>3, <2>4
  <2>6. FifoInv(s)'
    BY <1>1, <1>3, <2>1, <2>5 DEF FifoInv
  <2> QED BY <1>1, <1>2, <2>6, LineSession
<1> QED BY <1>4, <1>5

LEMMA LineLeave ==
  ASSUME StreamInv, LineInv, NEW s \in Sessions, CatchupBreaks(s) \/ GoLive(s) \/ Disconnect(s)
  PROVE  LineInv'
<1>1. /\ StreamType /\ FifoInv(s) /\ UNCHANGED <<saving, bcast, dropped, got, joined>>
  BY DEF StreamInv, LineInv, CatchupBreaks, GoLive, Disconnect, pipeline
<1>2. \A r \in Sessions \ {s} : phase'[r] = phase[r] /\ queue'[r] = queue[r]
  BY <1>1 DEF CatchupBreaks, GoLive, Disconnect, StreamType
<1>3. Kept(s)' = Kept(s) /\ Channel(s)' = Channel(s)
  BY <1>1 DEF Kept, Sent, Channel
<1>4. FifoInv(s)'
  <2>1. CASE CatchupBreaks(s) \/ Disconnect(s)
    <3>1. phase'[s] \in {"broken", "closed"}
      BY <1>1, <2>1 DEF CatchupBreaks, Disconnect, StreamType
    <3> QED BY <1>1, <1>3, <3>1 DEF FifoInv
  <2>2. CASE GoLive(s)
    <3>1. /\ phase[s] = "catchup" /\ phase'[s] = "live" /\ queue'[s] = queue[s]
          /\ got[s] \in Seq(Nat) /\ queue[s] \in Seq(Nat)
      BY <1>1, <2>2 DEF GoLive, StreamType
    <3>2. Rises(got[s] \o queue[s], Len(got[s]), Kept(s))
      BY <1>1, <3>1, RisesBehind DEF FifoInv
    <3>3. Len(got[s]) \in 0..Len(got[s])
      BY <3>1
    <3> QED BY <1>1, <1>3, <3>1, <3>2, <3>3 DEF FifoInv
  <2> QED BY <2>1, <2>2
<1> QED BY <1>1, <1>2, <1>4, LineSession

LEMMA LineStep == StreamInv /\ OrderInv /\ LineInv /\ [Next]_vars => LineInv'
<1>1. LineInv /\ UNCHANGED shared => LineInv'
  BY DEF shared, LineInv, FifoInv, Kept, Sent, Channel
<1> QED BY <1>1, YieldKeeps, LinePipeline, LineConnect, LineSend, LineLeave DEF Next

(***************************************************************************)
(* A live connection receives every broadcast since its subscription but   *)
(* the dropped ones, in order.                                             *)
(***************************************************************************)
THEOREM QueueIsFifo == Spec => []LiveIsFifo
<1>1. ASSUME StreamInv, LineInv PROVE LiveIsFifo
  <2> SUFFICES ASSUME NEW s \in Sessions, phase[s] = "live"
               PROVE  LET both == got[s] \o queue[s]
                          live == SubSeq(both, Len(both) - Cardinality(Kept(s)) + 1, Len(both))
                      IN  ToSet(live) = Kept(s)
                          /\ \A i, j \in 1..Len(live) : i < j => live[i] < live[j]
    BY DEF LiveIsFifo, Kept, Sent
  <2>1. got[s] \o queue[s] \in Seq(Nat)
    BY <1>1 DEF StreamInv, StreamType
  <2>2. PICK n : Rises(got[s] \o queue[s], n, Kept(s))
    BY <1>1 DEF LineInv, FifoInv
  <2> QED BY <2>1, <2>2, RisesIsSuffix
<1> QED BY <1>1, HandInit, HandStep, StreamInit, StreamStep, OrderInit, OrderStep, LineInit, LineStep, PTL DEF Spec

(***************************************************************************)
(* The browser's end of the streams, for any numbers of sockets, mounts    *)
(* and attempts: websocket.ts as WsClient models it.                       *)
(***************************************************************************)
(* The least element of a set of numbers: Min as the model takes it. *)
Less == {p \in Nat \X Nat : p[1] < p[2]}

LEMMA SmallestOf ==
  ASSUME NEW S \in SUBSET Nat, S # {}
  PROVE  Min(S) \in S
<1>1. OpToRel(<, Nat) = Less
  BY Zenon DEF OpToRel, Less
<1>2. IsWellFoundedOn(Less, Nat)
  BY <1>1, NatLessThanWellFounded, Zenon
<1>3. PICK x \in S : \A y \in S : <<y, x>> \notin Less
  BY <1>2, WFMin
<1>4. ASSUME NEW y \in S, y < x PROVE FALSE
  <2>1. <<y, x>> \in Less
    BY <1>4 DEF Less
  <2> QED BY <1>3, <2>1
<1>5. \A y \in S : x <= y
  BY <1>4
<1> QED BY <1>5 DEF Min

LEMMA WithoutOne ==
  ASSUME NEW S, IsFiniteSet(S), NEW x
  PROVE  /\ Cardinality(S) \in Nat /\ Cardinality(S \ {x}) \in Nat
         /\ Cardinality(S) <= Cardinality(S \ {x}) + 1
<1>1. Cardinality(S) \in Nat
  BY FS_CardinalityType
<1>2. CASE x \in S
  <2>1. Cardinality(S \ {x}) = Cardinality(S) - 1 /\ IsFiniteSet(S \ {x})
    BY <1>2, FS_RemoveElement
  <2>2. Cardinality(S \ {x}) \in Nat
    BY <2>1, FS_CardinalityType
  <2> QED BY <1>1, <2>1, <2>2
<1>3. CASE x \notin S
  <2>1. S \ {x} = S
    BY <1>3
  <2> QED BY <1>1, <2>1
<1> QED BY <1>2, <1>3

States == {"unused", "connecting", "open", "closing", "closed"}
HalfType ==
  [socket : [Ids -> States], current : {None} \cup Ids, timers : SUBSET Ids,
   timer : {None} \cup Ids, attempts : 0..CapAttempts, late : Nat]

(* The sockets that work and are not the one held. *)
Strays(h) == Live(h) \ {h.current}

(* A stream's part.  A late onclose forgets the socket held, so it is counted
   before it can leave a stray socket or a timer that is not the recorded one. *)
HalfInv(h) ==
  /\ h \in HalfType
  /\ h.current \notin In(h, "unused") \cup In(h, "closed")
  /\ h.late <= Cardinality(In(h, "closed"))
  /\ Cardinality(Strays(h)) <= h.late
  /\ h.late = 0 /\ h.current # None => h.timers = {}
  /\ h.late = 0 => h.timers \subseteq {h.timer}

LEMMA Sockets ==
  ASSUME NEW h \in HalfType
  PROVE  /\ \A state : In(h, state) \subseteq Ids /\ IsFiniteSet(In(h, state))
                       /\ Cardinality(In(h, state)) \in 0..MaxSockets
         /\ IsFiniteSet(Live(h)) /\ Live(h) \subseteq Ids
         /\ IsFiniteSet(Strays(h)) /\ Cardinality(Strays(h)) \in Nat
<1>1. IsFiniteSet(Ids) /\ Cardinality(Ids) = MaxSockets
  BY FS_Interval, BoundsAssumption DEF Ids
<1>2. ASSUME NEW S \in SUBSET Ids
      PROVE  IsFiniteSet(S) /\ Cardinality(S) \in 0..MaxSockets
  <2>1. IsFiniteSet(S) /\ Cardinality(S) <= MaxSockets
    BY <1>1, FS_Subset
  <2>2. Cardinality(S) \in Nat
    BY <2>1, FS_CardinalityType
  <2> QED BY <2>1, <2>2, BoundsAssumption
<1>3. \A state : In(h, state) \subseteq Ids
  BY DEF In
<1> QED BY <1>2, <1>3 DEF Live, Strays

(* Which sockets are in a state after that of one socket changed. *)
LEMMA Moved ==
  ASSUME NEW h \in HalfType, NEW g \in HalfType, NEW i \in Ids, NEW state \in States,
         g.socket = [h.socket EXCEPT ![i] = state]
  PROVE  \A s : In(g, s) = IF s = state THEN In(h, s) \cup {i} ELSE In(h, s) \ {i}
  BY DEF In, HalfType

LEMMA ConnectingHalf ==
  ASSUME NEW h, HalfInv(h), CanConnect(h)
  PROVE  LET g == Connecting(h)
         IN  /\ HalfInv(g) /\ g.current # None /\ g.late = h.late
             /\ h.current \in Live(h) => g = h
             /\ h.current \notin Live(h) => g.current \notin In(g, "open")
<1>1. CASE h.current \in Live(h)
  BY <1>1 DEF Connecting, HalfInv, HalfType, Live, In, Ids, None
<1>2. CASE h.current \notin Live(h)
  <2> DEFINE i == Min(In(h, "unused"))
             g == [h EXCEPT !.socket[i] = "connecting", !.current = i, !.timers = @ \ {h.timer}]
  <2>1. h \in HalfType
    BY DEF HalfInv
  <2>2. i \in In(h, "unused") /\ i \in Ids /\ i # None
    <3>1. In(h, "unused") \in SUBSET Nat /\ In(h, "unused") # {}
      BY <1>2 DEF CanConnect, UsedUp, In, Ids
    <3>2. i \in In(h, "unused")
      BY <3>1, SmallestOf
    <3> QED BY <3>2 DEF In, Ids, None
  <2> HIDE DEF i
  <2>3. /\ g \in HalfType /\ g.current = i /\ g.late = h.late /\ g.timer = h.timer
        /\ g.timers = h.timers \ {h.timer}
        /\ g.socket = [h.socket EXCEPT ![i] = "connecting"]
    BY <2>1, <2>2 DEF HalfType, States
  <2>4. Connecting(h) = g
    BY <1>2 DEF Connecting, i
  <2> HIDE DEF g
  <2>5. \A s : In(g, s) = IF s = "connecting" THEN In(h, s) \cup {i} ELSE In(h, s) \ {i}
    <3>1. "connecting" \in States
      BY DEF States
    <3> QED BY <2>1, <2>2, <2>3, <3>1, Moved
  <2>6. i \notin Live(h) /\ i \notin In(h, "closed")
    BY <2>2 DEF Live, In
  <2>7. Strays(g) = Live(h) /\ Strays(h) = Live(h) /\ In(g, "closed") = In(h, "closed")
    <3>1. Live(g) = Live(h) \cup {i} /\ In(g, "closed") = In(h, "closed")
      BY <2>5, <2>6 DEF Live
    <3> QED BY <1>2, <2>3, <2>6, <3>1 DEF Strays
  <2>8. g.late = 0 => g.timers = {}
    BY <2>3 DEF HalfInv
  <2>9. i \notin In(g, "unused") /\ i \notin In(g, "closed") /\ i \notin In(g, "open")
    BY <2>5, <2>6 DEF Live
  <2> QED BY <1>2, <2>2, <2>3, <2>4, <2>7, <2>8, <2>9 DEF HalfInv
<1> QED BY <1>1, <1>2

(* disconnect() for one stream. *)
LEMMA ReleasedHalf ==
  ASSUME NEW h, HalfInv(h)
  PROVE  LET g == Released(h)
         IN  /\ HalfInv(g) /\ g.current = None /\ g.late = h.late
             /\ g.late = 0 => g.timers = {}
<1> DEFINE g == Released(h)
           sockets == [i \in Ids |-> IF i = h.current /\ i \in Live(h) THEN "closing"
                                     ELSE h.socket[i]]
<1>1. h \in HalfType
  BY DEF HalfInv
<1>2. sockets \in [Ids -> States]
  BY <1>1 DEF HalfType, States
<1>3. /\ g \in HalfType /\ g.current = None /\ g.late = h.late /\ g.timer = h.timer
      /\ g.timers = h.timers \ {h.timer} /\ g.socket = sockets
  BY <1>1, <1>2 DEF Released, HalfType, None
<1> HIDE DEF g
<1>4. /\ Live(g) = Strays(h) /\ In(g, "closed") = In(h, "closed")
      /\ In(g, "unused") = In(h, "unused")
  BY <1>3 DEF Live, Strays, In
<1>5. Strays(g) = Strays(h)
  BY <1>3, <1>4 DEF Strays, Live, In, Ids, None
<1>6. None \notin In(g, "unused") /\ None \notin In(g, "closed")
  BY DEF In, Ids, None
<1> QED BY <1>3, <1>4, <1>5, <1>6 DEF HalfInv, g

LEMMA OpenedHalf ==
  ASSUME NEW h, HalfInv(h), NEW i \in In(h, "connecting"),
         NEW g \in HalfType, g.socket = [h.socket EXCEPT ![i] = "open"],
         g.current = h.current, g.late = h.late, g.timers = h.timers, g.timer = h.timer
  PROVE  HalfInv(g) /\ In(g, "open") = In(h, "open") \cup {i}
<1>1. h \in HalfType /\ i \in Ids /\ "open" \in States
  BY DEF HalfInv, In, States
<1>2. \A s : In(g, s) = IF s = "open" THEN In(h, s) \cup {i} ELSE In(h, s) \ {i}
  BY <1>1, Moved
<1>3. i \notin In(h, "closed") /\ i \notin In(h, "unused")
  BY DEF In
<1>4. /\ Live(g) = Live(h) /\ In(g, "closed") = In(h, "closed")
      /\ In(g, "unused") = In(h, "unused")
  <2>1. In(g, "closed") = In(h, "closed") /\ In(g, "unused") = In(h, "unused")
    BY <1>2, <1>3
  <2>2. Live(g) = Live(h)
    BY <1>2 DEF Live
  <2> QED BY <2>1, <2>2
<1> QED BY <1>2, <1>4 DEF HalfInv, Strays

LEMMA DroppedHalf ==
  ASSUME NEW h, HalfInv(h), NEW i \in Live(h),
         NEW g \in HalfType, g.socket = [h.socket EXCEPT ![i] = "closing"],
         g.current = h.current, g.late = h.late, g.timers = h.timers, g.timer = h.timer
  PROVE  HalfInv(g) /\ In(g, "open") \subseteq In(h, "open")
<1>1. h \in HalfType /\ i \in Ids /\ "closing" \in States
  BY DEF HalfInv, Live, In, States
<1>2. \A s : In(g, s) = IF s = "closing" THEN In(h, s) \cup {i} ELSE In(h, s) \ {i}
  BY <1>1, Moved
<1>3. i \notin In(h, "closed") /\ i \notin In(h, "unused")
  BY DEF Live, In
<1>4. /\ Strays(g) = Strays(h) \ {i} /\ In(g, "open") \subseteq In(h, "open")
      /\ In(g, "closed") = In(h, "closed") /\ In(g, "unused") = In(h, "unused")
  <2>1. In(g, "closed") = In(h, "closed") /\ In(g, "unused") = In(h, "unused")
    BY <1>2, <1>3
  <2>2. Live(g) = Live(h) \ {i} /\ In(g, "open") \subseteq In(h, "open")
    BY <1>2 DEF Live
  <2> QED BY <2>1, <2>2 DEF Strays
<1>5. /\ IsFiniteSet(Strays(h)) /\ Cardinality(Strays(g)) \in Nat
      /\ Cardinality(Strays(h)) \in Nat /\ h.late \in Nat
  BY <1>1, Sockets DEF HalfType
<1>6. Cardinality(Strays(g)) <= Cardinality(Strays(h))
  BY <1>4, <1>5, FS_Subset
<1>7. Cardinality(Strays(g)) <= g.late
  BY <1>5, <1>6 DEF HalfInv
<1> QED BY <1>4, <1>7 DEF HalfInv

(* onclose: the one step that may leave the service with a socket it forgot. *)
LEMMA ClosedHalf ==
  ASSUME intentional \in BOOLEAN,
         NEW h, HalfInv(h), NEW i \in In(h, "closing"), NEW expected \in BOOLEAN,
         expected = (h.current = i \/ (intentional /\ h.current = None)),
         NEW g \in HalfType, g.socket = [h.socket EXCEPT ![i] = "closed"], g.current = None,
         g.late = h.late + (IF expected THEN 0 ELSE 1),
         intentional => g.timers = h.timers /\ g.timer = h.timer,
         ~intentional => g.timers = h.timers \cup {i} /\ g.timer = i
  PROVE  HalfInv(g)
<1>1. h \in HalfType /\ i \in Ids /\ "closed" \in States
  BY DEF HalfInv, In, States
<1>4. \A s : In(g, s) = IF s = "closed" THEN In(h, s) \cup {i} ELSE In(h, s) \ {i}
  BY <1>1, Moved
<1>5. i \notin Live(h) /\ i \notin In(h, "closed") /\ None \notin Live(h)
  BY <1>1 DEF Live, In, Ids, None
<1>6. /\ Strays(g) = Live(h) /\ In(g, "closed") = In(h, "closed") \cup {i}
      /\ None \notin In(g, "closed") /\ None \notin In(g, "unused")
  BY <1>4, <1>5 DEF Strays, Live, In, Ids, None
<1>7. /\ Cardinality(In(g, "closed")) = Cardinality(In(h, "closed")) + 1
      /\ Cardinality(In(h, "closed")) \in Nat /\ h.late \in Nat
  <2>1. IsFiniteSet(In(h, "closed")) /\ Cardinality(In(h, "closed")) \in 0..MaxSockets
    BY <1>1, Sockets
  <2>2. Cardinality(In(h, "closed") \cup {i}) = Cardinality(In(h, "closed")) + 1
    BY <1>5, <2>1, FS_AddElement
  <2>3. h.late \in Nat
    BY <1>1 DEF HalfType
  <2>4. Cardinality(In(h, "closed")) \in Nat
    BY <2>1
  <2> QED BY <1>6, <2>2, <2>3, <2>4
<1>8. g.late <= Cardinality(In(g, "closed"))
  BY <1>7 DEF HalfInv
<1>9. Cardinality(Strays(g)) <= g.late
  <2>1. CASE expected
    <3>1. Strays(h) = Live(h)
      BY <1>5, <2>1 DEF Strays
    <3> QED BY <1>6, <1>7, <2>1, <3>1 DEF HalfInv
  <2>2. CASE ~expected
    <3>1. IsFiniteSet(Live(h))
      BY <1>1, Sockets
    <3>2. /\ Cardinality(Live(h)) \in Nat /\ Cardinality(Strays(h)) \in Nat
          /\ Cardinality(Live(h)) <= Cardinality(Strays(h)) + 1
      BY <3>1, WithoutOne DEF Strays
    <3>3. Cardinality(Strays(h)) <= h.late
      BY DEF HalfInv
    <3>4. Strays(g) = Live(h) /\ g.late = h.late + 1 /\ h.late \in Nat
      BY <1>6, <1>7, <2>2
    <3> QED BY <3>2, <3>3, <3>4
  <2> QED BY <2>1, <2>2
<1>10. g.late = 0 => g.timers \subseteq {g.timer}
  <2> SUFFICES ASSUME g.late = 0 PROVE g.timers \subseteq {g.timer}
    OBVIOUS
  <2>1. h.late = 0 /\ expected
    BY <1>7
  <2>2. CASE intentional
    BY <2>1, <2>2 DEF HalfInv
  <2>3. CASE ~intentional
    <3>1. h.current = i /\ i # None
      BY <1>1, <2>1, <2>3 DEF Ids, None
    <3> QED BY <2>1, <2>3, <3>1 DEF HalfInv
  <2> QED BY <2>2, <2>3
<1> QED BY <1>6, <1>8, <1>9, <1>10 DEF HalfInv

LEMMA SameSockets ==
  ASSUME NEW h, HalfInv(h),
         NEW g \in HalfType, g.socket = h.socket, g.current = h.current, g.late = h.late,
         g.timer = h.timer, g.timers \subseteq h.timers
  PROVE  HalfInv(g) /\ \A state : In(g, state) = In(h, state)
<1>1. \A state : In(g, state) = In(h, state)
  BY DEF In
<1> QED BY <1>1 DEF HalfInv, Strays, Live

(* A stream whose onclose events all came in time. *)
Settled(s) ==
  /\ ~Mounted => half[s].current = None /\ half[s].timers = {}
  /\ s = "stream" => /\ connected => half[s].current # None
                     /\ half[s].current \in In(half[s], "open") => connected

ClientInv ==
  /\ half = [s \in Streams |-> half[s]]
  /\ intentional \in BOOLEAN /\ connected \in BOOLEAN /\ mounts \in 0..MaxMounts
  /\ \A s \in Streams : HalfInv(half[s]) /\ (half[s].late = 0 => Settled(s))

LEMMA ClientInitially == ServiceInit => ClientInv
<1> SUFFICES ASSUME ServiceInit PROVE ClientInv
  OBVIOUS
<1> DEFINE h == [socket |-> [i \in Ids |-> "unused"], current |-> None, timers |-> {},
                 timer |-> None, attempts |-> 0, late |-> 0]
<1>1. half = [s \in Streams |-> h]
  BY DEF ServiceInit
<1>2. /\ h \in HalfType /\ h.current = None /\ h.late = 0 /\ h.timers = {}
      /\ h.socket = [i \in Ids |-> "unused"]
  BY BoundsAssumption DEF HalfType, States
<1> HIDE DEF h
<1>3. /\ Live(h) = {} /\ In(h, "closed") = {} /\ None \notin In(h, "unused")
      /\ Strays(h) = {} /\ In(h, "open") = {}
  BY <1>2 DEF Live, In, Strays, Ids, None
<1>4. HalfInv(h)
  BY <1>2, <1>3, FS_EmptySet DEF HalfInv
<1>5. \A s \in Streams : half[s] = h
  BY <1>1
<1>6. /\ half = [s \in Streams |-> half[s]]
      /\ intentional = FALSE /\ connected = FALSE /\ mounts = 0
  BY <1>1 DEF ServiceInit
<1>7. \A s \in Streams : HalfInv(half[s]) /\ Settled(s)
  BY <1>2, <1>3, <1>4, <1>5, <1>6 DEF Settled
<1>8. mounts \in 0..MaxMounts
  BY <1>6, BoundsAssumption
<1> QED BY <1>6, <1>7, <1>8, Zenon DEF ClientInv

LEMMA MountStep ==
  ASSUME ClientInv, ServiceConnect
  PROVE  ClientInv'
<1>1. ASSUME NEW s \in Streams
      PROVE  /\ HalfInv(half'[s]) /\ half'[s].current # None /\ half'[s].late = half[s].late
             /\ half'[s].late = 0 => half'[s].current \notin In(half'[s], "open")
  <2> DEFINE h == half[s]
             g == [h EXCEPT !.attempts = 0]
  <2>1. HalfInv(h) /\ h \in HalfType /\ CanConnect(h)
    BY <1>1 DEF ClientInv, HalfInv, ServiceConnect
  <2>2. /\ g \in HalfType /\ g.socket = h.socket /\ g.current = h.current /\ g.late = h.late
        /\ g.timer = h.timer /\ g.timers = h.timers
    BY <2>1, BoundsAssumption DEF HalfType
  <2>3. half'[s] = Connecting(g)
    BY <1>1 DEF ServiceConnect
  <2>4. h.late = 0 => h.current = None
    BY <1>1 DEF ClientInv, Settled, ServiceConnect
  <2> HIDE DEF g, h
  <2>5. HalfInv(g) /\ \A state : In(g, state) = In(h, state)
    BY <2>1, <2>2, SameSockets
  <2>6. CanConnect(g)
    BY <2>1, <2>2, <2>5 DEF CanConnect, UsedUp, Live
  <2>7. None \notin Live(g)
    BY DEF Live, In, Ids, None
  <2> QED BY <2>2, <2>3, <2>4, <2>5, <2>6, <2>7, ConnectingHalf DEF h
<1>2. mounts' \in 0..MaxMounts /\ intentional' = FALSE /\ connected' = connected
  BY BoundsAssumption DEF ServiceConnect, ClientInv
<1>3. Mounted'
  BY DEF ServiceConnect, ClientInv, Mounted
<1>4. half' = [s \in Streams |-> half'[s]]
  BY DEF ServiceConnect
<1> QED BY <1>1, <1>2, <1>3, <1>4 DEF ClientInv, Settled

LEMMA UnmountStep ==
  ASSUME ClientInv, ServiceDisconnect
  PROVE  ClientInv'
<1>1. ASSUME NEW s \in Streams
      PROVE  /\ HalfInv(half'[s]) /\ half'[s].current = None /\ half'[s].late = half[s].late
             /\ half'[s].late = 0 => half'[s].timers = {}
             /\ half'[s].current \notin In(half'[s], "open")
  <2>1. HalfInv(half[s]) /\ half'[s] = Released(half[s])
    BY <1>1 DEF ClientInv, ServiceDisconnect
  <2>2. None \notin In(half'[s], "open")
    BY DEF In, Ids, None
  <2> QED BY <2>1, <2>2, ReleasedHalf
<1> QED BY <1>1 DEF ServiceDisconnect, ClientInv, Settled

(* A step of one stream. *)
LEMMA HalfStep ==
  ASSUME ClientInv, NEW s \in Streams, NEW g,
         half' = [half EXCEPT ![s] = g], HalfInv(g), g.late >= half[s].late,
         UNCHANGED <<intentional, mounts>>, connected' \in BOOLEAN,
         s # "stream" => connected' = connected,
         g.late = 0 =>
           /\ ~Mounted => g.current = None /\ g.timers = {}
           /\ s = "stream" => /\ connected' => g.current # None
                              /\ g.current \in In(g, "open") => connected'
  PROVE  ClientInv'
<1>1. half' = [r \in Streams |-> IF r = s THEN g ELSE half[r]]
  BY DEF ClientInv
<1>2. \A r \in Streams : HalfInv(half'[r])
  BY <1>1 DEF ClientInv
<1>3. Mounted' = Mounted
  BY DEF Mounted
<1>4. \A r \in Streams : half'[r].late = 0 => Settled(r)'
  <2>1. CASE s = "stream"
    BY <1>1, <1>3, <2>1 DEF ClientInv, Settled, Streams
  <2>2. CASE s # "stream"
    BY <1>1, <1>3, <2>2 DEF ClientInv, Settled, Streams
  <2> QED BY <2>1, <2>2
<1>5. half' = [r \in Streams |-> half'[r]]
  BY <1>1
<1> QED BY <1>2, <1>4, <1>5 DEF ClientInv

(* With no late event, a socket that works is the one held. *)
LEMMA OnlyCurrent ==
  ASSUME NEW h, HalfInv(h), h.late = 0
  PROVE  Live(h) \subseteq {h.current}
<1>1. h \in HalfType
  BY DEF HalfInv
<1>2. IsFiniteSet(Strays(h)) /\ Cardinality(Strays(h)) = 0
  BY <1>1, Sockets DEF HalfInv
<1>3. Strays(h) = {}
  BY <1>2, FS_EmptySet
<1> QED BY <1>3 DEF Strays

LEMMA OpenStep ==
  ASSUME ClientInv, NEW s \in Streams, NEW i \in Ids, OnOpen(s, i)
  PROVE  ClientInv'
<1> DEFINE h == half[s]
           g == [h EXCEPT !.socket[i] = "open", !.attempts = 0]
<1>1. /\ half' = [half EXCEPT ![s] = g] /\ UNCHANGED <<intentional, mounts>>
      /\ connected' = (connected \/ s = "stream") /\ i \in In(h, "connecting")
  BY DEF OnOpen, ClientInv, In
<1>2. HalfInv(h) /\ h \in HalfType /\ (h.late = 0 => Settled(s)) /\ connected \in BOOLEAN
  BY DEF ClientInv, HalfInv
<1>3. /\ g \in HalfType /\ g.current = h.current /\ g.late = h.late /\ g.timer = h.timer
      /\ g.timers = h.timers /\ g.socket = [h.socket EXCEPT ![i] = "open"]
  <2> HIDE DEF h
  <2>1. [h.socket EXCEPT ![i] = "open"] \in [Ids -> States] /\ 0 \in 0..CapAttempts
    BY <1>2, BoundsAssumption DEF HalfType, States
  <2>2. /\ g.current = h.current /\ g.late = h.late /\ g.timer = h.timer
        /\ g.timers = h.timers /\ g.socket = [h.socket EXCEPT ![i] = "open"]
    BY <1>2 DEF HalfType
  <2>3. g \in HalfType
    BY <1>2, <2>1 DEF HalfType
  <2> QED BY <2>2, <2>3
<1> HIDE DEF g
<1>4. HalfInv(g)
  BY <1>1, <1>2, <1>3, OpenedHalf
<1>5. h.late = 0 => h.current = i /\ i # None
  BY <1>1, <1>2, OnlyCurrent DEF Live, In, Ids, None
<1>6. g.late >= h.late
  BY <1>2, <1>3 DEF HalfType
<1>7. g.late = 0 =>
        /\ ~Mounted => g.current = None /\ g.timers = {}
        /\ s = "stream" => /\ connected' => g.current # None
                           /\ g.current \in In(g, "open") => connected'
  BY <1>1, <1>2, <1>3, <1>5 DEF Settled
<1> QED BY <1>1, <1>2, <1>4, <1>6, <1>7, HalfStep

LEMMA DropStep ==
  ASSUME ClientInv, NEW s \in Streams, NEW i \in Ids, Drop(s, i)
  PROVE  ClientInv'
<1> DEFINE h == half[s]
           g == [h EXCEPT !.socket[i] = "closing"]
<1>1. /\ half' = [half EXCEPT ![s] = g] /\ UNCHANGED <<intentional, mounts, connected>>
      /\ i \in Live(h)
  BY DEF Drop, ClientInv
<1>2. HalfInv(h) /\ h \in HalfType /\ (h.late = 0 => Settled(s)) /\ connected \in BOOLEAN
  BY DEF ClientInv, HalfInv
<1>3. /\ g \in HalfType /\ g.current = h.current /\ g.late = h.late /\ g.timer = h.timer
      /\ g.timers = h.timers /\ g.socket = [h.socket EXCEPT ![i] = "closing"]
  BY <1>2 DEF HalfType, States
<1> HIDE DEF g
<1>4. HalfInv(g) /\ In(g, "open") \subseteq In(h, "open")
  BY <1>1, <1>2, <1>3, DroppedHalf
<1>5. g.late >= h.late
  BY <1>2, <1>3 DEF HalfType
<1>6. g.late = 0 =>
        /\ ~Mounted => g.current = None /\ g.timers = {}
        /\ s = "stream" => /\ connected' => g.current # None
                           /\ g.current \in In(g, "open") => connected'
  BY <1>1, <1>2, <1>3, <1>4 DEF Settled
<1> QED BY <1>1, <1>2, <1>4, <1>5, <1>6, HalfStep

LEMMA CloseStep ==
  ASSUME ClientInv, NEW s \in Streams, NEW i \in Ids, OnClose(s, i)
  PROVE  ClientInv'
<1> DEFINE h == half[s]
           expected == h.current = i \/ (intentional /\ h.current = None)
           closed == [h EXCEPT !.socket[i] = "closed", !.current = None,
                               !.late = @ + IF expected THEN 0 ELSE 1]
           g == IF intentional THEN closed
                ELSE [closed EXCEPT !.timers = @ \cup {i}, !.timer = i]
<1>1. /\ half' = [half EXCEPT ![s] = g] /\ UNCHANGED <<intentional, mounts>>
      /\ connected' = (connected /\ s # "stream") /\ i \in In(h, "closing")
  BY DEF OnClose, ClientInv, In, Reconnects, WhenClosed
<1>2. HalfInv(h) /\ h \in HalfType /\ (h.late = 0 => Settled(s)) /\ connected \in BOOLEAN
      /\ intentional \in BOOLEAN
  BY DEF ClientInv, HalfInv
<1>3. /\ closed \in HalfType /\ closed.current = None /\ closed.timer = h.timer
      /\ closed.timers = h.timers /\ closed.late = h.late + IF expected THEN 0 ELSE 1
      /\ closed.socket = [h.socket EXCEPT ![i] = "closed"]
  <2> HIDE DEF expected, g, h
  <2> DEFINE n == IF expected THEN 0 ELSE 1
  <2>1. n \in Nat /\ "closed" \in States
    BY DEF States
  <2> HIDE DEF n
  <2>2. h.late + n \in Nat /\ [h.socket EXCEPT ![i] = "closed"] \in [Ids -> States]
    BY <1>2, <2>1 DEF HalfType
  <2>3. closed = [h EXCEPT !.socket[i] = "closed", !.current = None, !.late = @ + n]
    BY DEF n
  <2> HIDE DEF closed
  <2>4. /\ closed.current = None /\ closed.timer = h.timer
        /\ closed.timers = h.timers /\ closed.late = h.late + n
        /\ closed.socket = [h.socket EXCEPT ![i] = "closed"]
    BY <1>2, <2>3 DEF HalfType
  <2>5. closed \in HalfType
    BY <1>2, <2>2, <2>3 DEF HalfType
  <2> QED BY <2>4, <2>5 DEF n
<1> HIDE DEF closed
<1>4. /\ g \in HalfType /\ g.current = None /\ g.late = h.late + (IF expected THEN 0 ELSE 1)
      /\ g.socket = [h.socket EXCEPT ![i] = "closed"]
      /\ intentional => g.timers = h.timers /\ g.timer = h.timer
      /\ ~intentional => g.timers = h.timers \cup {i} /\ g.timer = i
  <2> HIDE DEF expected
  <2> QED BY <1>2, <1>3 DEF HalfType
<1> HIDE DEF g
<1>5. HalfInv(g)
  BY <1>1, <1>2, <1>4, ClosedHalf
<1>6. g.late >= h.late /\ (g.late = 0 => h.late = 0 /\ expected)
  <2> HIDE DEF expected
  <2> QED BY <1>2, <1>4 DEF HalfType
<1>7. None \notin In(g, "open") /\ i # None
  BY DEF In, Ids, None
<1>8. g.late = 0 =>
        /\ ~Mounted => g.current = None /\ g.timers = {}
        /\ s = "stream" => /\ connected' => g.current # None
                           /\ g.current \in In(g, "open") => connected'
  BY <1>1, <1>2, <1>4, <1>6, <1>7 DEF Settled, Mounted
<1> QED BY <1>1, <1>2, <1>5, <1>6, <1>8, HalfStep

LEMMA TimerStep ==
  ASSUME ClientInv, NEW s \in Streams, NEW t \in Ids, OnTimer(s, t)
  PROVE  ClientInv'
<1> DEFINE h == half[s]
           fired == [h EXCEPT !.timers = @ \ {t}, !.attempts = NextAttempt(@)]
           g == Connecting(fired)
<1>1. /\ half' = [half EXCEPT ![s] = g] /\ UNCHANGED <<intentional, mounts, connected>>
      /\ t \in h.timers /\ CanConnect(fired)
  BY DEF OnTimer, ClientInv
<1>2. HalfInv(h) /\ h \in HalfType /\ (h.late = 0 => Settled(s)) /\ connected \in BOOLEAN
  BY DEF ClientInv, HalfInv
<1>3. /\ fired \in HalfType /\ fired.current = h.current /\ fired.late = h.late
      /\ fired.timer = h.timer /\ fired.timers \subseteq h.timers /\ fired.socket = h.socket
  <2> HIDE DEF g
  <2>1. NextAttempt(h.attempts) \in 0..CapAttempts
    BY <1>2, BoundsAssumption DEF HalfType, NextAttempt
  <2>2. /\ fired.current = h.current /\ fired.late = h.late /\ fired.timer = h.timer
        /\ fired.timers = h.timers \ {t} /\ fired.socket = h.socket
        /\ fired.attempts = NextAttempt(h.attempts)
        /\ DOMAIN fired = DOMAIN h
    BY <1>2 DEF HalfType
  <2>3. fired \in HalfType
    <3> HIDE DEF h
    <3> QED BY <1>2, <2>1 DEF HalfType
  <2> QED BY <2>2, <2>3
<1> HIDE DEF fired
<1>4. HalfInv(fired) /\ \A state : In(fired, state) = In(h, state)
  BY <1>2, <1>3, SameSockets
<1>5. /\ HalfInv(g) /\ g.current # None /\ g.late = fired.late
      /\ fired.current \in Live(fired) => g = fired
      /\ fired.current \notin Live(fired) => g.current \notin In(g, "open")
  BY <1>1, <1>4, ConnectingHalf
<1> HIDE DEF g
<1>6. g.late >= h.late
  BY <1>2, <1>3, <1>5 DEF HalfType
<1>7. h.late = 0 => Mounted
  BY <1>1, <1>2 DEF Settled
<1>8. g.late = 0 =>
        /\ ~Mounted => g.current = None /\ g.timers = {}
        /\ s = "stream" => /\ connected' => g.current # None
                           /\ g.current \in In(g, "open") => connected'
  BY <1>1, <1>2, <1>3, <1>4, <1>5, <1>7 DEF Settled
<1> QED BY <1>1, <1>2, <1>5, <1>6, <1>8, HalfStep

LEMMA ClientStep == ClientInv /\ [ServiceNext]_serviceVars => ClientInv'
<1>1. ClientInv /\ UNCHANGED serviceVars => ClientInv'
  BY DEF serviceVars, ClientInv, Settled, Mounted
<1> QED BY <1>1, MountStep, UnmountStep, OpenStep, DropStep, CloseStep, TimerStep
        DEF ServiceNext, Browser

(***************************************************************************)
(* The service's state has its types, and it never holds a socket whose    *)
(* onclose has run (websocket.ts 51-66, 92-103).                           *)
(***************************************************************************)
THEOREM ClientTypes == ServiceSpec => []ServiceTypeOK
<1>1. ClientInv => ServiceTypeOK
  <2> SUFFICES ASSUME ClientInv, NEW s \in Streams PROVE
         LET h == half[s] IN
           /\ h.socket \in [Ids -> {"unused", "connecting", "open", "closing", "closed"}]
           /\ h.current \in {None} \cup Live(h) \cup In(h, "closing")
           /\ h.timers \subseteq Ids /\ h.timer \in {None} \cup Ids
           /\ h.attempts \in 0..CapAttempts /\ h.late \in 0..MaxSockets
    BY DEF ServiceTypeOK, ClientInv
  <2> DEFINE h == half[s]
  <2>1. HalfInv(h) /\ h \in HalfType
    BY DEF ClientInv, HalfInv
  <2> HIDE DEF h
  <2>2. h.late \in 0..MaxSockets
    <3>1. Cardinality(In(h, "closed")) \in 0..MaxSockets
      BY <2>1, Sockets
    <3>2. h.late \in Nat /\ h.late <= Cardinality(In(h, "closed"))
      BY <2>1 DEF HalfInv, HalfType
    <3> QED BY <3>1, <3>2, BoundsAssumption
  <2>3. h.current \in {None} \cup Live(h) \cup In(h, "closing")
    BY <2>1 DEF HalfInv, HalfType, In, Live, States
  <2>4. /\ h.socket \in [Ids -> {"unused", "connecting", "open", "closing", "closed"}]
        /\ h.timers \subseteq Ids /\ h.timer \in {None} \cup Ids
        /\ h.attempts \in 0..CapAttempts
    BY <2>1 DEF HalfType, States
  <2> QED BY <2>2, <2>3, <2>4 DEF h
<1>2. ServiceInit => ClientInv
  BY ClientInitially
<1>3. ClientInv /\ [ServiceNext]_serviceVars => ClientInv'
  BY ClientStep
<1> QED BY <1>1, <1>2, <1>3, PTL DEF ServiceSpec

(***************************************************************************)
(* A stream has at most one live socket more than late onclose events.     *)
(***************************************************************************)
THEOREM OneSocket == ServiceSpec => []OneSocketButLate
<1>1. ClientInv => OneSocketButLate
  <2> SUFFICES ASSUME ClientInv, NEW s \in Streams
               PROVE  Cardinality(Live(half[s])) <= 1 + half[s].late
    BY DEF OneSocketButLate
  <2> DEFINE h == half[s]
  <2>1. HalfInv(h) /\ h \in HalfType
    BY DEF ClientInv, HalfInv
  <2> HIDE DEF h
  <2>2. IsFiniteSet(Live(h)) /\ h.late \in Nat /\ Cardinality(Strays(h)) <= h.late
    BY <2>1, Sockets DEF HalfType, HalfInv
  <2>3. /\ Cardinality(Live(h)) \in Nat /\ Cardinality(Strays(h)) \in Nat
        /\ Cardinality(Live(h)) <= Cardinality(Strays(h)) + 1
    BY <2>2, WithoutOne DEF Strays
  <2>4. Cardinality(Live(h)) <= 1 + h.late
    BY <2>2, <2>3
  <2> QED BY <2>4 DEF h
<1>2. ServiceInit => ClientInv
  BY ClientInitially
<1>3. ClientInv /\ [ServiceNext]_serviceVars => ClientInv'
  BY ClientStep
<1> QED BY <1>1, <1>2, <1>3, PTL DEF ServiceSpec

(***************************************************************************)
(* While no onclose comes late, disconnect() is final and the store's flag *)
(* tells the truth (websocket.ts 43-66, 107-116).                          *)
(***************************************************************************)
THEOREM FinalDisconnect == ServiceSpec => []DisconnectFinalButLate
<1>1. ClientInv => DisconnectFinalButLate
  <2> SUFFICES ASSUME ClientInv, NEW s \in Streams, half[s].late = 0
               PROVE  LET h == half[s] IN
                      /\ intentional => Live(h) = {} /\ h.timers = {}
                      /\ s = "stream" /\ connected => h.current # None
                      /\ s = "stream" /\ h.current \in In(h, "open") => connected
    BY DEF DisconnectFinalButLate
  <2>1. HalfInv(half[s]) /\ Settled(s)
    BY DEF ClientInv
  <2>2. Live(half[s]) \subseteq {half[s].current} /\ None \notin Live(half[s])
    BY <2>1, OnlyCurrent DEF Live, In, Ids, None
  <2> QED BY <2>1, <2>2 DEF Settled, Mounted
<1>2. ServiceInit => ClientInv
  BY ClientInitially
<1>3. ClientInv /\ [ServiceNext]_serviceVars => ClientInv'
  BY ClientStep
<1> QED BY <1>1, <1>2, <1>3, PTL DEF ServiceSpec
=============================================================================
