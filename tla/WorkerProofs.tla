---------------------------- MODULE WorkerProofs ----------------------------
(***************************************************************************)
(* What the worker's topics guarantee for any transactions, rules, room    *)
(* and numbers of messages, toggles and failures: the feed implements a    *)
(* lossy FIFO, and alerts name stored transactions or failed saves.        *)
(***************************************************************************)
EXTENDS Worker, FiniteSetTheorems, TLAPS

(***************************************************************************)
(* The order of messages: what waits is in order and younger than what was *)
(* taken, and what is being put is the youngest.                           *)
(***************************************************************************)
Numbered(s) == s \in Seq(Nat) /\ \A i \in 1..Len(s) : s[i] \in 1..Len(sent)
Increasing(s) == \A i, j \in 1..Len(s) : i < j => s[i] < s[j]

OrderInv ==
  /\ sent \in Seq(Txs)
  /\ Numbered(inbox) /\ Numbered(taken)
  /\ Increasing(inbox)
  /\ \A i \in 1..Len(taken), j \in 1..Len(inbox) : taken[i] < inbox[j]
  /\ \A n \in putting :
       /\ n = Len(sent) /\ n > 0
       /\ \A j \in 1..Len(inbox) : inbox[j] < n
       /\ \A i \in 1..Len(taken) : taken[i] < n

(* A queue loses its tail, or its head, and stays in order. *)
LEMMA KeepsPrefix ==
  ASSUME NEW s \in Seq(Nat), NEW k \in 0..Len(s)
  PROVE  LET p == SubSeq(s, 1, k)
         IN  p \in Seq(Nat) /\ Len(p) = k /\ \A i \in 1..k : p[i] = s[i]
  OBVIOUS

LEMMA KeepsTail ==
  ASSUME NEW s \in Seq(Nat), s # <<>>
  PROVE  /\ Tail(s) \in Seq(Nat) /\ Len(Tail(s)) = Len(s) - 1
         /\ \A i \in 1..Len(Tail(s)) : Tail(s)[i] = s[i + 1]
         /\ Head(s) = s[1] /\ Len(s) \in Nat \ {0}
  OBVIOUS

LEMMA Appended ==
  ASSUME NEW S, NEW s \in Seq(S), NEW m \in S
  PROVE  /\ Append(s, m) \in Seq(S) /\ Len(Append(s, m)) = Len(s) + 1
         /\ \A i \in 1..Len(s) : Append(s, m)[i] = s[i]
         /\ Append(s, m)[Len(s) + 1] = m
         /\ Len(s) \in Nat
  OBVIOUS

(* The step of each action that moves a message. *)
LEMMA OrderPublish ==
  ASSUME OrderInv, NEW t \in Txs, Publish(t)
  PROVE  OrderInv'
<1> DEFINE n == Len(sent) + 1
<1>1. sent' = Append(sent, t) /\ taken' = taken /\ putting = {}
  BY DEF Publish
<1>2. sent' \in Seq(Txs) /\ Len(sent') = n /\ Len(sent) \in Nat
  BY <1>1, Appended DEF OrderInv
<1>3. inbox \in Seq(Nat) /\ \A i \in 1..Len(inbox) : inbox[i] \in 1..Len(sent)
  BY DEF OrderInv, Numbered
<1>4. taken \in Seq(Nat) /\ \A i \in 1..Len(taken) : taken[i] \in 1..Len(sent)
  BY DEF OrderInv, Numbered
<1>5. putting' \subseteq {n} /\ (putting' # {} => inbox' = inbox)
  BY DEF Publish
<1>6. CASE inbox' = inbox
  BY <1>1, <1>2, <1>3, <1>4, <1>5, <1>6 DEF OrderInv, Numbered, Increasing
<1>7. CASE inbox' = Append(inbox, n) /\ putting' = {}
  <2>1. /\ inbox' \in Seq(Nat) /\ Len(inbox') = Len(inbox) + 1 /\ Len(inbox) \in Nat
        /\ \A i \in 1..Len(inbox) : inbox'[i] = inbox[i]
        /\ inbox'[Len(inbox) + 1] = n
    BY <1>2, <1>3, <1>7, Appended
  <2>2. Numbered(inbox)'
    <3>1. ASSUME NEW i \in 1..Len(inbox') PROVE inbox'[i] \in 1..Len(sent')
      <4>1. CASE i = Len(inbox) + 1
        BY <4>1, <2>1, <1>2
      <4>2. CASE i \in 1..Len(inbox)
        BY <4>2, <2>1, <1>2, <1>3
      <4> QED BY <4>1, <4>2, <2>1
    <3> QED BY <3>1, <2>1 DEF Numbered
  <2>3. Increasing(inbox)'
    <3>1. \A i, j \in 1..Len(inbox) : i < j => inbox[i] < inbox[j]
      BY DEF OrderInv, Increasing
    <3>2. ASSUME NEW i \in 1..Len(inbox'), NEW j \in 1..Len(inbox'), i < j
          PROVE  inbox'[i] < inbox'[j]
      <4>1. i \in 1..Len(inbox) /\ inbox'[i] = inbox[i] /\ inbox[i] \in 1..Len(sent)
        BY <3>2, <2>1, <1>3
      <4>2. CASE j = Len(inbox) + 1
        BY <4>1, <4>2, <2>1, <1>2
      <4>3. CASE j \in 1..Len(inbox)
        BY <4>1, <4>3, <3>1, <3>2, <2>1
      <4> QED BY <4>2, <4>3, <2>1
    <3> QED BY <3>2 DEF Increasing
  <2>4. ASSUME NEW i \in 1..Len(taken'), NEW j \in 1..Len(inbox')
        PROVE  taken'[i] < inbox'[j]
    <3>1. taken'[i] = taken[i] /\ i \in 1..Len(taken) /\ taken[i] \in 1..Len(sent)
      BY <1>1, <1>4
    <3>2. CASE j = Len(inbox) + 1
      BY <3>1, <3>2, <2>1, <1>2
    <3>3. CASE j \in 1..Len(inbox)
      BY <3>1, <3>3, <2>1 DEF OrderInv
    <3> QED BY <3>2, <3>3, <2>1
  <2> QED BY <2>2, <2>3, <2>4, <1>1, <1>2, <1>4, <1>7 DEF OrderInv, Numbered
<1> QED BY <1>6, <1>7 DEF Publish

LEMMA OrderPut ==
  ASSUME OrderInv, PutSucceeds
  PROVE  OrderInv'
<1>1. PICK n \in putting : /\ inbox' = Append(inbox, n) /\ putting' = {}
                           /\ sent' = sent /\ taken' = taken
  BY DEF PutSucceeds
<1>2. /\ n = Len(sent) /\ n > 0 /\ n \in Nat
      /\ \A j \in 1..Len(inbox) : inbox[j] < n
      /\ \A i \in 1..Len(taken) : taken[i] < n
  BY <1>1 DEF OrderInv
<1>3. inbox \in Seq(Nat)
  BY DEF OrderInv, Numbered
<1>4. /\ inbox' \in Seq(Nat) /\ Len(inbox') = Len(inbox) + 1 /\ Len(inbox) \in Nat
      /\ \A i \in 1..Len(inbox) : inbox'[i] = inbox[i]
      /\ inbox'[Len(inbox) + 1] = n
  BY <1>1, <1>2, <1>3, Appended
<1>5. Numbered(inbox)' /\ Numbered(taken)'
  BY <1>1, <1>2, <1>4 DEF OrderInv, Numbered
<1>6. Increasing(inbox)'
  BY <1>2, <1>4 DEF OrderInv, Increasing
<1>7. \A i \in 1..Len(taken'), j \in 1..Len(inbox') : taken'[i] < inbox'[j]
  BY <1>1, <1>2, <1>4 DEF OrderInv
<1> QED BY <1>1, <1>5, <1>6, <1>7 DEF OrderInv

LEMMA OrderTake ==
  ASSUME OrderInv, Take
  PROVE  /\ OrderInv'
         /\ Head(inbox) \in 1..Len(sent)
         /\ \A i \in 1..Len(taken) : taken[i] < Head(inbox)
         /\ taken' = Append(taken, Head(inbox)) /\ sent' = sent
<1>1. /\ inbox # <<>> /\ inbox' = Tail(inbox) /\ taken' = Append(taken, Head(inbox))
      /\ sent' = sent /\ putting' = putting
  BY DEF Take, CanTake
<1>2. inbox \in Seq(Nat) /\ taken \in Seq(Nat)
  BY DEF OrderInv, Numbered
<1>3. /\ inbox' \in Seq(Nat) /\ Len(inbox') = Len(inbox) - 1
      /\ \A i \in 1..Len(inbox') : inbox'[i] = inbox[i + 1]
      /\ Head(inbox) = inbox[1] /\ Len(inbox) \in Nat \ {0}
  BY <1>1, <1>2, KeepsTail
<1>4. /\ Head(inbox) \in 1..Len(sent) /\ Head(inbox) \in Nat
      /\ \A i \in 1..Len(taken) : taken[i] < Head(inbox)
  <2>1. 1 \in 1..Len(inbox) /\ Head(inbox) = inbox[1]
    BY <1>3
  <2>2. /\ \A i \in 1..Len(inbox) : inbox[i] \in 1..Len(sent)
        /\ \A i \in 1..Len(taken), j \in 1..Len(inbox) : taken[i] < inbox[j]
    BY DEF OrderInv, Numbered
  <2>3. Head(inbox) \in 1..Len(sent) /\ \A i \in 1..Len(taken) : taken[i] < Head(inbox)
    BY <2>1, <2>2, Zenon
  <2> QED BY <2>3
<1>5. /\ taken' \in Seq(Nat) /\ Len(taken') = Len(taken) + 1 /\ Len(taken) \in Nat
      /\ \A i \in 1..Len(taken) : taken'[i] = taken[i]
      /\ taken'[Len(taken) + 1] = Head(inbox)
  BY <1>1, <1>2, <1>4, Appended
<1>6. Numbered(inbox)' /\ Numbered(taken)'
  BY <1>1, <1>3, <1>4, <1>5 DEF OrderInv, Numbered
<1>10. \A i, j \in 1..Len(inbox) : i < j => inbox[i] < inbox[j]
  BY DEF OrderInv, Increasing
<1>11. ASSUME NEW j \in 1..Len(inbox')
       PROVE  j + 1 \in 1..Len(inbox) /\ inbox'[j] = inbox[j + 1] /\ 1 < j + 1
  BY <1>3
<1>7. Increasing(inbox)'
  <2>1. ASSUME NEW i \in 1..Len(inbox'), NEW j \in 1..Len(inbox'), i < j
        PROVE  inbox'[i] < inbox'[j]
    <3>1. i + 1 \in 1..Len(inbox) /\ inbox'[i] = inbox[i + 1] 
      BY <1>11
    <3>2. j + 1 \in 1..Len(inbox) /\ inbox'[j] = inbox[j + 1]
      BY <1>11
    <3>3. i + 1 < j + 1
      BY <1>3, <2>1
    <3> QED BY <3>1, <3>2, <3>3, <1>10
  <2> QED BY <2>1 DEF Increasing
<1>8. ASSUME NEW i \in 1..Len(taken'), NEW j \in 1..Len(inbox')
      PROVE  taken'[i] < inbox'[j]
  <2>1. j + 1 \in 1..Len(inbox) /\ inbox'[j] = inbox[j + 1] /\ 1 < j + 1
    BY <1>11
  <2>2. 1 \in 1..Len(inbox)
    BY <1>3
  <2>3. CASE i = Len(taken) + 1
    BY <2>1, <2>2, <2>3, <1>3, <1>5, <1>10
  <2>4. CASE i \in 1..Len(taken)
    BY <2>1, <2>4, <1>5 DEF OrderInv
  <2> QED BY <2>3, <2>4, <1>5
<1>9. \A n \in putting' :
        /\ n = Len(sent') /\ n > 0
        /\ \A j \in 1..Len(inbox') : inbox'[j] < n
        /\ \A i \in 1..Len(taken') : taken'[i] < n
  BY <1>1, <1>3, <1>5 DEF OrderInv
<1> QED BY <1>1, <1>4, <1>6, <1>7, <1>8, <1>9 DEF OrderInv

(* A queue cut short, or emptied, with nothing put or published. *)
LEMMA OrderCut ==
  ASSUME OrderInv, NEW k \in 0..Len(inbox), inbox' = SubSeq(inbox, 1, k),
         putting' \subseteq putting, sent' = sent, taken' = taken
  PROVE  OrderInv'
<1>1. inbox \in Seq(Nat)
  BY DEF OrderInv, Numbered
<1>2. /\ inbox' \in Seq(Nat) /\ Len(inbox') = k /\ \A i \in 1..k : inbox'[i] = inbox[i]
  BY <1>1, KeepsPrefix
<1>3. k <= Len(inbox) /\ Len(inbox) \in Nat
  BY <1>1
<1>4. Numbered(inbox)' /\ Numbered(taken)' /\ Increasing(inbox)'
  <2>1. ASSUME NEW i \in 1..Len(inbox') PROVE i \in 1..Len(inbox) /\ inbox'[i] = inbox[i]
    BY <1>2, <1>3
  <2>2. Numbered(inbox)' /\ Numbered(taken)'
    BY <1>2, <2>1 DEF OrderInv, Numbered
  <2>3. Increasing(inbox)'
    BY <2>1 DEF OrderInv, Increasing
  <2> QED BY <2>2, <2>3
<1>5. \A i \in 1..Len(taken'), j \in 1..Len(inbox') : taken'[i] < inbox'[j]
  BY <1>2, <1>3 DEF OrderInv
<1>6. \A n \in putting' :
        /\ n = Len(sent') /\ n > 0
        /\ \A j \in 1..Len(inbox') : inbox'[j] < n
        /\ \A i \in 1..Len(taken') : taken'[i] < n
  BY <1>2, <1>3 DEF OrderInv
<1> QED BY <1>4, <1>5, <1>6 DEF OrderInv

LEMMA OrderInit == Init => OrderInv
BY DEF Init, OrderInv, Numbered, Increasing

(* Everything else leaves the messages where they are. *)
LEMMA OrderSame ==
  ASSUME OrderInv, UNCHANGED <<sent, inbox, putting, taken>>
  PROVE  OrderInv'
BY DEF OrderInv, Numbered, Increasing

(* Each step, seen from the topic: a message published, taken, or neither. *)
LEMMA OrderStep ==
  ASSUME OrderInv, Next
  PROVE  /\ OrderInv'
         /\ \/ Len(sent') = Len(sent) + 1 /\ taken' = taken
            \/ sent' = sent /\ taken' = taken
            \/ /\ sent' = sent
               /\ Head(inbox) \in 1..Len(sent)
               /\ \A i \in 1..Len(taken) : taken[i] < Head(inbox)
               /\ taken' = Append(taken, Head(inbox))
<1>1. ASSUME NEW t \in Txs, Publish(t)
      PROVE  OrderInv' /\ Len(sent') = Len(sent) + 1 /\ taken' = taken
  <2>1. sent \in Seq(Txs) /\ sent' = Append(sent, t) /\ taken' = taken
    BY <1>1 DEF OrderInv, Publish
  <2> QED BY <1>1, <2>1, OrderPublish
<1>2. CASE PutSucceeds
  BY <1>2, OrderPut DEF PutSucceeds
<1>3. CASE PutTimesOut
  <2>1. inbox' = inbox /\ putting' = {} /\ sent' = sent /\ taken' = taken
    BY <1>3 DEF PutTimesOut
  <2> QED BY <2>1 DEF OrderInv, Numbered, Increasing
<1>4. CASE Take
  BY <1>4, OrderTake
<1>5. CASE LoseSubscription
  <2>1. PICK k \in 0..Len(inbox) : inbox' = SubSeq(inbox, 1, k)
    BY <1>5 DEF LoseSubscription
  <2>2. sent' = sent /\ taken' = taken /\ putting' = putting
    BY <1>5 DEF LoseSubscription
  <2> QED BY <2>1, <2>2, OrderCut
<1>6. CASE Stop
  <2>1. inbox' = <<>> /\ putting' = {} /\ sent' = sent /\ taken' = taken
    BY <1>6 DEF Stop, Cancelled
  <2> QED BY <2>1 DEF OrderInv, Numbered, Increasing
<1>7. ASSUME \/ Subscribe
             \/ Process
             \/ \E t \in Txs : PipelineStores(t)
             \/ \E r \in Rules : ToggleRule(r)
      PROVE  UNCHANGED <<sent, inbox, putting, taken>>
  BY <1>7 DEF Subscribe, Process, ScoringFails, Evaluate, LookUp, Persist, PersistFails,
              PublishAlert, Done, PipelineStores, ToggleRule, Aside, queues, tables
<1> QED BY <1>1, <1>2, <1>3, <1>4, <1>5, <1>6, <1>7, OrderSame DEF Next

(***************************************************************************)
(* The worker's feed implements the lossy FIFO: whatever the backend drops *)
(* and however often the worker starts again, it is given messages in the  *)
(* order of their publication and none twice.                              *)
(***************************************************************************)
THEOREM FeedIsLossyFifo == Spec => TopicSpec
<1>1. Init => Topic!Init
  BY DEF Init, Topic!Init
<1>2. OrderInv /\ [Next]_vars => OrderInv'
  <2> SUFFICES ASSUME OrderInv, [Next]_vars PROVE OrderInv'
    OBVIOUS
  <2>1. CASE Next
    BY <2>1, OrderStep
  <2>2. CASE UNCHANGED vars
    BY <2>2, OrderSame DEF vars
  <2> QED BY <2>1, <2>2
<1>3. OrderInv /\ [Next]_vars => [Topic!Publish \/ Topic!Receive]_<<Len(sent), taken>>
  <2> SUFFICES ASSUME OrderInv, [Next]_vars
               PROVE  \/ Topic!Publish
                      \/ Topic!Receive
                      \/ UNCHANGED <<Len(sent), taken>>
    OBVIOUS
  <2>1. CASE UNCHANGED vars
    BY <2>1 DEF vars
  <2>2. CASE Len(sent') = Len(sent) + 1 /\ taken' = taken
    BY <2>2 DEF Topic!Publish
  <2>3. CASE sent' = sent /\ taken' = taken
    BY <2>3
  <2>4. CASE /\ sent' = sent
             /\ Head(inbox) \in 1..Len(sent)
             /\ \A i \in 1..Len(taken) : taken[i] < Head(inbox)
             /\ taken' = Append(taken, Head(inbox))
    BY <2>4 DEF Topic!Receive
  <2>5. CASE Next
    BY <2>5, <2>2, <2>3, <2>4, OrderStep
  <2> QED BY <2>1, <2>5
<1> QED BY <1>1, <1>2, <1>3, OrderInit, PTL DEF Spec, TopicSpec, Topic!Spec

(***************************************************************************)
(* Alerts and tables.                                                      *)
(***************************************************************************)
Fields == {"pc", "msg", "hits"}

AlertInv ==
  /\ sent \in Seq(Txs)
  /\ DOMAIN worker = Fields
  /\ worker.pc # "idle" => worker.msg \in 1..Len(sent)
  /\ worker.pc = "stored" => Tx \in rows \cup failed
  /\ \A a \in alerts : a[1] \in 1..Len(sent)
  /\ AlertedIsStored

(* What Continue leaves of the worker's locals. *)
LEMMA Continued ==
  ASSUME DOMAIN worker = Fields, NEW p, NEW h
  PROVE  /\ Continue([pc |-> p, hits |-> h]) =>
              DOMAIN worker' = Fields /\ worker'.pc = p /\ worker'.msg = worker.msg
         /\ Continue([pc |-> p]) =>
              DOMAIN worker' = Fields /\ worker'.pc = p /\ worker'.msg = worker.msg
         /\ Continue([hits |-> h]) =>
              DOMAIN worker' = Fields /\ worker'.pc = worker.pc /\ worker'.msg = worker.msg
BY DEF Continue, Fields

LEMMA AlertInit == Init => AlertInv
BY DEF Init, AlertInv, AlertedIsStored, Idle, Fields

(* What the alerts topic says stays true as long as tables only grow and no
   message changes its transaction. *)
LEMMA AlertSame ==
  ASSUME AlertInv, sent' = sent, alerts' \subseteq alerts,
         rows \subseteq rows', failed \subseteq failed'
  PROVE  /\ sent' \in Seq(Txs)
         /\ \A a \in alerts' : a[1] \in 1..Len(sent')
         /\ AlertedIsStored'
BY DEF AlertInv, AlertedIsStored

LEMMA AlertPublish ==
  ASSUME AlertInv, NEW t \in Txs, Publish(t)
  PROVE  AlertInv'
<1>1. /\ sent' = Append(sent, t) /\ worker' = worker /\ alerts' = alerts
      /\ rows' = rows /\ failed' = failed
  BY DEF Publish, tables
<1>2. /\ sent' \in Seq(Txs) /\ Len(sent') = Len(sent) + 1 /\ Len(sent) \in Nat
      /\ \A i \in 1..Len(sent) : sent'[i] = sent[i]
  BY <1>1, Appended DEF AlertInv
<1>3. \A i \in 1..Len(sent) : i \in 1..Len(sent')
  BY <1>2
<1> QED BY <1>1, <1>2, <1>3 DEF AlertInv, AlertedIsStored, Tx

LEMMA AlertProcess ==
  ASSUME AlertInv, Process
  PROVE  AlertInv'
<1>1. sent' = sent /\ DOMAIN worker = Fields
  BY DEF AlertInv, Process, ScoringFails, Evaluate, LookUp, Persist, PersistFails,
         PublishAlert, Done, Aside, queues
<1>2. CASE ScoringFails \/ Done
  <2>1. worker' = Idle /\ rows' = rows /\ failed' = failed /\ alerts' = alerts
    BY <1>2 DEF ScoringFails, Done
  <2> QED BY <1>1, <2>1, AlertSame DEF AlertInv, Idle, Fields
<1>3. CASE Evaluate \/ LookUp
  <2>1. /\ worker.pc # "idle" /\ rows' = rows /\ failed' = failed /\ alerts' = alerts
        /\ worker'.pc \in {"evaluated", "looked"} /\ worker'.msg = worker.msg
        /\ DOMAIN worker' = Fields
    BY <1>1, <1>3, Continued DEF Evaluate, LookUp, At
  <2> QED BY <1>1, <2>1, AlertSame DEF AlertInv
<1>4. CASE Persist \/ PersistFails
  <2>1. /\ worker.pc # "idle" /\ alerts' = alerts
        /\ rows \subseteq rows' /\ failed \subseteq failed' /\ Tx \in rows' \cup failed'
        /\ worker'.pc = "stored" /\ worker'.msg = worker.msg /\ DOMAIN worker' = Fields
    BY <1>1, <1>4, Continued DEF Persist, PersistFails, At
  <2> QED BY <1>1, <2>1, AlertSame DEF AlertInv, Tx
<1>5. CASE PublishAlert
  <2>1. PICK r \in worker.hits : AlertGoes(<<worker.msg, r>>) /\ Continue([hits |-> worker.hits \ {r}])
    BY <1>5 DEF PublishAlert
  <2>2. /\ worker.pc = "stored" /\ rows' = rows /\ failed' = failed
        /\ worker'.pc = worker.pc /\ worker'.msg = worker.msg /\ DOMAIN worker' = Fields
    BY <1>1, <1>5, <2>1, Continued DEF PublishAlert, At
  <2>3. alerts' \subseteq alerts \cup {<<worker.msg, r>>}
    BY <2>1 DEF AlertGoes
  <2>4. worker.msg \in 1..Len(sent) /\ sent[worker.msg] \in rows \cup failed
    BY <2>2 DEF AlertInv, Tx
  <2>5. \A a \in alerts' : a[1] \in 1..Len(sent) /\ sent[a[1]] \in rows \cup failed
    BY <2>3, <2>4 DEF AlertInv, AlertedIsStored
  <2> QED BY <1>1, <2>2, <2>4, <2>5 DEF AlertInv, AlertedIsStored, Tx
<1> QED BY <1>2, <1>3, <1>4, <1>5 DEF Process

LEMMA AlertStep ==
  ASSUME OrderInv, AlertInv, [Next]_vars
  PROVE  AlertInv'
<1>1. ASSUME NEW t \in Txs, Publish(t)
      PROVE  AlertInv'
  BY <1>1, AlertPublish
<1>2. CASE Process
  BY <1>2, AlertProcess
<1>3. CASE Take
  <2>1. Head(inbox) \in 1..Len(sent)
    BY <1>3, OrderTake
  <2>2. /\ worker' = [Idle EXCEPT !.pc = "taken", !.msg = Head(inbox)]
        /\ sent' = sent /\ rows' = rows /\ failed' = failed /\ alerts' = alerts
    BY <1>3 DEF Take, tables
  <2>3. worker'.pc = "taken" /\ worker'.msg = Head(inbox) /\ DOMAIN worker' = Fields
    BY <2>2 DEF Idle, Fields
  <2> QED BY <2>1, <2>2, <2>3, AlertSame DEF AlertInv
<1>4. CASE Stop
  <2>1. /\ worker' = Idle /\ sent' = sent /\ rows' = rows /\ failed' = failed
        /\ alerts' \subseteq alerts
    BY <1>4 DEF Stop, Cancelled, tables
  <2> QED BY <2>1, AlertSame DEF AlertInv, Idle, Fields
<1>5. ASSUME NEW t \in Txs, PipelineStores(t)
      PROVE  AlertInv'
  <2>1. /\ worker' = worker /\ sent' = sent /\ rows \subseteq rows' /\ failed' = failed
        /\ alerts' = alerts
    BY <1>5 DEF PipelineStores, Aside, queues
  <2> QED BY <2>1, AlertSame DEF AlertInv, Tx
<1>6. ASSUME \/ PutSucceeds \/ PutTimesOut \/ Subscribe \/ LoseSubscription
             \/ \E r \in Rules : ToggleRule(r)
             \/ UNCHANGED vars
      PROVE  AlertInv'
  <2>1. UNCHANGED <<worker, sent, rows, failed, alerts>>
    BY <1>6 DEF PutSucceeds, PutTimesOut, Subscribe, LoseSubscription, ToggleRule,
                queues, tables, vars
  <2> QED BY <2>1 DEF AlertInv, AlertedIsStored, Tx
<1> QED BY <1>1, <1>2, <1>3, <1>4, <1>5, <1>6 DEF Next

(***************************************************************************)
(* An alert on the worker's topic names a transaction that is stored,      *)
(* unless its save failed.                                                 *)
(***************************************************************************)
THEOREM AlertsAreBacked == Spec => []AlertedIsStored
<1>1. Spec => []OrderInv
  <2>1. OrderInv /\ [Next]_vars => OrderInv'
    BY OrderStep, OrderSame DEF vars
  <2> QED BY <2>1, OrderInit, PTL DEF Spec
<1>2. AlertInv => AlertedIsStored
  BY DEF AlertInv
<1> QED BY <1>1, <1>2, AlertInit, AlertStep, PTL DEF Spec

(***************************************************************************)
(* Where a message is: waiting, given to the worker, being put, or lost.   *)
(***************************************************************************)
Waiting == ToSet(inbox)
Given == ToSet(taken)

PlaceInv ==
  /\ Increasing(taken)
  /\ Waiting \cup Given \cup putting \cup lost = 1..Len(sent)
  /\ lost \cap (Waiting \cup Given \cup putting) = {}

LEMMA SetAppended ==
  ASSUME NEW s \in Seq(Nat), NEW m \in Nat
  PROVE  ToSet(Append(s, m)) = ToSet(s) \cup {m}
<1> DEFINE p == Append(s, m)
<1>1. /\ p \in Seq(Nat) /\ Len(p) = Len(s) + 1 /\ Len(s) \in Nat
      /\ \A i \in 1..Len(s) : p[i] = s[i]
      /\ p[Len(s) + 1] = m
  BY Appended
<1>2. DOMAIN s = 1..Len(s) /\ DOMAIN p = 1..(Len(s) + 1)
  BY <1>1
<1> HIDE DEF p
<1>3. 1..(Len(s) + 1) = (1..Len(s)) \cup {Len(s) + 1}
  BY <1>1
<1>4. ToSet(p) = {p[i] : i \in (1..Len(s)) \cup {Len(s) + 1}}
  BY <1>2, <1>3 DEF ToSet
<1>5. ToSet(p) = {p[i] : i \in 1..Len(s)} \cup {m}
  BY <1>1, <1>4
<1>6. {p[i] : i \in 1..Len(s)} = ToSet(s)
  BY <1>1, <1>2 DEF ToSet
<1> QED BY <1>5, <1>6 DEF p

LEMMA SetTail ==
  ASSUME NEW s \in Seq(Nat), s # <<>>
  PROVE  ToSet(s) = ToSet(Tail(s)) \cup {Head(s)}
<1> DEFINE t == Tail(s)
<1>1. /\ t \in Seq(Nat) /\ Len(t) = Len(s) - 1
      /\ \A i \in 1..Len(t) : t[i] = s[i + 1]
      /\ Head(s) = s[1] /\ Len(s) \in Nat \ {0}
  BY KeepsTail
<1>2. DOMAIN s = 1..Len(s) /\ DOMAIN t = 1..Len(t)
  BY <1>1
<1> HIDE DEF t
<1>3. ASSUME NEW m \in ToSet(s) PROVE m \in ToSet(t) \cup {Head(s)}
  <2>1. PICK i \in 1..Len(s) : m = s[i]
    BY <1>2 DEF ToSet
  <2>2. CASE i = 1
    BY <1>1, <2>1, <2>2
  <2>3. CASE i # 1
    <3>1. i - 1 \in 1..Len(t) /\ (i - 1) + 1 = i
      BY <1>1, <2>3
    <3>2. t[i - 1] = m
      BY <1>1, <2>1, <3>1
    <3> QED BY <1>2, <3>1, <3>2 DEF ToSet
  <2> QED BY <2>2, <2>3
<1>4. ASSUME NEW i \in 1..Len(t) PROVE t[i] \in ToSet(s)
  <2>1. i + 1 \in 1..Len(s) /\ t[i] = s[i + 1]
    BY <1>1
  <2> QED BY <1>2, <2>1 DEF ToSet
<1>5. Head(s) \in ToSet(s)
  <2>1. 1 \in 1..Len(s) /\ Head(s) = s[1]
    BY <1>1
  <2> QED BY <1>2, <2>1 DEF ToSet
<1>6. ToSet(t) \subseteq ToSet(s)
  BY <1>2, <1>4 DEF ToSet
<1> QED BY <1>3, <1>5, <1>6 DEF t

LEMMA SetSplit ==
  ASSUME NEW s \in Seq(Nat), Increasing(s), NEW k \in 0..Len(s)
  PROVE  LET p == SubSeq(s, 1, k)
             q == SubSeq(s, k + 1, Len(s))
         IN  ToSet(s) = ToSet(p) \cup ToSet(q) /\ ToSet(p) \cap ToSet(q) = {}
<1> DEFINE p == SubSeq(s, 1, k)
           q == SubSeq(s, k + 1, Len(s))
           n == Len(s)
<1>1. n \in Nat /\ k \in Nat /\ k <= n /\ DOMAIN s = 1..n
  OBVIOUS
<1>2. /\ p \in Seq(Nat) /\ Len(p) = k /\ \A i \in 1..k : p[i] = s[i]
  BY KeepsPrefix
<1>3. /\ q \in Seq(Nat) /\ Len(q) = n - k /\ \A i \in 1..(n - k) : q[i] = s[k + i]
  OBVIOUS
<1>4. DOMAIN p = 1..k /\ DOMAIN q = 1..(n - k)
  BY <1>2, <1>3
<1>5. \A i, j \in 1..n : i < j => s[i] < s[j]
  BY DEF Increasing
<1>6. \A i \in 1..n : s[i] \in Nat
  OBVIOUS
<1> HIDE DEF p, q, n
<1>7. ToSet(p) = {s[i] : i \in 1..k}
  BY <1>2, <1>4 DEF ToSet
<1>8. ToSet(q) = {s[i] : i \in (k + 1)..n}
  <2>1. ASSUME NEW i \in (k + 1)..n PROVE \E j \in 1..(n - k) : q[j] = s[i]
    <3>1. i - k \in 1..(n - k) /\ k + (i - k) = i
      BY <1>1
    <3> QED BY <1>3, <3>1
  <2>2. ASSUME NEW j \in 1..(n - k) PROVE \E i \in (k + 1)..n : q[j] = s[i]
    <3>1. k + j \in (k + 1)..n
      BY <1>1
    <3>2. q[j] = s[k + j]
      BY <1>3
    <3> QED BY <3>1, <3>2, Zenon
  <2>3. ToSet(q) = {q[j] : j \in 1..(n - k)}
    BY <1>4 DEF ToSet
  <2>4. ToSet(q) \subseteq {s[i] : i \in (k + 1)..n}
    BY <2>2, <2>3
  <2>5. {s[i] : i \in (k + 1)..n} \subseteq ToSet(q)
    <3>1. ASSUME NEW m \in {s[i] : i \in (k + 1)..n} PROVE m \in ToSet(q)
      <4>1. PICK i \in (k + 1)..n : m = s[i]
        BY <3>1
      <4>2. PICK j \in 1..(n - k) : q[j] = s[i]
        BY <2>1
      <4> QED BY <2>3, <4>1, <4>2
    <3> QED BY <3>1
  <2> QED BY <2>4, <2>5
<1>9. 1..n = (1..k) \cup ((k + 1)..n)
  BY <1>1
<1>10. ToSet(s) = {s[i] : i \in 1..n}
  BY <1>1 DEF ToSet
<1>11. ToSet(s) = ToSet(p) \cup ToSet(q)
  BY <1>7, <1>8, <1>9, <1>10
<1>12. ASSUME NEW i \in 1..k, NEW j \in (k + 1)..n PROVE s[i] # s[j]
  <2>1. i \in 1..n /\ j \in 1..n /\ i < j
    BY <1>1
  <2>2. s[i] < s[j] /\ s[i] \in Nat /\ s[j] \in Nat
    BY <1>5, <1>6, <2>1
  <2> QED BY <2>2
<1>13. ToSet(p) \cap ToSet(q) = {}
  BY <1>7, <1>8, <1>12
<1> QED BY <1>11, <1>13 DEF p, q, n

(* What the order of messages says of these sets. *)
LEMMA OrderApart ==
  ASSUME OrderInv
  PROVE  /\ inbox \in Seq(Nat) /\ taken \in Seq(Nat) /\ Len(sent) \in Nat
         /\ Waiting \subseteq 1..Len(sent) /\ Given \subseteq 1..Len(sent)
         /\ putting \subseteq 1..Len(sent)
         /\ Waiting \cap Given = {} /\ putting \cap (Waiting \cup Given) = {}
<1>1. /\ inbox \in Seq(Nat) /\ taken \in Seq(Nat) /\ sent \in Seq(Txs)
      /\ \A i \in 1..Len(inbox) : inbox[i] \in 1..Len(sent)
      /\ \A i \in 1..Len(taken) : taken[i] \in 1..Len(sent)
  BY DEF OrderInv, Numbered
<1>2. Len(sent) \in Nat /\ DOMAIN inbox = 1..Len(inbox) /\ DOMAIN taken = 1..Len(taken)
  BY <1>1
<1>3. Waiting = {inbox[i] : i \in 1..Len(inbox)} /\ Given = {taken[i] : i \in 1..Len(taken)}
  BY <1>2 DEF Waiting, Given, ToSet
<1>4. \A i \in 1..Len(taken), j \in 1..Len(inbox) : taken[i] # inbox[j]
  <2>1. ASSUME NEW i \in 1..Len(taken), NEW j \in 1..Len(inbox) PROVE taken[i] # inbox[j]
    <3>1. taken[i] < inbox[j] /\ taken[i] \in 1..Len(sent) /\ inbox[j] \in 1..Len(sent)
      BY <1>1 DEF OrderInv
    <3> QED BY <1>2, <3>1
  <2> QED BY <2>1
<1>5. ASSUME NEW n \in putting PROVE n \in 1..Len(sent) /\ n \notin Waiting /\ n \notin Given
  <2>1. /\ n = Len(sent) /\ n > 0
        /\ \A j \in 1..Len(inbox) : inbox[j] < n
        /\ \A i \in 1..Len(taken) : taken[i] < n
    BY DEF OrderInv
  <2>2. \A j \in 1..Len(inbox) : inbox[j] # n
    BY <1>1, <1>2, <2>1
  <2>3. \A i \in 1..Len(taken) : taken[i] # n
    BY <1>1, <1>2, <2>1
  <2> QED BY <1>2, <1>3, <2>1, <2>2, <2>3
<1> QED BY <1>1, <1>2, <1>3, <1>4, <1>5

LEMMA PlaceInit == Init => PlaceInv
<1> SUFFICES ASSUME Init PROVE PlaceInv
  OBVIOUS
<1>1. inbox = <<>> /\ taken = <<>> /\ sent = <<>> /\ putting = {} /\ lost = {}
  BY DEF Init
<1>2. ToSet(<<>>) = {} /\ Len(<<>>) = 0
  BY DEF ToSet
<1> QED BY <1>1, <1>2 DEF PlaceInv, Increasing, Waiting, Given

LEMMA PlacePublish ==
  ASSUME OrderInv, PlaceInv, backend \in {"memory", "redis"}, NEW t \in Txs, Publish(t)
  PROVE  PlaceInv'
<1> DEFINE n == Len(sent) + 1
<1>1. /\ sent' = Append(sent, t) /\ taken' = taken /\ putting = {}
      /\ inbox' = IF Reaches THEN Append(inbox, n) ELSE inbox
      /\ lost' = IF ~Reaches /\ backend = "redis" THEN lost \cup {n} ELSE lost
      /\ putting' = IF ~Reaches /\ backend = "memory" THEN {n} ELSE {}
  BY DEF Publish
<1>2. /\ Len(sent) \in Nat /\ n \in Nat /\ inbox \in Seq(Nat)
      /\ Waiting \subseteq 1..Len(sent) /\ Given \subseteq 1..Len(sent)
  BY OrderApart
<1>3. Len(sent') = n
  BY <1>1, Appended DEF OrderInv
<1>4. 1..n = (1..Len(sent)) \cup {n} /\ n \notin 1..Len(sent)
  BY <1>2
<1>5. Waiting' = IF Reaches THEN Waiting \cup {n} ELSE Waiting
  BY <1>1, <1>2, SetAppended DEF Waiting
<1>6. Given' = Given /\ Increasing(taken)'
  BY <1>1 DEF Given, PlaceInv, Increasing
<1> HIDE DEF n
<1> QED BY <1>1, <1>3, <1>4, <1>5, <1>6 DEF PlaceInv

LEMMA PlaceStep ==
  ASSUME OrderInv, PlaceInv, backend \in {"memory", "redis"}, [Next]_vars
  PROVE  PlaceInv'
<1>1. ASSUME NEW t \in Txs, Publish(t) PROVE PlaceInv'
  BY <1>1, PlacePublish
<1>2. CASE PutSucceeds
  <2>1. PICK n \in putting : /\ inbox' = Append(inbox, n) /\ putting' = {}
                             /\ sent' = sent /\ taken' = taken /\ lost' = lost
    BY <1>2 DEF PutSucceeds
  <2>2. putting = {n} /\ n \in Nat /\ inbox \in Seq(Nat)
    BY <2>1, OrderApart DEF OrderInv
  <2>3. Waiting' = Waiting \cup {n} /\ Given' = Given /\ Increasing(taken)'
    BY <2>1, <2>2, SetAppended DEF Waiting, Given, PlaceInv, Increasing
  <2> QED BY <2>1, <2>2, <2>3 DEF PlaceInv
<1>3. CASE PutTimesOut
  <2>1. PICK n \in putting : /\ inbox' = inbox /\ putting' = {} /\ lost' = lost \cup {n}
                             /\ sent' = sent /\ taken' = taken
    BY <1>3 DEF PutTimesOut
  <2>2. putting = {n}
    BY <2>1 DEF OrderInv
  <2>3. Waiting' = Waiting /\ Given' = Given /\ Increasing(taken)'
    BY <2>1 DEF Waiting, Given, PlaceInv, Increasing
  <2> QED BY <2>1, <2>2, <2>3, OrderApart DEF PlaceInv
<1>4. CASE LoseSubscription
  <2>1. PICK k \in 0..Len(inbox) :
          /\ inbox' = SubSeq(inbox, 1, k)
          /\ lost' = lost \cup ToSet(SubSeq(inbox, k + 1, Len(inbox)))
    BY <1>4 DEF LoseSubscription
  <2>2. sent' = sent /\ taken' = taken /\ putting' = putting
    BY <1>4 DEF LoseSubscription
  <2> DEFINE gone == ToSet(SubSeq(inbox, k + 1, Len(inbox)))
  <2>3. Waiting = Waiting' \cup gone /\ Waiting' \cap gone = {}
    <3>1. inbox \in Seq(Nat) /\ Increasing(inbox)
      BY OrderApart DEF OrderInv
    <3> QED BY <2>1, <3>1, SetSplit DEF Waiting
  <2>4. lost' = lost \cup gone
    BY <2>1
  <2> HIDE DEF gone
  <2>5. Given' = Given /\ Increasing(taken)'
    BY <2>2 DEF Given, PlaceInv, Increasing
  <2> QED BY <2>2, <2>3, <2>4, <2>5, OrderApart DEF PlaceInv
<1>5. CASE Take
  <2>1. /\ inbox # <<>> /\ inbox' = Tail(inbox) /\ taken' = Append(taken, Head(inbox))
        /\ sent' = sent /\ putting' = putting /\ lost' = lost
    BY <1>5 DEF Take, CanTake
  <2>2. /\ Head(inbox) \in 1..Len(sent) /\ \A i \in 1..Len(taken) : taken[i] < Head(inbox)
        /\ inbox \in Seq(Nat) /\ taken \in Seq(Nat) /\ Len(sent) \in Nat
    BY <1>5, OrderTake, OrderApart
  <2>3. Waiting = Waiting' \cup {Head(inbox)}
    BY <2>1, <2>2, SetTail DEF Waiting
  <2>4. Head(inbox) \in Nat
    BY <2>2
  <2>5. Given' = Given \cup {Head(inbox)}
    BY <2>1, <2>2, <2>4, SetAppended DEF Given
  <2>6. Increasing(taken)'
    <3> DEFINE m == Head(inbox)
    <3>1. /\ taken' \in Seq(Nat) /\ Len(taken') = Len(taken) + 1 /\ Len(taken) \in Nat
          /\ \A i \in 1..Len(taken) : taken'[i] = taken[i]
          /\ taken'[Len(taken) + 1] = m
      BY <2>1, <2>2, <2>4, Appended
    <3>2. /\ \A i, j \in 1..Len(taken) : i < j => taken[i] < taken[j]
          /\ \A i \in 1..Len(taken) : taken[i] < m
      BY <2>2 DEF PlaceInv, Increasing
    <3> HIDE DEF m
    <3>3. ASSUME NEW i \in 1..Len(taken'), NEW j \in 1..Len(taken'), i < j
          PROVE  taken'[i] < taken'[j]
      <4>1. i \in 1..Len(taken) /\ taken'[i] = taken[i]
        BY <3>1, <3>3
      <4>2. CASE j \in 1..Len(taken)
        BY <3>1, <3>2, <3>3, <4>1, <4>2
      <4>3. CASE j = Len(taken) + 1
        BY <3>1, <3>2, <4>1, <4>3
      <4> QED BY <3>1, <4>2, <4>3
    <3> QED BY <3>3 DEF Increasing
  <2> QED BY <2>1, <2>3, <2>5, <2>6 DEF PlaceInv
<1>6. CASE Stop
  <2>1. /\ inbox' = <<>> /\ putting' = {} /\ sent' = sent /\ taken' = taken
        /\ lost' = lost \cup Waiting \cup putting
    BY <1>6 DEF Stop, Waiting
  <2>2. Waiting' = {}
    BY <2>1 DEF Waiting, ToSet
  <2>3. Given' = Given /\ Increasing(taken)'
    BY <2>1 DEF Given, PlaceInv, Increasing
  <2> QED BY <2>1, <2>2, <2>3, OrderApart DEF PlaceInv
<1>7. ASSUME \/ Subscribe
             \/ Process
             \/ \E t \in Txs : PipelineStores(t)
             \/ \E r \in Rules : ToggleRule(r)
             \/ UNCHANGED vars
      PROVE  PlaceInv'
  <2>1. UNCHANGED <<sent, inbox, putting, taken, lost>>
    BY <1>7 DEF Subscribe, Process, ScoringFails, Evaluate, LookUp, Persist, PersistFails,
                PublishAlert, Done, PipelineStores, ToggleRule, Aside, queues, tables, vars
  <2> QED BY <2>1 DEF PlaceInv, Waiting, Given, Increasing
<1> QED BY <1>1, <1>2, <1>3, <1>4, <1>5, <1>6, <1>7 DEF Next

(* A message that waits, or was taken, does so at one place of the sequence. *)
LEMMA OnePosition ==
  ASSUME NEW s \in Seq(Nat), Increasing(s), NEW n \in ToSet(s)
  PROVE  \E i : {j \in DOMAIN s : s[j] = n} = {i}
<1>1. DOMAIN s = 1..Len(s) /\ Len(s) \in Nat
  OBVIOUS
<1>2. PICK i \in 1..Len(s) : s[i] = n
  BY <1>1 DEF ToSet
<1>3. ASSUME NEW j \in 1..Len(s), s[j] = n PROVE j = i
  <2>1. \A x, y \in 1..Len(s) : x < y => s[x] < s[y]
    BY DEF Increasing
  <2>2. n \in Nat
    BY <1>2
  <2>3. ~(i < j) /\ ~(j < i)
    BY <1>2, <1>3, <2>1, <2>2
  <2> QED BY <1>1, <2>3
<1>4. {j \in DOMAIN s : s[j] = n} = {i}
  BY <1>1, <1>2, <1>3
<1> QED BY <1>4

(* The places of a message as TypeOK counts them. *)
InInbox(n) == {<<"inbox", i>> : i \in {j \in DOMAIN inbox : inbox[j] = n}}
InTaken(n) == {<<"taken", i>> : i \in {j \in DOMAIN taken : taken[j] = n}}
InOther(n) == {<<"other", s>> : s \in {q \in {"putting", "lost"} :
                 n \in IF q = "putting" THEN putting ELSE lost}}

LEMMA OnePlace ==
  ASSUME OrderInv, PlaceInv, NEW n \in 1..Len(sent)
  PROVE  Cardinality(InInbox(n) \cup InTaken(n) \cup InOther(n)) = 1
<1>1. /\ inbox \in Seq(Nat) /\ taken \in Seq(Nat)
      /\ Waiting \cap Given = {} /\ putting \cap (Waiting \cup Given) = {}
      /\ lost \cap (Waiting \cup Given \cup putting) = {}
      /\ n \in Waiting \cup Given \cup putting \cup lost
      /\ Increasing(inbox) /\ Increasing(taken)
  BY OrderApart DEF PlaceInv, OrderInv
<1>2. n \notin Waiting => InInbox(n) = {}
  BY DEF Waiting, ToSet, InInbox
<1>3. n \notin Given => InTaken(n) = {}
  BY DEF Given, ToSet, InTaken
<1>4. n \notin putting /\ n \notin lost => InOther(n) = {}
  BY DEF InOther
<1>5. n \in Waiting => \E e : InInbox(n) = {e}
  <2> SUFFICES ASSUME n \in Waiting PROVE \E e : InInbox(n) = {e}
    OBVIOUS
  <2>1. PICK i : {j \in DOMAIN inbox : inbox[j] = n} = {i}
    BY <1>1, OnePosition DEF Waiting
  <2>2. InInbox(n) = {<<"inbox", i>>}
    BY <2>1 DEF InInbox
  <2> QED BY <2>2
<1>6. n \in Given => \E e : InTaken(n) = {e}
  <2> SUFFICES ASSUME n \in Given PROVE \E e : InTaken(n) = {e}
    OBVIOUS
  <2>1. PICK i : {j \in DOMAIN taken : taken[j] = n} = {i}
    BY <1>1, OnePosition DEF Given
  <2>2. InTaken(n) = {<<"taken", i>>}
    BY <2>1 DEF InTaken
  <2> QED BY <2>2
<1>7. n \in putting /\ n \notin lost => \E e : InOther(n) = {e}
  <2> SUFFICES ASSUME n \in putting, n \notin lost PROVE \E e : InOther(n) = {e}
    OBVIOUS
  <2>1. InOther(n) = {<<"other", "putting">>}
    BY DEF InOther
  <2> QED BY <2>1
<1>8. n \in lost /\ n \notin putting => \E e : InOther(n) = {e}
  <2> SUFFICES ASSUME n \in lost, n \notin putting PROVE \E e : InOther(n) = {e}
    OBVIOUS
  <2>1. InOther(n) = {<<"other", "lost">>}
    BY DEF InOther
  <2> QED BY <2>1
<1>9. \E e : InInbox(n) \cup InTaken(n) \cup InOther(n) = {e}
  <2>1. CASE n \in Waiting
    BY <1>1, <1>3, <1>4, <1>5, <2>1
  <2>2. CASE n \in Given
    BY <1>1, <1>2, <1>4, <1>6, <2>2
  <2>3. CASE n \in putting
    BY <1>1, <1>2, <1>3, <1>7, <2>3
  <2>4. CASE n \in lost
    BY <1>1, <1>2, <1>3, <1>8, <2>4
  <2> QED BY <1>1, <2>1, <2>2, <2>3, <2>4
<1>10. PICK e : InInbox(n) \cup InTaken(n) \cup InOther(n) = {e}
  BY <1>9
<1> QED BY <1>10, FS_Singleton

(***************************************************************************)
(* The rest of the types.                                                  *)
(***************************************************************************)
LocalInv ==
  /\ backend \in {"memory", "redis"} /\ subscribed \in BOOLEAN
  /\ Len(sent) <= MaxMessages
  /\ worker.pc \in {"idle", "taken", "evaluated", "looked", "stored"}
  /\ worker.hits \subseteq Rules /\ active \subseteq Rules
  /\ rows \subseteq Txs /\ failed \subseteq Txs
  /\ alerts \subseteq (1..Len(sent)) \X Rules /\ IsFiniteSet(alerts)
  /\ backend = "memory" => Len(inbox) <= QueueMax /\ Cardinality(alerts) <= QueueMax

LEMMA LocalInit == Init => LocalInv
<1> SUFFICES ASSUME Init PROVE LocalInv
  OBVIOUS
<1>1. /\ sent = <<>> /\ inbox = <<>> /\ alerts = {} /\ worker = Idle
      /\ active = Rules /\ rows = {} /\ failed = {}
      /\ backend \in {"memory", "redis"} /\ subscribed = FALSE
  BY DEF Init
<1>2. QueueMax \in Nat /\ MaxMessages \in Nat
  BY BoundsAssumption
<1>3. IsFiniteSet(alerts) /\ Cardinality(alerts) = 0
  BY <1>1, FS_EmptySet
<1>4. worker.pc = "idle" /\ worker.hits = {}
  BY <1>1 DEF Idle
<1>5. Len(sent) = 0 /\ Len(inbox) = 0
  BY <1>1
<1>6. /\ rows \subseteq Txs /\ failed \subseteq Txs /\ active \subseteq Rules
      /\ worker.hits \subseteq Rules /\ alerts \subseteq (1..Len(sent)) \X Rules
  BY <1>1, <1>4
<1>7. /\ Len(sent) <= MaxMessages /\ Len(inbox) <= QueueMax /\ Cardinality(alerts) <= QueueMax
  BY <1>2, <1>3, <1>5
<1> QED BY <1>1, <1>3, <1>4, <1>6, <1>7 DEF LocalInv

(* One element more. *)
LEMMA OneMore ==
  ASSUME NEW S, IsFiniteSet(S), NEW e
  PROVE  /\ Cardinality(S) \in Nat
         /\ IsFiniteSet(S \cup {e}) /\ Cardinality(S \cup {e}) \in Nat
         /\ Cardinality(S \cup {e}) <= Cardinality(S) + 1
<1>1. IsFiniteSet(S \cup {e})
  BY FS_AddElement
<1>2. Cardinality(S \cup {e}) = IF e \in S THEN Cardinality(S) ELSE Cardinality(S) + 1
  BY FS_AddElement
<1>3. Cardinality(S) \in Nat /\ Cardinality(S \cup {e}) \in Nat
  BY <1>1, FS_CardinalityType
<1> QED BY <1>1, <1>2, <1>3

(* Steps of _process touch no queue but the alerts topic. *)
LEMMA LocalProcess ==
  ASSUME AlertInv, LocalInv, Process
  PROVE  LocalInv'
<1>1. UNCHANGED <<backend, sent, inbox, subscribed, active>> /\ DOMAIN worker = Fields
  BY DEF AlertInv, Process, ScoringFails, Evaluate, LookUp, Persist, PersistFails,
         PublishAlert, Done, Aside, queues
<1>2. worker.pc # "idle" => Tx \in Txs
  BY DEF AlertInv, Tx
<1>3. CASE ScoringFails \/ Done
  <2>1. worker' = Idle /\ UNCHANGED <<rows, failed, alerts>>
    BY <1>3 DEF ScoringFails, Done
  <2> QED BY <1>1, <2>1 DEF LocalInv, Idle
<1>4. CASE Evaluate
  <2>1. PICK hits \in SUBSET active : Continue([pc |-> "evaluated", hits |-> hits])
    BY <1>4 DEF Evaluate
  <2>2. worker'.pc = "evaluated" /\ worker'.hits = hits
    BY <1>1, <2>1 DEF Continue, Fields
  <2>3. UNCHANGED <<rows, failed, alerts>>
    BY <1>4 DEF Evaluate
  <2> QED BY <1>1, <2>2, <2>3 DEF LocalInv
<1>5. CASE LookUp \/ Persist \/ PersistFails
  <2>1. /\ worker'.pc \in {"looked", "stored"} /\ worker'.hits = worker.hits
        /\ alerts' = alerts /\ worker.pc # "idle"
    BY <1>1, <1>5 DEF LookUp, Persist, PersistFails, At, Continue, Fields
  <2>2. rows' \subseteq rows \cup {Tx} /\ failed' \subseteq failed \cup {Tx}
    BY <1>5 DEF LookUp, Persist, PersistFails
  <2> QED BY <1>1, <1>2, <2>1, <2>2 DEF LocalInv
<1>6. CASE PublishAlert
  <2>1. PICK r \in worker.hits : AlertGoes(<<worker.msg, r>>) /\ Continue([hits |-> worker.hits \ {r}])
    BY <1>6 DEF PublishAlert
  <2>2. worker.pc = "stored" /\ UNCHANGED <<rows, failed>>
    BY <1>6 DEF PublishAlert, At
  <2>3. worker'.pc = worker.pc /\ worker'.hits = worker.hits \ {r}
    BY <1>1, <2>1 DEF Continue, Fields
  <2> DEFINE a == <<worker.msg, r>>
             more == alerts \cup {a}
  <2>4. a \in (1..Len(sent)) \X Rules
    BY <2>1, <2>2 DEF AlertInv, LocalInv
  <2>5. /\ alerts' = alerts \/ alerts' = more
        /\ backend = "memory" /\ alerts' # alerts => Cardinality(alerts) < QueueMax
    BY <2>1 DEF AlertGoes
  <2> HIDE DEF a
  <2>6. /\ IsFiniteSet(alerts) /\ Cardinality(alerts) \in Nat
        /\ IsFiniteSet(more) /\ Cardinality(more) \in Nat
        /\ Cardinality(more) <= Cardinality(alerts) + 1
    BY OneMore DEF LocalInv
  <2> HIDE DEF more
  <2>7. more \subseteq (1..Len(sent)) \X Rules
    BY <2>4 DEF LocalInv, more
  <2>8. QueueMax \in Nat
    BY BoundsAssumption
  <2>9. /\ alerts' \subseteq (1..Len(sent')) \X Rules /\ IsFiniteSet(alerts')
        /\ backend' = "memory" => Cardinality(alerts') <= QueueMax
    BY <1>1, <2>5, <2>6, <2>7, <2>8 DEF LocalInv
  <2> QED BY <1>1, <2>2, <2>3, <2>9 DEF LocalInv
<1> QED BY <1>3, <1>4, <1>5, <1>6 DEF Process

LEMMA LocalStep ==
  ASSUME OrderInv, AlertInv, LocalInv, [Next]_vars
  PROVE  LocalInv'
<1>1. /\ inbox \in Seq(Nat) /\ sent \in Seq(Txs) /\ Len(sent) \in Nat /\ Len(inbox) \in Nat
      /\ QueueMax \in Nat /\ MaxMessages \in Nat
  BY OrderApart, BoundsAssumption DEF OrderInv
<1>2. ASSUME NEW t \in Txs, Publish(t) PROVE LocalInv'
  <2> DEFINE n == Len(sent) + 1
  <2>1. /\ n <= MaxMessages /\ sent' = Append(sent, t)
        /\ UNCHANGED <<backend, subscribed, worker, active, rows, alerts, failed>>
    BY <1>2 DEF Publish, tables
  <2>2. \/ inbox' = inbox
        \/ inbox' = Append(inbox, n) /\ (backend = "memory" => Len(inbox) < QueueMax)
    BY <1>2 DEF Publish, Reaches, HasRoom
  <2>3. Len(sent') = n /\ 1..Len(sent) \subseteq 1..n
    BY <1>1, <2>1, Appended
  <2>4. inbox' = inbox \/ Len(inbox') = Len(inbox) + 1
    BY <1>1, <2>2, Appended
  <2>5. backend = "memory" => Len(inbox') <= QueueMax
    BY <1>1, <2>2, <2>4 DEF LocalInv
  <2> HIDE DEF n
  <2> QED BY <2>1, <2>3, <2>5 DEF LocalInv
<1>3. CASE PutSucceeds
  <2>1. PICK n \in putting : inbox' = Append(inbox, n) /\ Len(inbox) < QueueMax
    BY <1>3 DEF PutSucceeds, HasRoom
  <2>2. n \in Nat
    BY <2>1, OrderApart
  <2>3. Len(inbox') <= QueueMax
    BY <1>1, <2>1, <2>2, Appended
  <2>4. UNCHANGED <<backend, sent, subscribed, worker, active, rows, alerts, failed>>
    BY <1>3 DEF PutSucceeds, tables
  <2> QED BY <2>3, <2>4 DEF LocalInv
<1>4. CASE LoseSubscription
  <2>1. /\ backend = "redis" /\ subscribed' = FALSE
        /\ UNCHANGED <<backend, sent, worker, active, rows, alerts, failed>>
    BY <1>4 DEF LoseSubscription, tables
  <2> QED BY <2>1 DEF LocalInv
<1>5. CASE Take
  <2>1. /\ inbox # <<>> /\ inbox' = Tail(inbox) /\ worker' = [Idle EXCEPT !.pc = "taken", !.msg = Head(inbox)]
        /\ UNCHANGED <<backend, sent, subscribed, active, rows, alerts, failed>>
    BY <1>5 DEF Take, CanTake, tables
  <2>2. Len(inbox') = Len(inbox) - 1
    BY <1>1, <2>1, KeepsTail
  <2>3. worker'.pc = "taken" /\ worker'.hits = {}
    BY <2>1 DEF Idle
  <2>4. backend = "memory" => Len(inbox') <= QueueMax
    BY <1>1, <2>2 DEF LocalInv
  <2> QED BY <2>1, <2>3, <2>4 DEF LocalInv
<1>6. CASE Process
  BY <1>6, LocalProcess
<1>7. CASE Stop
  <2>1. /\ worker' = Idle /\ subscribed' = FALSE /\ inbox' = <<>>
        /\ alerts' \in {{}, alerts} /\ (backend = "memory" => alerts' = {})
        /\ UNCHANGED <<backend, sent, active, rows, failed>>
    BY <1>7 DEF Stop, Cancelled, tables
  <2>2. IsFiniteSet({}) /\ Cardinality({}) = 0
    BY FS_EmptySet
  <2>3. IsFiniteSet(alerts') /\ alerts' \subseteq alerts
    BY <2>1, <2>2 DEF LocalInv
  <2>4. backend' = "memory" => Len(inbox') <= QueueMax /\ Cardinality(alerts') <= QueueMax
    <3>1. Len(inbox') = 0
      BY <2>1
    <3>2. backend' = "memory" => Cardinality(alerts') = 0
      BY <2>1, <2>2
    <3>3. 0 <= QueueMax
      BY <1>1
    <3> QED BY <3>1, <3>2, <3>3
  <2>5. worker'.pc = "idle" /\ worker'.hits = {}
    BY <2>1 DEF Idle
  <2>6. alerts' \subseteq (1..Len(sent')) \X Rules
    BY <2>1, <2>3 DEF LocalInv
  <2> QED BY <2>1, <2>3, <2>4, <2>5, <2>6 DEF LocalInv
<1>8. ASSUME NEW r \in Rules, ToggleRule(r) PROVE LocalInv'
  <2>1. /\ active' = SymDiff(active, {r})
        /\ UNCHANGED <<backend, sent, inbox, subscribed, worker, rows, alerts, failed>>
    BY <1>8 DEF ToggleRule, queues
  <2>2. active' \subseteq Rules
    BY <2>1 DEF LocalInv, SymDiff
  <2> QED BY <2>1, <2>2 DEF LocalInv
<1>9. ASSUME NEW t \in Txs, PipelineStores(t) PROVE LocalInv'
  <2>1. /\ rows' = rows \cup {t}
        /\ UNCHANGED <<backend, sent, inbox, subscribed, worker, active, alerts, failed>>
    BY <1>9 DEF PipelineStores, Aside, queues
  <2> QED BY <2>1 DEF LocalInv
<1>10. CASE PutTimesOut \/ Subscribe \/ UNCHANGED vars
  <2>1. /\ UNCHANGED <<backend, sent, inbox, worker, active, rows, alerts, failed>>
        /\ subscribed' \in {subscribed, TRUE}
    BY <1>10 DEF PutTimesOut, Subscribe, queues, tables, vars
  <2> QED BY <2>1 DEF LocalInv
<1> QED BY <1>2, <1>3, <1>4, <1>5, <1>6, <1>7, <1>8, <1>9, <1>10 DEF Next

(***************************************************************************)
(* Every message published is in exactly one place, and neither topic of   *)
(* the in-memory broker ever holds more than it has room for.              *)
(***************************************************************************)
THEOREM OnePlaceEach == Spec => []TypeOK
<1>1. OrderInv /\ PlaceInv /\ LocalInv => TypeOK
  <2> SUFFICES ASSUME OrderInv, PlaceInv, LocalInv PROVE TypeOK
    OBVIOUS
  <2>1. \A n \in 1..Len(sent) :
          Cardinality({<<"inbox", i>> : i \in {j \in DOMAIN inbox : inbox[j] = n}}
                 \cup {<<"taken", i>> : i \in {j \in DOMAIN taken : taken[j] = n}}
                 \cup {<<"other", s>> : s \in {q \in {"putting", "lost"} :
                         n \in IF q = "putting" THEN putting ELSE lost}}) = 1
    BY OnePlace DEF InInbox, InTaken, InOther
  <2>2. sent \in Seq(Txs)
    BY DEF OrderInv
  <2> QED BY <2>1, <2>2 DEF LocalInv, TypeOK
<1>2. OrderInv /\ AlertInv /\ PlaceInv /\ LocalInv /\ [Next]_vars
        => OrderInv' /\ AlertInv' /\ PlaceInv' /\ LocalInv'
  <2>1. OrderInv /\ [Next]_vars => OrderInv'
    BY OrderStep, OrderSame DEF vars
  <2> QED BY <2>1, AlertStep, PlaceStep, LocalStep DEF LocalInv
<1> QED BY <1>1, <1>2, OrderInit, AlertInit, PlaceInit, LocalInit, PTL DEF Spec
=============================================================================
