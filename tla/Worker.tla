------------------------------ MODULE Worker ------------------------------
(***************************************************************************)
(* The stand-alone worker (app/worker.py) between two broker topics         *)
(* (broker/message_broker.py): it subscribes to "transactions", evaluates  *)
(* the active alert rules on each message, stores the transaction and      *)
(* publishes the alerts, one message at a time.  The broker is an          *)
(* in-memory queue whose publish() waits a second for room and then drops, *)
(* or Redis, which hands a message to those who are subscribed and to      *)
(* nobody else.                                                            *)
(*                                                                         *)
(* A step is the code between two awaits.  Nothing in the repository       *)
(* publishes to "transactions" or subscribes to "alerts": the feed is an   *)
(* input, and the alerts topic only fills up.                              *)
(***************************************************************************)
EXTENDS Naturals, Sequences, FiniteSets, SequencesExt

CONSTANTS
  Txs,         \* transactions
  Rules,       \* alert rules
  QueueMax,    \* room in an in-memory topic
  MaxMessages, \* bound: messages published to "transactions"
  MaxToggles,  \* bound: changes of a rule's active flag
  MaxTrouble   \* bound: lost subscriptions and ends of the worker's process

ASSUME BoundsAssumption ==
  /\ {QueueMax, MaxMessages} \subseteq Nat \ {0}
  /\ {MaxToggles, MaxTrouble} \subseteq Nat

VARIABLES
  backend,    \* BROKER_BACKEND
  sent,       \* the transactions published, in order
  inbox,      \* numbers of the messages that wait for the worker
  putting,    \* the message whose publish() waits for room
  subscribed, \* the worker's subscription stands
  worker,     \* where _process is suspended, and its locals
  active,     \* active rules
  rows,       \* hashes in the transactions table
  alerts,     \* the alerts topic
  toggles,    \* changes of rules so far
  trouble,    \* lost subscriptions and restarts so far
  taken,      \* history: numbers of the messages the worker was given
  lost,       \* history: numbers of the messages that nobody will get
  failed      \* history: transactions a save of which failed

queues == <<sent, inbox, putting, lost>>
tables == <<active, rows, toggles>>
vars == <<backend, sent, inbox, putting, subscribed, worker, active, rows,
          alerts, toggles, trouble, taken, lost, failed>>

Idle == [pc |-> "idle", msg |-> 0, hits |-> {}]

Init ==
  /\ backend \in {"memory", "redis"}
  /\ sent = <<>> /\ inbox = <<>> /\ putting = {}
  /\ subscribed = FALSE
  /\ worker = Idle
  /\ active = Rules /\ rows = {} /\ alerts = {}
  /\ toggles = 0 /\ trouble = 0
  /\ taken = <<>> /\ lost = {} /\ failed = {}

At(pc) == worker.pc = pc
Tx == sent[worker.msg]

(***************************************************************************)
(* publish("transactions", ...), by one publisher.                         *)
(***************************************************************************)
HasRoom == Len(inbox) < QueueMax
Reaches == IF backend = "redis" THEN subscribed ELSE HasRoom

Publish(t) ==
  LET n == Len(sent) + 1
  IN  /\ n <= MaxMessages /\ putting = {}
      /\ sent' = Append(sent, t)
      /\ inbox' = IF Reaches THEN Append(inbox, n) ELSE inbox
      /\ lost' = IF ~Reaches /\ backend = "redis" THEN lost \cup {n} ELSE lost
      /\ putting' = IF ~Reaches /\ backend = "memory" THEN {n} ELSE {}
      /\ UNCHANGED <<backend, subscribed, worker, tables, alerts, trouble, taken, failed>>

PutSucceeds ==
  \E n \in putting :
    /\ HasRoom
    /\ inbox' = Append(inbox, n)
    /\ putting' = {}
    /\ UNCHANGED <<backend, sent, lost, subscribed, worker, tables, alerts, trouble, taken, failed>>

(* Mutation of PutTimesOut: the queue's put is not cancelled. *)
PutTimesOutLate ==
  \E n \in putting :
    /\ putting' = {}
    /\ inbox' = Append(inbox, n)
    /\ lost' = lost \cup {n}
    /\ UNCHANGED <<backend, sent, subscribed, worker, tables, alerts, trouble, taken, failed>>

(* One second has passed: the message is dropped. *)
PutTimesOut ==
  \E n \in putting :
    /\ putting' = {}
    /\ lost' = lost \cup {n}
    /\ UNCHANGED <<backend, sent, inbox, subscribed, worker, tables, alerts, trouble, taken, failed>>

(***************************************************************************)
(* The consumer's loop and its subscription.                               *)
(***************************************************************************)
Subscribe ==
  /\ At("idle") /\ ~subscribed
  /\ backend = "redis" => inbox = <<>>
  /\ subscribed' = TRUE
  /\ UNCHANGED <<backend, queues, worker, tables, alerts, trouble, taken, failed>>

(* Redis' connection breaks; what had arrived is still read. *)
LoseSubscription ==
  /\ backend = "redis" /\ subscribed /\ trouble < MaxTrouble
  /\ trouble' = trouble + 1
  /\ subscribed' = FALSE
  /\ \E k \in 0..Len(inbox) :
       /\ inbox' = SubSeq(inbox, 1, k)
       /\ lost' = lost \cup ToSet(SubSeq(inbox, k + 1, Len(inbox)))
  /\ UNCHANGED <<backend, sent, putting, worker, tables, alerts, taken, failed>>

CanTake == At("idle") /\ inbox # <<>> /\ (backend = "memory" => subscribed)

(* Mutation of Take: the newest message first. *)
TakeNewest ==
  /\ CanTake
  /\ inbox' = Front(inbox)
  /\ taken' = Append(taken, Last(inbox))
  /\ worker' = [Idle EXCEPT !.pc = "taken", !.msg = Last(inbox)]
  /\ UNCHANGED <<backend, sent, putting, lost, subscribed, tables, alerts, trouble, failed>>

Take ==
  /\ CanTake
  /\ inbox' = Tail(inbox)
  /\ taken' = Append(taken, Head(inbox))
  /\ worker' = [Idle EXCEPT !.pc = "taken", !.msg = Head(inbox)]
  /\ UNCHANGED <<backend, sent, putting, lost, subscribed, tables, alerts, trouble, failed>>

(***************************************************************************)
(* _process.                                                               *)
(***************************************************************************)
Continue(fields) == worker' = [f \in DOMAIN worker |-> IF f \in DOMAIN fields THEN fields[f] ELSE worker[f]]
Aside == <<backend, queues, subscribed, active, toggles, trouble, taken>>

(* Features or score raise: the loop logs it and goes on. *)
ScoringFails ==
  /\ At("taken")
  /\ worker' = Idle
  /\ UNCHANGED <<Aside, rows, alerts, failed>>

(* Mutation of Evaluate: a transaction that fires a rule goes straight to the
   alerts topic. *)
EvaluateAndPublish ==
  /\ At("taken")
  /\ \E hits \in SUBSET active :
       Continue([pc |-> IF hits = {} THEN "evaluated" ELSE "stored", hits |-> hits])
  /\ UNCHANGED <<Aside, rows, alerts, failed>>

(* Which active rules match is the data's business; none when the rules
   cannot be read. *)
Evaluate ==
  /\ At("taken")
  /\ \E hits \in SUBSET active : Continue([pc |-> "evaluated", hits |-> hits])
  /\ UNCHANGED <<Aside, rows, alerts, failed>>

(* session.get with a hash for the integer key: it finds nothing, or raises. *)
LookUp ==
  /\ At("evaluated")
  /\ Continue([pc |-> "looked"])
  /\ UNCHANGED <<Aside, rows, alerts, failed>>

Persist ==
  /\ At("looked")
  /\ Tx \notin rows
  /\ rows' = rows \cup {Tx}
  /\ Continue([pc |-> "stored"])
  /\ UNCHANGED <<Aside, alerts, failed>>

(* The look-up or the insert raises, always when the hash is stored already;
   the error is logged and the alerts go out. *)
PersistFails ==
  /\ At("evaluated") \/ At("looked")
  /\ failed' = failed \cup {Tx}
  /\ Continue([pc |-> "stored"])
  /\ UNCHANGED <<Aside, rows, alerts>>

(* Mutation of AlertGoes: put() without a time-out. *)
AlertGoesWhenRoom(a) ==
  IF backend = "memory"
  THEN Cardinality(alerts) < QueueMax /\ alerts' = alerts \cup {a}
  ELSE alerts' \in {alerts, alerts \cup {a}}

(* publish("alerts", ...): dropped after a second when the topic is full; with
   Redis it reaches those who listen, or fails, which is logged. *)
AlertGoes(a) ==
  IF backend = "memory"
  THEN alerts' = IF Cardinality(alerts) < QueueMax THEN alerts \cup {a} ELSE alerts
  ELSE alerts' \in {alerts, alerts \cup {a}}

PublishAlert ==
  /\ At("stored")
  /\ \E r \in worker.hits :
       /\ AlertGoes(<<worker.msg, r>>)
       /\ Continue([hits |-> worker.hits \ {r}])
  /\ UNCHANGED <<Aside, rows, failed>>

Done ==
  /\ At("stored") /\ worker.hits = {}
  /\ worker' = Idle
  /\ UNCHANGED <<Aside, rows, alerts, failed>>

Process == ScoringFails \/ Evaluate \/ LookUp \/ Persist \/ PersistFails \/ PublishAlert \/ Done

(***************************************************************************)
(* SIGINT, SIGTERM or a crash: stop() cancels the consumer, which drops    *)
(* the message in hand where it is, and what the process held in memory is *)
(* gone with it.  The container is restarted.                              *)
(***************************************************************************)
Cancelled ==
  /\ worker' = Idle
  /\ subscribed' = FALSE

Stop ==
  /\ trouble < MaxTrouble
  /\ trouble' = trouble + 1
  /\ Cancelled
  /\ inbox' = <<>> /\ putting' = {}
  /\ lost' = lost \cup ToSet(inbox) \cup putting
  /\ alerts' = IF backend = "memory" THEN {} ELSE alerts
  /\ UNCHANGED <<backend, sent, tables, taken, failed>>

(* An API process stores a transaction of its own feed. *)
PipelineStores(t) ==
  /\ t \notin rows
  /\ rows' = rows \cup {t}
  /\ UNCHANGED <<Aside, worker, alerts, failed>>

ToggleRule(r) ==
  /\ toggles < MaxToggles
  /\ toggles' = toggles + 1
  /\ active' = SymDiff(active, {r})
  /\ UNCHANGED <<backend, queues, subscribed, worker, rows, alerts, trouble, taken, failed>>

Next ==
  \/ \E t \in Txs : Publish(t) \/ PipelineStores(t)
  \/ PutSucceeds \/ PutTimesOut
  \/ Subscribe \/ LoseSubscription \/ Take
  \/ Process
  \/ Stop
  \/ \E r \in Rules : ToggleRule(r)

Spec == Init /\ [][Next]_vars
FairSpec == Spec /\ WF_vars(Process) /\ WF_vars(Subscribe) /\ WF_vars(Take)

(***************************************************************************)
(* Properties                                                              *)
(***************************************************************************)
(* Types; and every message published is in exactly one place: waiting, being
   put, given to the worker, or lost (message_broker.py 81-102, 125-151). *)
TypeOK ==
  /\ backend \in {"memory", "redis"} /\ subscribed \in BOOLEAN
  /\ sent \in Seq(Txs) /\ Len(sent) <= MaxMessages
  /\ worker.pc \in {"idle", "taken", "evaluated", "looked", "stored"}
  /\ worker.hits \subseteq Rules /\ active \subseteq Rules
  /\ rows \cup failed \subseteq Txs
  /\ alerts \subseteq (1..Len(sent)) \X Rules
  /\ backend = "memory" => Len(inbox) <= QueueMax /\ Cardinality(alerts) <= QueueMax
  /\ \A n \in 1..Len(sent) :
       Cardinality({<<"inbox", i>> : i \in {j \in DOMAIN inbox : inbox[j] = n}}
              \cup {<<"taken", i>> : i \in {j \in DOMAIN taken : taken[j] = n}}
              \cup {<<"other", s>> : s \in {q \in {"putting", "lost"} :
                      n \in IF q = "putting" THEN putting ELSE lost}}) = 1

(* Whatever is dropped on the way, the worker gets the messages in the order
   of publication and none twice (message_broker.py 97-102, 133-151). *)
Topic == INSTANCE LossyFifo WITH published <- Len(sent), received <- taken
TopicSpec == Topic!Spec

(* The alerts topic names a transaction that is not stored only when its save
   failed, which leaves no more trace than a log line (worker.py 161-166,
   287-288). *)
AlertedIsStored ==
  \A a \in alerts : sent[a[1]] \in rows \cup failed

(* The worker comes back to an open subscription again and again: neither a
   full alerts topic, which nobody empties, nor a lost subscription holds it up
   for good (message_broker.py 81-95, worker.py 103-128). *)
KeepsConsuming == []<>(At("idle") /\ subscribed)
=============================================================================
