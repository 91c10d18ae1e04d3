------------------------------ MODULE Retrain ------------------------------
(***************************************************************************)
(* Analyst labels and the retraining that consumes them.  API requests     *)
(* (app/routes/feedback.py) look a label up and insert or update it in two  *)
(* steps; the worker's RetrainScheduler (ml/feedback_loop.py) counts the   *)
(* pending labels, reads all of them, fits and saves the models, and then  *)
(* records a version and marks every label used in one transaction.        *)
(*                                                                         *)
(* A step of the trainer is the code between two awaits.  What happens to  *)
(* the model files while they are written is in ModelFiles.                *)
(***************************************************************************)
EXTENDS Naturals, Sequences, FiniteSets

CONSTANTS
  Analysts,    \* concurrent label requests
  Txs,         \* transactions that get labelled
  Threshold,   \* RETRAIN_THRESHOLD
  MaxRequests, \* bound: label requests in all
  MaxTrouble   \* bound: failures and crashes of the trainer

ASSUME ThresholdAssumption == Threshold \in Nat \ {0}
ASSUME BoundsAssumption == MaxRequests \in Nat /\ MaxTrouble \in Nat

Labels == {0, 1}   \* safe, risky
Row == [tx : Txs, label : Labels, features : BOOLEAN, used : BOOLEAN]
Request == [tx : Txs, label : Labels, features : BOOLEAN, seen : SUBSET Labels]

VARIABLES
  feedback, \* the table analyst_feedback, one row per hash
  requests, \* per analyst: the request between look-up and commit, if any
  enough,   \* ten transactions with features are stored
  trainer,  \* where retrain() is suspended, and its local variables
  versions, \* the rows of model_versions, in the order of their commits
  asked,    \* requests so far
  trouble,  \* failures and crashes so far
  touched,  \* history: labels changed since the trainer read them
  late,     \* history: labels changed since the last recorded version read them
  learned   \* history: the labels that version was trained on

history == <<touched, late, learned>>
vars == <<feedback, requests, enough, trainer, versions, asked, trouble, touched, late, learned>>

Asleep == [pc |-> "asleep", pending |-> 0, data |-> {}, version |-> 0]

Init ==
  /\ feedback = {}
  /\ requests = [a \in Analysts |-> {}]
  /\ enough = FALSE
  /\ trainer = Asleep
  /\ versions = <<>>
  /\ asked = 0
  /\ trouble = 0
  /\ touched = {}
  /\ late = {}
  /\ learned = {}

RowsOf(t) == {r \in feedback : r.tx = t}
Pending == {r \in feedback : ~r.used}

(* Mutation of Labelled: only new labels are trained on. *)
LabelledAndNew(rows) == {r \in rows : r.features /\ ~r.used}

(* What is trained on: labels with features, old and new. *)
Labelled(rows) == {r \in rows : r.features}

(* Mutation of Unique: no unique index on tx_hash. *)
UniqueUnchecked(t) == TRUE

Unique(t) == RowsOf(t) = {}

(***************************************************************************)
(* POST /feedback.  The session remembers the label it loaded and writes   *)
(* only columns that the request changes; two requests that both saw no    *)
(* row collide on the unique hash.                                         *)
(***************************************************************************)
LookUp(a) ==
  /\ requests[a] = {}
  /\ asked < MaxRequests
  /\ \E t \in Txs, l \in Labels, f \in BOOLEAN :
       requests' = [requests EXCEPT ![a] =
         {[tx |-> t, label |-> l, features |-> f, seen |-> {r.label : r \in RowsOf(t)}]}]
  /\ asked' = asked + 1
  /\ UNCHANGED <<feedback, enough, trainer, versions, trouble, history>>

Relabelled(row, q) ==
  [row EXCEPT !.label = IF q.label \in q.seen THEN @ ELSE q.label,
              !.features = @ \/ q.features]

Store(old, new) ==
  /\ feedback' = (feedback \ old) \cup new
  /\ LET changed == {r.tx : r \in feedback' \ feedback}
     IN  touched' = touched \cup changed /\ late' = late \cup changed

Save(a) ==
  \E q \in requests[a] :
    /\ \/ /\ q.seen = {}
          /\ Unique(q.tx)
          /\ Store({}, {[tx |-> q.tx, label |-> q.label, features |-> q.features, used |-> FALSE]})
       \/ /\ q.seen # {}
          /\ Store(RowsOf(q.tx), {Relabelled(r, q) : r \in RowsOf(q.tx)})
    /\ requests' = [requests EXCEPT ![a] = {}]
    /\ UNCHANGED <<enough, trainer, versions, asked, trouble, learned>>

(* The commit fails, always when the hash was inserted meanwhile: the session
   rolls back and the label is not stored. *)
RequestFails(a) ==
  /\ requests[a] # {}
  /\ requests' = [requests EXCEPT ![a] = {}]
  /\ UNCHANGED <<feedback, enough, trainer, versions, asked, trouble, history>>

(***************************************************************************)
(* RetrainScheduler.retrain, called by run() for ever.                     *)
(***************************************************************************)
At(pc) == trainer.pc = pc

(* Mutation of ThresholdReached: > for >=. *)
ThresholdExceeded(n) == n > Threshold

ThresholdReached(n) == n >= Threshold

(* Mutation of CountPending: used labels are counted as well. *)
CountAll ==
  /\ At("asleep")
  /\ ThresholdReached(Cardinality(feedback))
  /\ trainer' = [trainer EXCEPT !.pc = "counted", !.pending = Cardinality(feedback)]
  /\ UNCHANGED <<feedback, requests, enough, versions, asked, trouble, history>>

CountPending ==
  /\ At("asleep")
  /\ ThresholdReached(Cardinality(Pending))
  /\ trainer' = [trainer EXCEPT !.pc = "counted", !.pending = Cardinality(Pending)]
  /\ UNCHANGED <<feedback, requests, enough, versions, asked, trouble, history>>

(* All labels are read, used ones too, and as they are now. *)
FetchFeedback ==
  /\ At("counted")
  /\ trainer' = [trainer EXCEPT !.pc = "fetched", !.data = feedback]
  /\ touched' = {}
  /\ UNCHANGED <<feedback, requests, enough, versions, asked, trouble, late, learned>>

TooFewRows ==
  /\ At("fetched")
  /\ ~enough
  /\ trainer' = Asleep
  /\ UNCHANGED <<feedback, requests, enough, versions, asked, trouble, history>>

(* Lines 105 to 174 await nothing: fit, save the isolation forest, save or
   remove the supervised model. *)
FitAndSave ==
  /\ At("fetched")
  /\ enough
  /\ trainer' = [trainer EXCEPT !.pc = "saved", !.data = Labelled(@)]
  /\ UNCHANGED <<feedback, requests, enough, versions, asked, trouble, history>>

LastVersion == IF versions = <<>> THEN 0 ELSE versions[Len(versions)].version

ReadVersion ==
  /\ At("saved")
  /\ trainer' = [trainer EXCEPT !.pc = "versioned", !.version = LastVersion + 1]
  /\ UNCHANGED <<feedback, requests, enough, versions, asked, trouble, history>>

(* One commit: the version, and every label that is pending by now. *)
Record ==
  /\ At("versioned")
  /\ versions' = Append(versions, [version |-> trainer.version,
                                   labels_used |-> Cardinality(trainer.data),
                                   processed |-> trainer.pending])
  /\ feedback' = {[r EXCEPT !.used = TRUE] : r \in feedback}
  /\ trainer' = Asleep
  /\ learned' = trainer.data
  /\ late' = touched
  /\ UNCHANGED <<requests, enough, asked, trouble, touched>>

(* An error, which run() logs before it sleeps again, or a crash of the worker,
   which is started again: either way the next round begins from the tables. *)
Fail ==
  /\ ~At("asleep")
  /\ trouble < MaxTrouble
  /\ trouble' = trouble + 1
  /\ trainer' = Asleep
  /\ UNCHANGED <<feedback, requests, enough, versions, asked, history>>

(* The pipeline has stored enough transactions; none is ever deleted. *)
TransactionsArrive ==
  /\ ~enough
  /\ enough' = TRUE
  /\ UNCHANGED <<feedback, requests, trainer, versions, asked, trouble, history>>

Train == CountPending \/ FetchFeedback \/ TooFewRows \/ FitAndSave \/ ReadVersion \/ Record

Next ==
  \/ \E a \in Analysts : LookUp(a) \/ Save(a) \/ RequestFails(a)
  \/ Train
  \/ Fail
  \/ TransactionsArrive

Spec == Init /\ [][Next]_vars
FairSpec == Spec /\ WF_vars(Train)

(***************************************************************************)
(* Properties                                                              *)
(***************************************************************************)
(* Types, one row per hash, and the local variables of retrain() at each
   place where it waits (analyst_feedback, feedback_loop.py 65-204). *)
TypeOK ==
  /\ feedback \subseteq Row
  /\ \A r, s \in feedback : r.tx = s.tx => r = s
  /\ \A a \in Analysts : requests[a] \subseteq Request /\ Cardinality(requests[a]) <= 1
  /\ trainer.pc \in {"asleep", "counted", "fetched", "saved", "versioned"}
  /\ At("asleep") <=> trainer = Asleep
  /\ trainer.data \subseteq Row
  /\ enough \in BOOLEAN /\ asked \in 0..MaxRequests /\ trouble \in 0..MaxTrouble

(* A label marked used was trained on with the value it has now by the last
   recorded version, except labels stored or changed after the trainer had
   read them, and labels without features, which nothing trains on although
   they count towards the threshold (feedback_loop.py 87, 134-139, 199-203). *)
UsedMeansTrained ==
  \A r \in feedback :
    r.used /\ r.features /\ r.tx \notin late => \E d \in learned : d.tx = r.tx /\ d.label = r.label

(* Labels become used, and stay used, only in a step that records a version
   with the next number, and that version claims no more pending labels than
   it marks, whatever happened since they were counted (feedback_loop.py 71,
   178-204). *)
MarkedWithVersion ==
  [][ LET used == {r.tx : r \in feedback \ Pending}
          marked == used' \ used
      IN  /\ used \subseteq used'
          /\ used # used' \/ versions # versions' =>
               /\ versions' = Append(versions, versions'[Len(versions')])
               /\ versions'[Len(versions')].version = Len(versions) + 1
               /\ versions'[Len(versions')].processed <= Cardinality(marked) ]_vars

(* Enough pending labels and enough transactions lead to a new version, through
   any failures and crashes that come to an end (feedback_loop.py 206-219). *)
RetrainedEventually ==
  \A n \in 0..Cardinality(Txs) :
    (enough /\ Cardinality(Pending) >= Threshold /\ Len(versions) = n) ~> Len(versions) > n
=============================================================================
