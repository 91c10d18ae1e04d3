---------------------------- MODULE ModelFiles ----------------------------
(***************************************************************************)
(* The two model files, isolation_forest.joblib and                        *)
(* supervised_feedback.joblib, on the volume that the worker and the API   *)
(* processes share.  The trainer (ml/feedback_loop.py) rewrites them in    *)
(* place; every process's FraudDetector (app/ml/model.py) looks at their   *)
(* times on each prediction, reloads what is newer, and falls back to a    *)
(* synthetic model, which it saves over the file, when it cannot load one. *)
(*                                                                         *)
(* Nothing locks the files: a step here is one file operation.  A time is  *)
(* compared only with the time a detector remembered, so "newer than       *)
(* remembered" is all that is kept of it.                                  *)
(***************************************************************************)
EXTENDS Naturals

CONSTANTS
  Detectors,  \* one FraudDetector per process
  Host,       \* the detector of the worker's process, which also trains
  Trainer,    \* the trainer, as a writer of the files
  MaxRuns,    \* bound: trainings
  MaxCrashes  \* bound: processes that die

ASSUME HostAssumption == Host \in Detectors /\ Trainer \notin Detectors
ASSUME BoundsAssumption == MaxRuns \in Nat /\ MaxCrashes \in Nat

NoModel == 0
Default == 1                 \* synthetic, the same bytes in every process
Trained == 2..(MaxRuns + 1)  \* by run
File == [state : {"absent", "torn", "whole"}, model : {NoModel, Default} \cup Trained]

VARIABLES
  iso,      \* the isolation forest's file
  sup,      \* the supervised model's file
  writers,  \* who has the first file open for writing
  mix,      \* models of which it may hold some bytes, while it is open
  trainer,  \* where the trainer is
  run,      \* the model it made last
  recorded, \* trainings that have a row in model_versions
  det,      \* per process: the detector, and where its prediction is
  crashes,  \* processes that died so far
  unremoved, \* history: the last training could not remove the classifier's file
  raced     \* history: detectors that loaded a file while somebody wrote it

files == <<iso, sup, writers, mix>>
training == <<trainer, run, recorded, unremoved>>
vars == <<iso, sup, writers, mix, trainer, run, recorded, det, crashes, unremoved, raced>>

Fresh == [pc |-> "idle", iso |-> NoModel, sup |-> NoModel, isoSeen |-> FALSE,
          supSeen |-> FALSE, loaded |-> FALSE]

Init ==
  /\ iso = [state |-> "absent", model |-> NoModel]
  /\ sup = [state |-> "absent", model |-> NoModel]
  /\ writers = {}
  /\ mix = {}
  /\ trainer = "idle"
  /\ run = Default
  /\ recorded = {}
  /\ det = [d \in Detectors |-> Fresh]
  /\ crashes = 0
  /\ unremoved = FALSE
  /\ raced = {}

(***************************************************************************)
(* Files.  open(path, "wb") truncates, so only what those write who have   *)
(* the file open can get into it; several writers of different models      *)
(* leave one of them or a mixture, which does not load.                    *)
(***************************************************************************)
Torn == [state |-> "torn", model |-> NoModel]
Whole(m) == [state |-> "whole", model |-> m]

(* Every change makes the file newer than what any detector remembers. *)
Newer(dets) == [d \in Detectors |-> [dets[d] EXCEPT !.isoSeen = FALSE]]
SupNewer == [d \in Detectors |-> [det[d] EXCEPT !.supSeen = FALSE]]

(* Between reading or opening a file and asking for its time. *)
Settling(d) == det[d].pc \in {"isoStat", "write", "writeStat"}

SupRaced == {<<d, "sup">> : d \in {e \in Detectors : det[e].pc = "supStat"}}

(* What the writers have in their hands: a process other than the trainer
   writes the synthetic model only. *)
InHand(ws) == {IF w = Trainer THEN run ELSE Default : w \in ws}

Open(w, model) ==
  /\ iso' = Torn
  /\ writers' = writers \cup {w}
  /\ mix' = {model} \cup InHand(writers)
  /\ raced' = raced \cup {<<d, "iso">> : d \in {e \in Detectors : Settling(e) \/ (e = w /\ writers # {})}}

Results(w, model) ==
  {Whole(m) : m \in mix} \cup IF writers = {w} /\ mix = {model} THEN {} ELSE {Torn}

(* Mutation of Close: what was written stays a candidate. *)
CloseForgetting(w, model) ==
  /\ iso' \in Results(w, model)
  /\ writers' = writers \ {w}
  /\ mix' = mix

Close(w, model) ==
  /\ iso' \in Results(w, model)
  /\ writers' = writers \ {w}
  /\ mix' = IF writers = {w} THEN {} ELSE mix

(***************************************************************************)
(* The trainer, from the fit to the commit.  It does not await anything    *)
(* before "saved", so the detector of its own process stands still.        *)
(***************************************************************************)
TrainerMoves(from, to) ==
  /\ trainer = from
  /\ trainer' = to
  /\ det[Host].pc = "idle"

Fit ==
  /\ TrainerMoves("idle", "iso")
  /\ run <= MaxRuns
  /\ run' = run + 1
  /\ Open(Trainer, run + 1)
  /\ det' = Newer(det)
  /\ UNCHANGED <<sup, recorded, crashes, unremoved>>

(* Mutation of SaveIso: the version is recorded before the classifier is saved. *)
SaveIsoRecording ==
  /\ TrainerMoves("iso", "sup")
  /\ Close(Trainer, run)
  /\ det' = Newer(det)
  /\ recorded' = recorded \cup {run}
  /\ UNCHANGED <<sup, run, crashes, unremoved, raced>>

SaveIso ==
  /\ TrainerMoves("iso", "sup")
  /\ Close(Trainer, run)
  /\ det' = Newer(det)
  /\ UNCHANGED <<sup, run, recorded, crashes, unremoved, raced>>

(* There are labels to train on. *)
OpenSup ==
  /\ TrainerMoves("sup", "supOpen")
  /\ sup' = Torn
  /\ det' = SupNewer
  /\ raced' = raced \cup SupRaced
  /\ unremoved' = FALSE
  /\ UNCHANGED <<iso, writers, mix, run, recorded, crashes>>

SaveSup ==
  /\ TrainerMoves("supOpen", "saved")
  /\ sup' = Whole(run)
  /\ det' = SupNewer
  /\ UNCHANGED <<iso, writers, mix, run, recorded, crashes, unremoved, raced>>

(* There are none: an older classifier is removed. *)
RemoveSup ==
  /\ TrainerMoves("sup", "saved")
  /\ sup' = [state |-> "absent", model |-> NoModel]
  /\ det' = SupNewer
  /\ raced' = raced \cup SupRaced
  /\ unremoved' = FALSE
  /\ UNCHANGED <<iso, writers, mix, run, recorded, crashes>>

(* It should be, but unlink() raises, and nobody hears of it. *)
UnlinkFails ==
  /\ TrainerMoves("sup", "saved")
  /\ sup.state # "absent"
  /\ unremoved' = TRUE
  /\ UNCHANGED <<files, run, recorded, det, crashes, raced>>

RecordVersion ==
  /\ TrainerMoves("saved", "idle")
  /\ recorded' = recorded \cup {run}
  /\ UNCHANGED <<files, run, det, crashes, unremoved, raced>>

(* The commit fails; run() logs it and sleeps. *)
RecordFails ==
  /\ TrainerMoves("saved", "idle")
  /\ UNCHANGED <<files, run, recorded, det, crashes, unremoved, raced>>

(***************************************************************************)
(* FraudDetector.predict and load, in each process.                        *)
(***************************************************************************)
Runs(d) == d = Host => trainer \in {"idle", "saved"}

(* Mutation of NeedReload: the supervised file's time is not looked at. *)
NeedReloadIsoOnly(d) ==
  \/ det[d].iso = NoModel
  \/ iso.state # "absent" /\ ~det[d].isoSeen

NeedReload(d) ==
  \/ det[d].iso = NoModel
  \/ iso.state # "absent" /\ ~det[d].isoSeen
  \/ sup.state # "absent" /\ ~det[d].supSeen
  \/ sup.state = "absent" /\ det[d].sup # NoModel

Moves(d, from, fields) ==
  /\ Runs(d)
  /\ det[d].pc = from
  /\ det' = [det EXCEPT ![d] = [f \in DOMAIN @ |-> IF f \in DOMAIN fields THEN fields[f] ELSE @[f]]]

Predict(d) ==
  /\ NeedReload(d)
  /\ Moves(d, "idle", [pc |-> "iso", loaded |-> FALSE])
  /\ UNCHANGED <<files, training, crashes, raced>>

(* A file that is missing or does not load leaves the loaded model alone. *)
ReadIso(d) ==
  /\ IF iso.state = "whole"
     THEN /\ Moves(d, "iso", [pc |-> "isoStat", iso |-> iso.model])
          /\ raced' = IF writers = {} THEN raced \ {<<d, "iso">>} ELSE raced \cup {<<d, "iso">>}
     ELSE /\ Moves(d, "iso", [pc |-> "sup"])
          /\ UNCHANGED raced
  /\ UNCHANGED <<files, training, crashes>>

StatIso(d) ==
  /\ Moves(d, "isoStat", [pc |-> "sup", isoSeen |-> TRUE, loaded |-> TRUE])
  /\ UNCHANGED <<files, training, crashes, raced>>

AfterLoad(d) == IF det[d].loaded THEN "idle" ELSE "boot"

ReadSup(d) ==
  /\ CASE sup.state = "whole"  -> Moves(d, "sup", [pc |-> "supStat", sup |-> sup.model])
       [] sup.state = "torn"   -> Moves(d, "sup", [pc |-> AfterLoad(d)])
       [] sup.state = "absent" -> Moves(d, "sup", [pc |-> AfterLoad(d), sup |-> NoModel,
                                                   supSeen |-> FALSE])
  /\ raced' = IF sup.state = "torn" THEN raced ELSE raced \ {<<d, "sup">>}
  /\ UNCHANGED <<files, training, crashes>>

StatSup(d) ==
  /\ Moves(d, "supStat", [pc |-> AfterLoad(d), supSeen |-> (sup.state # "absent")])
  /\ UNCHANGED <<files, training, crashes, raced>>

(* No model could be loaded: make the synthetic one, and save it. *)
Bootstrap(d) ==
  /\ Runs(d)
  /\ det[d].pc = "boot"
  /\ Open(d, Default)
  /\ det' = Newer([det EXCEPT ![d] = [@ EXCEPT !.pc = "write", !.iso = Default]])
  /\ UNCHANGED <<sup, training, crashes>>

SaveDefault(d) ==
  /\ Runs(d)
  /\ det[d].pc = "write"
  /\ Close(d, Default)
  /\ det' = Newer([det EXCEPT ![d] = [@ EXCEPT !.pc = "writeStat"]])
  /\ UNCHANGED <<sup, training, crashes, raced>>

StatDefault(d) ==
  /\ Moves(d, "writeStat", [pc |-> "idle", isoSeen |-> TRUE])
  /\ UNCHANGED <<files, training, crashes, raced>>

(***************************************************************************)
(* A process dies and is started again with a detector that holds nothing. *)
(* The worker takes its trainer down with it; files stay as they are.      *)
(***************************************************************************)
Crash(d) ==
  LET gone == {d} \cup IF d = Host THEN {Trainer} ELSE {}
  IN  /\ crashes < MaxCrashes
      /\ crashes' = crashes + 1
      /\ det' = [det EXCEPT ![d] = Fresh]
      /\ raced' = raced \ {<<d, "iso">>, <<d, "sup">>}
      /\ writers' = writers \ gone
      /\ mix' = IF writers \subseteq gone THEN {} ELSE mix
      /\ iso' \in {iso} \cup IF writers \cap gone # {} THEN {Torn} ELSE {}
      /\ trainer' = IF d = Host THEN "idle" ELSE trainer
      /\ UNCHANGED <<sup, run, recorded, unremoved>>

Next ==
  \/ Fit \/ SaveIso \/ OpenSup \/ SaveSup \/ RemoveSup \/ UnlinkFails \/ RecordVersion \/ RecordFails
  \/ \E d \in Detectors :
       \/ Predict(d) \/ ReadIso(d) \/ StatIso(d) \/ ReadSup(d) \/ StatSup(d)
       \/ Bootstrap(d) \/ SaveDefault(d) \/ StatDefault(d)
       \/ Crash(d)

Spec == Init /\ [][Next]_vars

(***************************************************************************)
(* Properties                                                              *)
(***************************************************************************)
(* Types; a file is open exactly while somebody's model may end up in it. *)
TypeOK ==
  /\ {iso, sup} \subseteq File /\ sup.model # Default
  /\ writers \subseteq Detectors \cup {Trainer}
  /\ mix \subseteq {Default} \cup Trained
  /\ (writers = {}) = (mix = {})
  /\ trainer \in {"idle", "iso", "sup", "supOpen", "saved"}
  /\ run \in {Default} \cup Trained /\ recorded \subseteq Trained
  /\ \A d \in Detectors :
       /\ det[d].pc \in {"idle", "iso", "isoStat", "sup", "supStat", "boot", "write", "writeStat"}
       /\ det[d].iso \in {NoModel, Default} \cup Trained
       /\ det[d].sup \in {NoModel} \cup Trained
  /\ crashes \in 0..MaxCrashes
  /\ unremoved \in BOOLEAN
  /\ raced \subseteq Detectors \X {"iso", "sup"}

(* The detector has nothing to do: no file is being written, it sees no reason
   to reload, and none was written between its last load and its look at the
   time (what it holds is then stale until the next training). *)
AtRest(d) ==
  /\ det[d].pc = "idle" /\ writers = {} /\ trainer # "supOpen"
  /\ ~NeedReload(d)
  /\ {<<d, "iso">>, <<d, "sup">>} \cap raced = {}

(* The files are written before the version is recorded (feedback_loop.py 161
   and 167 before 204), so a training that died or failed in between is served
   without a row in model_versions; but never longer than that: no detector at
   rest predicts with the forest or the classifier of a training older than a
   recorded one, unless the classifier's file could not be removed. *)
NoneOlderThanRecorded ==
  \A d \in Detectors : AtRest(d) =>
    \A k \in recorded :
      /\ det[d].iso \in Trained => det[d].iso >= k
      /\ det[d].sup \in Trained => det[d].sup >= k \/ unremoved

(* A detector at rest holds the very models that are in the files
   (model.py 94-95, 103-104, 161-170). *)
NoReloadMeansCurrent ==
  \A d \in Detectors : AtRest(d) => det[d].iso = iso.model /\ det[d].sup = sup.model
=============================================================================
