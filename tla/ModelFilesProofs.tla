-------------------------- MODULE ModelFilesProofs --------------------------
(***************************************************************************)
(* What the detectors hold against what is in the files, and how old a     *)
(* model a process may predict with, for any processes and any number of   *)
(* trainings and crashes.                                                  *)
(***************************************************************************)
EXTENDS ModelFiles, TLAPS

Content == [state : {"absent", "torn", "whole"}, model : Nat]
Places == {"idle", "iso", "isoStat", "sup", "supStat", "boot", "write", "writeStat"}
Detector == [pc : Places, iso : Nat, sup : Nat, isoSeen : BOOLEAN, supSeen : BOOLEAN,
             loaded : BOOLEAN]

FilesType ==
  /\ iso \in Content /\ sup \in Content
  /\ mix \subseteq Nat
  /\ run \in Nat
  /\ det \in [Detectors -> Detector]

LEMMA Untrained == NoModel \notin Trained /\ Default \notin Trained
BY BoundsAssumption DEF NoModel, Default, Trained

LEMMA TypesInit == Init => FilesType
<1> SUFFICES ASSUME Init PROVE FilesType
  OBVIOUS
<1>1. Fresh \in Detector
  BY DEF Fresh, Detector, Places, NoModel
<1>2. iso \in Content /\ sup \in Content
  BY DEF Init, Content, NoModel
<1> QED BY <1>1, <1>2 DEF Init, FilesType, Default

(* Nothing but the times that detectors remember changes when a file does. *)
LEMMA Forgetting ==
  ASSUME NEW old \in [Detectors -> Detector]
  PROVE  /\ Newer(old) \in [Detectors -> Detector]
         /\ [d \in Detectors |-> [old[d] EXCEPT !.supSeen = FALSE]] \in [Detectors -> Detector]
<1>1. \A d \in Detectors : old[d] \in Detector
  OBVIOUS
<1> QED BY <1>1 DEF Detector, Newer

(* What a writer has in its hands, it made itself or knows. *)
LEMMA Handed ==
  ASSUME run \in Nat, NEW ws
  PROVE  /\ InHand(ws) \subseteq Nat
         /\ InHand(ws) \subseteq {Default, run}
         /\ Trainer \notin ws => InHand(ws) \subseteq {Default}
         /\ ws = {} => InHand(ws) = {}
BY DEF InHand, Default

(* What is in the file when a writer closes it was among what was written. *)
LEMMA Closing ==
  ASSUME FilesType, NEW w, NEW model, Close(w, model)
  PROVE  /\ iso' \in Content /\ mix' \subseteq mix
         /\ iso'.model = NoModel \/ iso'.model \in mix
BY DEF Close, Results, Whole, Torn, FilesType, Content, NoModel

LEMMA TrainerTypes ==
  ASSUME FilesType,
         \/ Fit \/ SaveIso \/ OpenSup \/ SaveSup \/ RemoveSup \/ UnlinkFails
         \/ RecordVersion \/ RecordFails
  PROVE  FilesType'
<1>1. /\ iso \in Content /\ sup \in Content /\ mix \subseteq Nat /\ run \in Nat
      /\ det \in [Detectors -> Detector]
  BY DEF FilesType
<1>2. CASE Fit
  <2>1. /\ iso' = Torn /\ mix' = {run + 1} \cup InHand(writers)
        /\ run' = run + 1 /\ sup' = sup /\ det' = Newer(det)
    BY <1>2 DEF Fit, Open
  <2>2. mix' \subseteq Nat /\ det' \in [Detectors -> Detector]
    BY <1>1, <2>1, Handed, Forgetting
  <2> QED BY <1>1, <2>1, <2>2 DEF FilesType, Content, Torn, NoModel
<1>3. CASE SaveIso
  <2>1. Close(Trainer, run) /\ run' = run /\ sup' = sup /\ det' = Newer(det)
    BY <1>3 DEF SaveIso
  <2>2. det' \in [Detectors -> Detector]
    BY <1>1, <2>1, Forgetting
  <2> QED BY <1>1, <2>1, <2>2, Closing DEF FilesType
<1>4. CASE OpenSup \/ SaveSup \/ RemoveSup
  <2>1. /\ sup' = Torn \/ sup' = Whole(run) \/ sup' = [state |-> "absent", model |-> NoModel]
        /\ det' = SupNewer /\ UNCHANGED <<iso, mix, run>>
    BY <1>4 DEF OpenSup, SaveSup, RemoveSup, TrainerMoves
  <2>2. sup' \in Content
    BY <1>1, <2>1 DEF Torn, Whole, Content, NoModel
  <2>3. det' \in [Detectors -> Detector]
    BY <1>1, <2>1, Forgetting DEF SupNewer
  <2> QED BY <1>1, <2>1, <2>2, <2>3 DEF FilesType
<1>5. CASE UnlinkFails \/ RecordVersion \/ RecordFails
  BY <1>1, <1>5 DEF UnlinkFails, RecordVersion, RecordFails, files, FilesType
<1> QED BY <1>2, <1>3, <1>4, <1>5

LEMMA DetectorTypes ==
  ASSUME FilesType, NEW d \in Detectors,
         \/ Predict(d) \/ ReadIso(d) \/ StatIso(d) \/ ReadSup(d) \/ StatSup(d) \/ StatDefault(d)
  PROVE  FilesType'
<1>1. /\ iso \in Content /\ sup \in Content /\ mix \subseteq Nat
      /\ det \in [Detectors -> Detector] /\ det[d] \in Detector
  BY DEF FilesType
<1>2. UNCHANGED <<iso, sup, mix, run>>
  BY DEF Predict, ReadIso, StatIso, ReadSup, StatSup, StatDefault, files, training
<1> DEFINE set(fields) == [f \in DOMAIN det[d] |-> IF f \in DOMAIN fields THEN fields[f] ELSE det[d][f]]
<1>3. ASSUME NEW from, NEW fields, Moves(d, from, fields), set(fields) \in Detector
      PROVE  FilesType'
  <2>1. det' = [det EXCEPT ![d] = set(fields)]
    BY <1>1, <1>3 DEF Moves
  <2> HIDE DEF set
  <2>2. det' \in [Detectors -> Detector]
    BY <1>1, <1>3, <2>1
  <2> QED BY <1>1, <1>2, <2>2 DEF FilesType
<1>4. CASE Predict(d)
  <2> DEFINE F == [pc |-> "iso", loaded |-> FALSE]
  <2>1. Moves(d, "idle", F)
    BY <1>4 DEF Predict
  <2>2. set(F) \in Detector
    BY <1>1 DEF Detector, Places
  <2> HIDE DEF set, F
  <2> QED BY <1>3, <2>1, <2>2
<1>5. CASE ReadIso(d)
  <2> DEFINE F == [pc |-> "isoStat", iso |-> iso.model]
             G == [pc |-> "sup"]
  <2>1. Moves(d, "iso", F) \/ Moves(d, "iso", G)
    BY <1>5 DEF ReadIso
  <2>2. set(F) \in Detector
    BY <1>1 DEF Detector, Places, Content
  <2>3. set(G) \in Detector
    BY <1>1 DEF Detector, Places
  <2> HIDE DEF set, F, G
  <2> QED BY <1>3, <2>1, <2>2, <2>3
<1>6. CASE StatIso(d)
  <2> DEFINE F == [pc |-> "sup", isoSeen |-> TRUE, loaded |-> TRUE]
  <2>1. Moves(d, "isoStat", F)
    BY <1>6 DEF StatIso
  <2>2. set(F) \in Detector
    BY <1>1 DEF Detector, Places
  <2> HIDE DEF set, F
  <2> QED BY <1>3, <2>1, <2>2
<1>7. CASE ReadSup(d)
  <2> DEFINE F == [pc |-> "supStat", sup |-> sup.model]
             G == [pc |-> AfterLoad(d)]
             H == [pc |-> AfterLoad(d), sup |-> NoModel, supSeen |-> FALSE]
  <2>1. sup.state \in {"absent", "torn", "whole"} /\ AfterLoad(d) \in Places
    BY <1>1 DEF Content, AfterLoad, Places
  <2>2. Moves(d, "sup", F) \/ Moves(d, "sup", G) \/ Moves(d, "sup", H)
    BY <1>7, <2>1 DEF ReadSup
  <2>3. set(F) \in Detector
    BY <1>1 DEF Detector, Places, Content
  <2>4. set(G) \in Detector
    BY <1>1, <2>1 DEF Detector
  <2>5. set(H) \in Detector
    BY <1>1, <2>1 DEF Detector, NoModel
  <2> HIDE DEF set, F, G, H
  <2> QED BY <1>3, <2>2, <2>3, <2>4, <2>5
<1>8. CASE StatSup(d)
  <2> DEFINE F == [pc |-> AfterLoad(d), supSeen |-> (sup.state # "absent")]
  <2>1. Moves(d, "supStat", F)
    BY <1>8 DEF StatSup
  <2>2. set(F) \in Detector
    BY <1>1 DEF Detector, Places, AfterLoad
  <2> HIDE DEF set, F
  <2> QED BY <1>3, <2>1, <2>2
<1>9. CASE StatDefault(d)
  <2> DEFINE F == [pc |-> "idle", isoSeen |-> TRUE]
  <2>1. Moves(d, "writeStat", F)
    BY <1>9 DEF StatDefault
  <2>2. set(F) \in Detector
    BY <1>1 DEF Detector, Places
  <2> HIDE DEF set, F
  <2> QED BY <1>3, <2>1, <2>2
<1> QED BY <1>4, <1>5, <1>6, <1>7, <1>8, <1>9

(* The synthetic model, and a crash. *)
LEMMA ProcessTypes ==
  ASSUME FilesType, NEW d \in Detectors, Bootstrap(d) \/ SaveDefault(d) \/ Crash(d)
  PROVE  FilesType'
<1>1. /\ iso \in Content /\ sup \in Content /\ mix \subseteq Nat /\ run \in Nat
      /\ det \in [Detectors -> Detector] /\ det[d] \in Detector
  BY DEF FilesType
<1>2. CASE Bootstrap(d)
  <2> DEFINE r == [det[d] EXCEPT !.pc = "write", !.iso = Default]
             dets == [det EXCEPT ![d] = r]
  <2>1. /\ iso' = Torn /\ mix' = {Default} \cup InHand(writers) /\ det' = Newer(dets)
        /\ UNCHANGED <<sup, run>>
    BY <1>2 DEF Bootstrap, Open, training
  <2>2. r \in Detector
    BY <1>1 DEF Detector, Places, Default
  <2> HIDE DEF r
  <2>3. dets \in [Detectors -> Detector]
    BY <1>1, <2>2
  <2> HIDE DEF dets
  <2>4. det' \in [Detectors -> Detector]
    BY <2>1, <2>3, Forgetting
  <2>5. iso' \in Content /\ mix' \subseteq Nat
    BY <1>1, <2>1, Handed DEF Torn, Content, NoModel, Default
  <2> QED BY <1>1, <2>1, <2>4, <2>5 DEF FilesType
<1>3. CASE SaveDefault(d)
  <2> DEFINE r == [det[d] EXCEPT !.pc = "writeStat"]
             dets == [det EXCEPT ![d] = r]
  <2>1. Close(d, Default) /\ det' = Newer(dets) /\ UNCHANGED <<sup, run>>
    BY <1>3 DEF SaveDefault, training
  <2>2. r \in Detector
    BY <1>1 DEF Detector, Places
  <2> HIDE DEF r
  <2>3. dets \in [Detectors -> Detector]
    BY <1>1, <2>2
  <2> HIDE DEF dets
  <2>4. det' \in [Detectors -> Detector]
    BY <2>1, <2>3, Forgetting
  <2> QED BY <1>1, <2>1, <2>4, Closing DEF FilesType
<1>4. CASE Crash(d)
  <2>1. /\ iso' \in {iso, Torn} /\ mix' \subseteq mix
        /\ det' = [det EXCEPT ![d] = Fresh]
        /\ UNCHANGED <<sup, run>>
    BY <1>4 DEF Crash
  <2>2. Fresh \in Detector /\ Torn \in Content
    BY DEF Fresh, Detector, Places, NoModel, Torn, Content
  <2>3. det' \in [Detectors -> Detector]
    BY <1>1, <2>1, <2>2
  <2> QED BY <1>1, <2>1, <2>2, <2>3 DEF FilesType
<1> QED BY <1>2, <1>3, <1>4

(***************************************************************************)
(* What a detector holds, against what is in the files.  A detector that   *)
(* has looked at a file's time, or is about to, holds what is in the file  *)
(* and nobody writes it - unless somebody did between the load and the     *)
(* look at the time.                                                       *)
(***************************************************************************)
IsoCurrent(d) ==
  \/ <<d, "iso">> \in raced
  \/ /\ det[d].pc \in {"isoStat", "writeStat"} \/ det[d].isoSeen =>
          writers = {} /\ iso = Whole(det[d].iso)
     /\ det[d].pc = "write" => writers = {d} /\ mix = {Default} /\ det[d].iso = Default

SupCurrent(d) ==
  \/ <<d, "sup">> \in raced
  \/ det[d].pc = "supStat" \/ det[d].supSeen => sup = Whole(det[d].sup)

(* Who writes, and what the trainer is about. *)
WritersInv ==
  /\ iso \in File /\ sup \in File /\ sup.model # Default
  /\ sup.state = "absent" => sup.model = NoModel
  /\ writers \subseteq Detectors \cup {Trainer}
  /\ mix \subseteq {Default} \cup Trained /\ (writers = {} <=> mix = {})
  /\ trainer \in {"idle", "iso", "sup", "supOpen", "saved"}
  /\ run \in {Default} \cup Trained /\ (trainer # "idle" => run \in Trained)
  /\ recorded \subseteq Trained
  /\ trainer = "iso" <=> Trainer \in writers
  /\ trainer = "supOpen" => sup.state = "torn"
  /\ crashes \in 0..MaxCrashes
  /\ unremoved \in BOOLEAN
  /\ raced \subseteq Detectors \X {"iso", "sup"}

Holds(d) ==
  /\ det[d].pc = "write" <=> d \in writers
  /\ det[d].iso \in {NoModel, Default} \cup Trained
  /\ det[d].sup \in {NoModel} \cup Trained
  /\ iso.state = "absent" => det[d].iso = NoModel
  /\ IsoCurrent(d) /\ SupCurrent(d)

FilesInv == FilesType /\ WritersInv /\ \A d \in Detectors : Holds(d)

LEMMA FilesInit == Init => FilesInv
<1> SUFFICES ASSUME Init PROVE FilesInv
  OBVIOUS
<1>1. FilesType
  BY TypesInit
<1>2. WritersInv
  <2>1. unremoved \in BOOLEAN
    BY Zenon DEF Init
  <2> QED BY <2>1, BoundsAssumption DEF Init, WritersInv, File, NoModel, Default
<1>3. ASSUME NEW d \in Detectors PROVE Holds(d)
  <2>1. /\ det[d].pc = "idle" /\ det[d].iso = NoModel /\ det[d].sup = NoModel
        /\ det[d].isoSeen = FALSE /\ det[d].supSeen = FALSE /\ writers = {}
    BY DEF Init, Fresh
  <2> QED BY <2>1 DEF Holds, IsoCurrent, SupCurrent
<1> QED BY <1>1, <1>2, <1>3 DEF FilesInv

(* A step of one detector that touches no file. *)
LEMMA OneReads ==
  ASSUME FilesInv, NEW d \in Detectors,
         UNCHANGED <<iso, sup, writers, mix, trainer, run, recorded, crashes, unremoved>>,
         raced' \subseteq raced \cup {<<d, "iso">>},
         \A e \in Detectors : e # d =>
           /\ det'[e] = det[e]
           /\ \A f \in {"iso", "sup"} : <<e, f>> \in raced => <<e, f>> \in raced',
         FilesType', Holds(d)'
  PROVE  FilesInv'
<1>1. WritersInv'
  BY DEF FilesInv, WritersInv
<1>2. ASSUME NEW e \in Detectors, e # d PROVE Holds(e)'
  <2>1. Holds(e) /\ det'[e] = det[e]
    BY <1>2 DEF FilesInv
  <2>2. IsoCurrent(e)' /\ SupCurrent(e)'
    BY <1>2, <2>1 DEF Holds, IsoCurrent, SupCurrent
  <2> QED BY <2>1, <2>2 DEF Holds
<1> QED BY <1>1, <1>2 DEF FilesInv

(* The fields of a detector that moves. *)
LEMMA OneMoves ==
  ASSUME FilesType, NEW d \in Detectors, NEW from, NEW fields, Moves(d, from, fields)
  PROVE  /\ det[d].pc = from /\ det[d] \in Detector
         /\ \A e \in Detectors : e # d => det'[e] = det[e]
         /\ det'[d] = [f \in DOMAIN det[d] |->
                          IF f \in DOMAIN fields THEN fields[f] ELSE det[d][f]]
<1>1. det \in [Detectors -> Detector]
  BY DEF FilesType
<1>2. det[d] \in Detector
  BY <1>1
<1> QED BY <1>1, <1>2 DEF Moves

LEMMA Reading ==
  ASSUME FilesInv, FilesType', NEW d \in Detectors,
         Predict(d) \/ ReadIso(d) \/ StatIso(d) \/ StatDefault(d)
  PROVE  FilesInv'
<1>1. /\ UNCHANGED <<iso, sup, writers, mix, trainer, run, recorded, crashes, unremoved>>
      /\ \A e \in Detectors : e # d =>
           \A f \in {"iso", "sup"} : <<e, f>> \in raced => <<e, f>> \in raced'
      /\ raced' \subseteq raced \cup {<<d, "iso">>}
      /\ <<d, "sup">> \in raced => <<d, "sup">> \in raced'
  BY DEF Predict, ReadIso, StatIso, StatDefault, files, training
<1>2. FilesType /\ Holds(d) /\ iso \in File
  BY DEF FilesInv, WritersInv
<1>3. CASE Predict(d)
  <2> DEFINE F == [pc |-> "iso", loaded |-> FALSE]
  <2>1. Moves(d, "idle", F) /\ raced' = raced
    BY <1>3 DEF Predict
  <2>2. /\ det[d] \in Detector /\ \A e \in Detectors : e # d => det'[e] = det[e]
        /\ det'[d] = [f \in DOMAIN det[d] |-> IF f \in DOMAIN F THEN F[f] ELSE det[d][f]]
        /\ det[d].pc = "idle"
    BY <1>2, <2>1, OneMoves
  <2>3. /\ det'[d].pc = "iso" /\ det'[d].iso = det[d].iso /\ det'[d].sup = det[d].sup
        /\ det'[d].isoSeen = det[d].isoSeen /\ det'[d].supSeen = det[d].supSeen
    BY <2>2 DEF Detector
  <2> HIDE DEF F
  <2>4. Holds(d)'
    BY <1>1, <1>2, <2>1, <2>2, <2>3 DEF Holds, IsoCurrent, SupCurrent
  <2> QED BY <1>1, <2>2, <2>4, OneReads
<1>4. CASE ReadIso(d) /\ iso.state = "whole"
  <2> DEFINE F == [pc |-> "isoStat", iso |-> iso.model]
  <2>1. /\ Moves(d, "iso", F)
        /\ raced' = IF writers = {} THEN raced \ {<<d, "iso">>} ELSE raced \cup {<<d, "iso">>}
    BY <1>4 DEF ReadIso
  <2>2. /\ det[d] \in Detector /\ \A e \in Detectors : e # d => det'[e] = det[e]
        /\ det'[d] = [f \in DOMAIN det[d] |-> IF f \in DOMAIN F THEN F[f] ELSE det[d][f]]
        /\ det[d].pc = "iso"
    BY <1>2, <2>1, OneMoves
  <2>3. /\ det'[d].pc = "isoStat" /\ det'[d].iso = iso.model /\ det'[d].sup = det[d].sup
        /\ det'[d].isoSeen = det[d].isoSeen /\ det'[d].supSeen = det[d].supSeen
    BY <2>2 DEF Detector
  <2> HIDE DEF F
  <2>4. iso = Whole(iso.model) /\ iso.model \in {NoModel, Default} \cup Trained
    BY <1>2, <1>4 DEF File, Whole
  <2>5. IsoCurrent(d)'
    BY <1>1, <2>1, <2>3, <2>4 DEF IsoCurrent, Whole
  <2>6. SupCurrent(d)'
    BY <1>1, <1>2, <2>2, <2>3 DEF Holds, SupCurrent, Whole
  <2>7. Holds(d)'
    BY <1>1, <1>2, <1>4, <2>2, <2>3, <2>4, <2>5, <2>6 DEF Holds
  <2> QED BY <1>1, <2>2, <2>7, OneReads
<1>5. CASE ReadIso(d) /\ iso.state # "whole"
  <2> DEFINE F == [pc |-> "sup"]
  <2>1. Moves(d, "iso", F) /\ raced' = raced
    BY <1>5 DEF ReadIso
  <2>2. /\ det[d] \in Detector /\ \A e \in Detectors : e # d => det'[e] = det[e]
        /\ det'[d] = [f \in DOMAIN det[d] |-> IF f \in DOMAIN F THEN F[f] ELSE det[d][f]]
        /\ det[d].pc = "iso"
    BY <1>2, <2>1, OneMoves
  <2>3. /\ det'[d].pc = "sup" /\ det'[d].iso = det[d].iso /\ det'[d].sup = det[d].sup
        /\ det'[d].isoSeen = det[d].isoSeen /\ det'[d].supSeen = det[d].supSeen
    BY <2>2 DEF Detector
  <2> HIDE DEF F
  <2>4. Holds(d)'
    BY <1>1, <1>2, <2>1, <2>2, <2>3 DEF Holds, IsoCurrent, SupCurrent
  <2> QED BY <1>1, <2>2, <2>4, OneReads
<1>6. CASE StatIso(d)
  <2> DEFINE F == [pc |-> "sup", isoSeen |-> TRUE, loaded |-> TRUE]
  <2>1. Moves(d, "isoStat", F) /\ raced' = raced
    BY <1>6 DEF StatIso
  <2>2. /\ det[d] \in Detector /\ \A e \in Detectors : e # d => det'[e] = det[e]
        /\ det'[d] = [f \in DOMAIN det[d] |-> IF f \in DOMAIN F THEN F[f] ELSE det[d][f]]
        /\ det[d].pc = "isoStat"
    BY <1>2, <2>1, OneMoves
  <2>3. /\ det'[d].pc = "sup" /\ det'[d].iso = det[d].iso /\ det'[d].sup = det[d].sup
        /\ det'[d].supSeen = det[d].supSeen
    BY <2>2 DEF Detector
  <2> HIDE DEF F
  <2>4. Holds(d)'
    BY <1>1, <1>2, <2>1, <2>2, <2>3 DEF Holds, IsoCurrent, SupCurrent
  <2> QED BY <1>1, <2>2, <2>4, OneReads
<1>7. CASE StatDefault(d)
  <2> DEFINE F == [pc |-> "idle", isoSeen |-> TRUE]
  <2>1. Moves(d, "writeStat", F) /\ raced' = raced
    BY <1>7 DEF StatDefault
  <2>2. /\ det[d] \in Detector /\ \A e \in Detectors : e # d => det'[e] = det[e]
        /\ det'[d] = [f \in DOMAIN det[d] |-> IF f \in DOMAIN F THEN F[f] ELSE det[d][f]]
        /\ det[d].pc = "writeStat"
    BY <1>2, <2>1, OneMoves
  <2>3. /\ det'[d].pc = "idle" /\ det'[d].iso = det[d].iso /\ det'[d].sup = det[d].sup
        /\ det'[d].supSeen = det[d].supSeen
    BY <2>2 DEF Detector
  <2> HIDE DEF F
  <2>4. Holds(d)'
    BY <1>1, <1>2, <2>1, <2>2, <2>3 DEF Holds, IsoCurrent, SupCurrent
  <2> QED BY <1>1, <2>2, <2>4, OneReads
<1> QED BY <1>3, <1>4, <1>5, <1>6, <1>7

LEMMA ReadingSup ==
  ASSUME FilesInv, FilesType', NEW d \in Detectors, ReadSup(d) \/ StatSup(d)
  PROVE  FilesInv'
<1>1. /\ UNCHANGED <<iso, sup, writers, mix, trainer, run, recorded, crashes, unremoved>>
      /\ \A e \in Detectors : e # d =>
           \A f \in {"iso", "sup"} : <<e, f>> \in raced => <<e, f>> \in raced'
      /\ raced' \subseteq raced
      /\ <<d, "iso">> \in raced => <<d, "iso">> \in raced'
  BY DEF ReadSup, StatSup, files, training
<1>2. /\ FilesType /\ Holds(d) /\ sup \in File /\ sup.model # Default
      /\ AfterLoad(d) \in {"idle", "boot"}
  BY DEF FilesInv, WritersInv, AfterLoad
<1>3. CASE ReadSup(d) /\ sup.state = "whole"
  <2> DEFINE F == [pc |-> "supStat", sup |-> sup.model]
  <2>1. Moves(d, "sup", F) /\ raced' = raced \ {<<d, "sup">>}
    BY <1>3 DEF ReadSup
  <2>2. /\ det[d] \in Detector /\ \A e \in Detectors : e # d => det'[e] = det[e]
        /\ det'[d] = [f \in DOMAIN det[d] |-> IF f \in DOMAIN F THEN F[f] ELSE det[d][f]]
        /\ det[d].pc = "sup"
    BY <1>2, <2>1, OneMoves
  <2>3. /\ det'[d].pc = "supStat" /\ det'[d].sup = sup.model /\ det'[d].iso = det[d].iso
        /\ det'[d].isoSeen = det[d].isoSeen
    BY <2>2 DEF Detector
  <2> HIDE DEF F
  <2>4. sup = Whole(sup.model) /\ sup.model \in {NoModel} \cup Trained
    BY <1>2, <1>3 DEF File, Whole
  <2>5. SupCurrent(d)'
    BY <1>1, <2>3, <2>4 DEF SupCurrent, Whole
  <2>6. IsoCurrent(d)'
    BY <1>1, <1>2, <2>2, <2>3 DEF Holds, IsoCurrent, Whole
  <2>7. Holds(d)'
    BY <1>1, <1>2, <2>2, <2>3, <2>4, <2>5, <2>6 DEF Holds
  <2> QED BY <1>1, <2>2, <2>7, OneReads
<1>4. CASE ReadSup(d) /\ sup.state = "torn"
  <2> DEFINE F == [pc |-> AfterLoad(d)]
  <2>1. Moves(d, "sup", F) /\ raced' = raced
    BY <1>4 DEF ReadSup
  <2>2. /\ det[d] \in Detector /\ \A e \in Detectors : e # d => det'[e] = det[e]
        /\ det'[d] = [f \in DOMAIN det[d] |-> IF f \in DOMAIN F THEN F[f] ELSE det[d][f]]
        /\ det[d].pc = "sup"
    BY <1>2, <2>1, OneMoves
  <2>3. /\ det'[d].pc \in {"idle", "boot"} /\ det'[d].iso = det[d].iso
        /\ det'[d].sup = det[d].sup
        /\ det'[d].isoSeen = det[d].isoSeen /\ det'[d].supSeen = det[d].supSeen
    BY <1>2, <2>2 DEF Detector
  <2> HIDE DEF F
  <2>4. Holds(d)'
    BY <1>1, <1>2, <2>1, <2>2, <2>3 DEF Holds, IsoCurrent, SupCurrent
  <2> QED BY <1>1, <2>2, <2>4, OneReads
<1>5. CASE ReadSup(d) /\ sup.state = "absent"
  <2> DEFINE F == [pc |-> AfterLoad(d), sup |-> NoModel, supSeen |-> FALSE]
  <2>1. Moves(d, "sup", F)
    BY <1>5 DEF ReadSup
  <2> HIDE DEF F
  <2>2. /\ det[d] \in Detector /\ \A e \in Detectors : e # d => det'[e] = det[e]
        /\ det'[d] = [f \in DOMAIN det[d] |-> IF f \in DOMAIN F THEN F[f] ELSE det[d][f]]
        /\ det[d].pc = "sup"
    BY <1>2, <2>1, OneMoves
  <2>3. /\ det'[d].pc \in {"idle", "boot"} /\ det'[d].iso = det[d].iso
        /\ det'[d].sup = NoModel
        /\ det'[d].isoSeen = det[d].isoSeen /\ det'[d].supSeen = FALSE
    BY <1>2, <2>2 DEF F, Detector
  <2>4. Holds(d)'
    BY <1>1, <1>2, <2>1, <2>2, <2>3 DEF Holds, IsoCurrent, SupCurrent
  <2> QED BY <1>1, <2>2, <2>4, OneReads
<1>6. CASE StatSup(d)
  <2> DEFINE F == [pc |-> AfterLoad(d), supSeen |-> (sup.state # "absent")]
  <2>1. Moves(d, "supStat", F) /\ raced' = raced
    BY <1>6 DEF StatSup
  <2>2. /\ det[d] \in Detector /\ \A e \in Detectors : e # d => det'[e] = det[e]
        /\ det'[d] = [f \in DOMAIN det[d] |-> IF f \in DOMAIN F THEN F[f] ELSE det[d][f]]
        /\ det[d].pc = "supStat"
    BY <1>2, <2>1, OneMoves
  <2>3. /\ det'[d].pc \in {"idle", "boot"} /\ det'[d].iso = det[d].iso
        /\ det'[d].sup = det[d].sup /\ det'[d].isoSeen = det[d].isoSeen
    BY <1>2, <2>2 DEF Detector
  <2> HIDE DEF F
  <2>4. Holds(d)'
    BY <1>1, <1>2, <2>1, <2>2, <2>3 DEF Holds, IsoCurrent, SupCurrent
  <2> QED BY <1>1, <2>2, <2>4, OneReads
<1>7. sup.state \in {"absent", "torn", "whole"}
  BY <1>2 DEF File
<1> QED BY <1>3, <1>4, <1>5, <1>6, <1>7

(* The file is opened or closed: every detector knows it is newer, and who has
   read it but not yet looked at its time is in a race. *)
LEMMA OneForgets ==
  ASSUME NEW old \in [Detectors -> Detector], det' = Newer(old)
  PROVE  \A d \in Detectors :
           /\ det'[d].pc = old[d].pc /\ det'[d].iso = old[d].iso /\ det'[d].sup = old[d].sup
           /\ det'[d].isoSeen = FALSE /\ det'[d].supSeen = old[d].supSeen
<1> SUFFICES ASSUME NEW d \in Detectors
             PROVE  /\ det'[d].pc = old[d].pc /\ det'[d].iso = old[d].iso
                    /\ det'[d].sup = old[d].sup
                    /\ det'[d].isoSeen = FALSE /\ det'[d].supSeen = old[d].supSeen
  OBVIOUS
<1>1. det'[d] = [old[d] EXCEPT !.isoSeen = FALSE] /\ old[d] \in Detector
  BY DEF Newer
<1> QED BY <1>1 DEF Detector

(* Everything but the first file: its writer w goes by a detector's or the
   trainer's name. *)
LEMMA Opening ==
  ASSUME FilesInv, NEW w \in Detectors \cup {Trainer}, NEW model \in {Default} \cup Trained,
         Open(w, model), FilesType', UNCHANGED sup,
         NEW d \in Detectors,
         det'[d].isoSeen = FALSE, det'[d].supSeen = det[d].supSeen, det'[d].sup = det[d].sup,
         d # w => det'[d].pc = det[d].pc /\ det'[d].iso = det[d].iso,
         d = w => det'[d].pc = "write" /\ det'[d].iso = Default /\ model = Default
  PROVE  Holds(d)'
<1>1. /\ iso' = Torn /\ writers' = writers \cup {w} /\ mix' = {model} \cup InHand(writers)
      /\ raced' = raced \cup {<<e, "iso">> : e \in {f \in Detectors : Settling(f) \/ (f = w /\ writers # {})}}
  BY DEF Open
<1>2. Holds(d) /\ (writers = {} <=> mix = {})
  BY DEF FilesInv, WritersInv
<1>3. <<d, "iso">> \in raced' \/ (~Settling(d) /\ ~(d = w /\ writers # {}))
  BY <1>1
<1>4. IsoCurrent(d)'
  <2>1. CASE <<d, "iso">> \in raced'
    BY <2>1 DEF IsoCurrent
  <2>2. CASE ~Settling(d) /\ d # w
    <3>1. det'[d].pc \notin {"isoStat", "write", "writeStat"} /\ det'[d].isoSeen = FALSE
      BY <2>2 DEF Settling
    <3> QED BY <3>1 DEF IsoCurrent
  <2>3. CASE d = w /\ writers = {}
    <3>1. writers' = {d} /\ mix' = {Default}
      BY <1>1, <2>3 DEF InHand
    <3> QED BY <2>3, <3>1 DEF IsoCurrent
  <2> QED BY <1>3, <2>1, <2>2, <2>3
<1>5. SupCurrent(d)'
  <2>1. <<d, "sup">> \in raced => <<d, "sup">> \in raced'
    BY <1>1
  <2> QED BY <1>2, <2>1 DEF Holds, SupCurrent, Whole
<1>6. iso'.state = "torn"
  BY <1>1 DEF Torn
<1>7. det'[d].pc = "write" <=> d \in writers'
  BY <1>1, <1>2 DEF Holds
<1>8. det'[d].iso \in {NoModel, Default} \cup Trained /\ det'[d].sup \in {NoModel} \cup Trained
  BY <1>2 DEF Holds
<1> QED BY <1>4, <1>5, <1>6, <1>7, <1>8 DEF Holds

LEMMA Shutting ==
  ASSUME FilesInv, NEW w \in writers, NEW model \in {Default} \cup Trained,
         Close(w, model), FilesType', UNCHANGED <<sup, raced>>,
         NEW d \in Detectors,
         det'[d].isoSeen = FALSE, det'[d].supSeen = det[d].supSeen, det'[d].sup = det[d].sup,
         det'[d].iso = det[d].iso,
         d # w => det'[d].pc = det[d].pc,
         d = w => det'[d].pc = "writeStat" /\ model = Default
  PROVE  Holds(d)'
<1>1. /\ iso' \in Results(w, model) /\ writers' = writers \ {w}
      /\ mix' = IF writers = {w} THEN {} ELSE mix
  BY DEF Close
<1>2. Holds(d) /\ (writers = {} <=> mix = {})
  BY DEF FilesInv, WritersInv
<1>3. IsoCurrent(d)'
  <2>1. CASE <<d, "iso">> \in raced
    BY <2>1 DEF IsoCurrent
  <2>2. CASE <<d, "iso">> \notin raced /\ d # w
    <3>1. det[d].pc \notin {"isoStat", "writeStat", "write"}
      <4>1. writers # {} /\ writers # {d}
        BY <2>2
      <4> QED BY <1>2, <2>2, <4>1 DEF Holds, IsoCurrent
    <3> QED BY <2>2, <3>1 DEF IsoCurrent
  <2>3. CASE <<d, "iso">> \notin raced /\ d = w
    <3>1. writers = {d} /\ mix = {Default} /\ det[d].iso = Default /\ model = Default
      BY <1>2, <2>3 DEF Holds, IsoCurrent
    <3>2. iso' = Whole(Default) /\ writers' = {}
      BY <1>1, <2>3, <3>1 DEF Results
    <3> QED BY <2>3, <3>1, <3>2 DEF IsoCurrent, Whole
  <2> QED BY <2>1, <2>2, <2>3
<1>4. SupCurrent(d)'
  BY <1>2 DEF Holds, SupCurrent, Whole
<1>5. iso'.state # "absent"
  BY <1>1 DEF Results, Whole, Torn
<1>6. det'[d].pc = "write" <=> d \in writers'
  BY <1>1, <1>2 DEF Holds
<1>7. det'[d].iso \in {NoModel, Default} \cup Trained /\ det'[d].sup \in {NoModel} \cup Trained
  BY <1>2 DEF Holds
<1> QED BY <1>3, <1>4, <1>5, <1>6, <1>7 DEF Holds

(* A file that is written holds one of the models written, or is torn. *)
LEMMA OneShuts ==
  ASSUME WritersInv, NEW w \in writers, NEW model \in {Default} \cup Trained, Close(w, model)
  PROVE  /\ iso' \in File /\ mix' \subseteq {Default} \cup Trained
         /\ writers' \subseteq Detectors \cup {Trainer} /\ (writers' = {} <=> mix' = {})
<1>1. /\ iso' \in Results(w, model) /\ writers' = writers \ {w}
      /\ mix' = IF writers = {w} THEN {} ELSE mix
  BY DEF Close
<1>2. /\ mix \subseteq {Default} \cup Trained /\ mix # {}
      /\ writers \subseteq Detectors \cup {Trainer}
  BY DEF WritersInv
<1>3. iso' \in File
  BY <1>1, <1>2 DEF Results, Whole, Torn, File
<1> QED BY <1>1, <1>2, <1>3

LEMMA Bootstrapping ==
  ASSUME FilesInv, FilesType', NEW d \in Detectors, Bootstrap(d) \/ SaveDefault(d)
  PROVE  FilesInv'
<1>1. FilesType /\ det \in [Detectors -> Detector] /\ det[d] \in Detector /\ WritersInv
  BY DEF FilesInv, FilesType
<1>2. CASE Bootstrap(d)
  <2> DEFINE r == [det[d] EXCEPT !.pc = "write", !.iso = Default]
             old == [det EXCEPT ![d] = r]
  <2>1. /\ Open(d, Default) /\ det' = Newer(old)
        /\ UNCHANGED <<sup, trainer, run, recorded, crashes, unremoved>>
    BY <1>2 DEF Bootstrap, training
  <2>2. /\ r \in Detector /\ r.pc = "write" /\ r.iso = Default
        /\ r.sup = det[d].sup /\ r.supSeen = det[d].supSeen
    BY <1>1 DEF Detector, Places, Default
  <2> HIDE DEF r
  <2>3. old \in [Detectors -> Detector] /\ \A e \in Detectors : old[e] = IF e = d THEN r ELSE det[e]
    BY <1>1, <2>2
  <2> HIDE DEF old
  <2>4. \A e \in Detectors :
           /\ det'[e].pc = old[e].pc /\ det'[e].iso = old[e].iso /\ det'[e].sup = old[e].sup
           /\ det'[e].isoSeen = FALSE /\ det'[e].supSeen = old[e].supSeen
    BY <2>1, <2>3, OneForgets
  <2>5. ASSUME NEW e \in Detectors PROVE Holds(e)'
    <3>1. /\ det'[e].isoSeen = FALSE /\ det'[e].supSeen = det[e].supSeen
          /\ det'[e].sup = det[e].sup
          /\ e # d => det'[e].pc = det[e].pc /\ det'[e].iso = det[e].iso
          /\ e = d => det'[e].pc = "write" /\ det'[e].iso = Default
      BY <2>2, <2>3, <2>4
    <3>2. d \in Detectors \cup {Trainer} /\ Default \in {Default} \cup Trained
      OBVIOUS
    <3> QED BY <2>1, <3>1, <3>2, Opening
  <2>6. WritersInv'
    <3>1. /\ iso' = Torn /\ writers' = writers \cup {d} /\ mix' = {Default} \cup InHand(writers)
          /\ raced' \subseteq raced \cup {<<e, "iso">> : e \in Detectors}
      BY <2>1 DEF Open
    <3>2. Torn \in File
      BY DEF Torn, File
    <3>3. trainer' = "iso" <=> Trainer \in writers'
      BY <1>1, <2>1, <3>1, HostAssumption DEF WritersInv
    <3>4. mix' \subseteq {Default} \cup Trained /\ writers' # {} /\ mix' # {}
      BY <1>1, <3>1, Handed DEF FilesType, WritersInv
    <3> QED BY <1>1, <2>1, <3>1, <3>2, <3>3, <3>4 DEF WritersInv
  <2> QED BY <2>5, <2>6 DEF FilesInv
<1>3. CASE SaveDefault(d)
  <2> DEFINE r == [det[d] EXCEPT !.pc = "writeStat"]
             old == [det EXCEPT ![d] = r]
  <2>1. /\ Close(d, Default) /\ det' = Newer(old) /\ det[d].pc = "write"
        /\ UNCHANGED <<sup, trainer, run, recorded, crashes, unremoved, raced>>
    BY <1>3 DEF SaveDefault, training
  <2>2. /\ r \in Detector /\ r.pc = "writeStat" /\ r.iso = det[d].iso
        /\ r.sup = det[d].sup /\ r.supSeen = det[d].supSeen
    BY <1>1 DEF Detector, Places
  <2> HIDE DEF r
  <2>3. old \in [Detectors -> Detector] /\ \A e \in Detectors : old[e] = IF e = d THEN r ELSE det[e]
    BY <1>1, <2>2
  <2> HIDE DEF old
  <2>4. \A e \in Detectors :
           /\ det'[e].pc = old[e].pc /\ det'[e].iso = old[e].iso /\ det'[e].sup = old[e].sup
           /\ det'[e].isoSeen = FALSE /\ det'[e].supSeen = old[e].supSeen
    BY <2>1, <2>3, OneForgets
  <2>5. d \in writers
    BY <2>1 DEF FilesInv, Holds
  <2>6. ASSUME NEW e \in Detectors PROVE Holds(e)'
    <3>1. /\ det'[e].isoSeen = FALSE /\ det'[e].supSeen = det[e].supSeen
          /\ det'[e].sup = det[e].sup /\ det'[e].iso = det[e].iso
          /\ e # d => det'[e].pc = det[e].pc
          /\ e = d => det'[e].pc = "writeStat"
      BY <2>2, <2>3, <2>4
    <3> QED BY <2>1, <2>5, <3>1, Shutting
  <2>7. WritersInv'
    <3>1. /\ iso' \in File /\ mix' \subseteq {Default} \cup Trained
          /\ writers' \subseteq Detectors \cup {Trainer} /\ (writers' = {} <=> mix' = {})
      BY <1>1, <2>1, <2>5, OneShuts
    <3>2. trainer' = "iso" <=> Trainer \in writers'
      BY <1>1, <2>1, HostAssumption DEF WritersInv, Close
    <3> QED BY <1>1, <2>1, <3>1, <3>2 DEF WritersInv
  <2> QED BY <2>6, <2>7 DEF FilesInv
<1> QED BY <1>2, <1>3

(* A process that dies loses what it had loaded and leaves what it wrote. *)
LEMMA Crashing ==
  ASSUME FilesInv, FilesType', NEW d \in Detectors, Crash(d)
  PROVE  FilesInv'
<1> DEFINE gone == {d} \cup IF d = Host THEN {Trainer} ELSE {}
<1>1. /\ crashes < MaxCrashes /\ crashes' = crashes + 1
      /\ det' = [det EXCEPT ![d] = Fresh]
      /\ raced' = raced \ {<<d, "iso">>, <<d, "sup">>}
      /\ writers' = writers \ gone
      /\ mix' = IF writers \subseteq gone THEN {} ELSE mix
      /\ iso' \in {iso} \cup IF writers \cap gone # {} THEN {Torn} ELSE {}
      /\ trainer' = IF d = Host THEN "idle" ELSE trainer
      /\ UNCHANGED <<sup, run, recorded, unremoved>>
  BY DEF Crash
<1>2. WritersInv /\ \A e \in Detectors : Holds(e)
  BY DEF FilesInv
<1>3. \A e \in Detectors : det'[e] = IF e = d THEN Fresh ELSE det[e]
  BY <1>1 DEF FilesInv, FilesType
<1>4. d # Trainer
  BY HostAssumption
<1>5. ASSUME NEW e \in Detectors PROVE Holds(e)'
  <2>1. CASE e = d
    <3>1. det'[e] = Fresh
      BY <1>3, <2>1
    <3> QED BY <1>1, <2>1, <3>1 DEF Holds, IsoCurrent, SupCurrent, Fresh, NoModel
  <2>2. CASE e # d
    <3>1. /\ det'[e] = det[e] /\ e \notin gone
          /\ \A f \in {"iso", "sup"} : <<e, f>> \in raced' <=> <<e, f>> \in raced
      BY <1>1, <1>3, <2>2, HostAssumption
    <3>2. Holds(e)
      BY <1>2
    <3>3. IsoCurrent(e)'
      <4>1. CASE <<e, "iso">> \in raced
        BY <3>1, <4>1 DEF IsoCurrent
      <4>2. CASE /\ <<e, "iso">> \notin raced /\ writers = {}
        BY <1>1, <3>1, <3>2, <4>2 DEF Holds, IsoCurrent
      <4>3. CASE /\ <<e, "iso">> \notin raced /\ writers = {e} /\ det[e].pc = "write"
        <5>1. writers' = writers /\ mix' = mix /\ iso' = iso
          BY <1>1, <3>1, <4>3
        <5> QED BY <3>1, <3>2, <4>3, <5>1 DEF Holds, IsoCurrent
      <4>4. CASE /\ det[e].pc \notin {"isoStat", "writeStat", "write"} /\ ~det[e].isoSeen
        BY <3>1, <4>4 DEF IsoCurrent
      <4> QED BY <3>2, <4>1, <4>2, <4>3, <4>4 DEF Holds, IsoCurrent
    <3>4. SupCurrent(e)'
      BY <1>1, <3>1, <3>2 DEF Holds, SupCurrent, Whole
    <3>5. det'[e].pc = "write" <=> e \in writers'
      BY <1>1, <3>1, <3>2 DEF Holds
    <3>6. iso'.state = "absent" => iso.state = "absent"
      BY <1>1 DEF Torn
    <3> QED BY <3>1, <3>2, <3>3, <3>4, <3>5, <3>6 DEF Holds
  <2> QED BY <2>1, <2>2
<1>6. WritersInv'
  <2>1. iso' \in File
    BY <1>1, <1>2 DEF WritersInv, Torn, File
  <2>2. writers' = {} <=> mix' = {}
    BY <1>1, <1>2 DEF WritersInv
  <2>3. trainer' = "iso" <=> Trainer \in writers'
    BY <1>1, <1>2, <1>4 DEF WritersInv
  <2>4. trainer' \in {"idle", trainer}
    BY <1>1
  <2>5. crashes' \in 0..MaxCrashes
    BY <1>1, <1>2, BoundsAssumption DEF WritersInv
  <2>6. raced' \subseteq raced /\ mix' \subseteq mix /\ writers' \subseteq writers
    BY <1>1
  <2> QED BY <1>1, <1>2, <2>1, <2>2, <2>3, <2>4, <2>5, <2>6 DEF WritersInv
<1> QED BY <1>5, <1>6 DEF FilesInv

(* The trainer opens, writes and closes the first file like a process does. *)
LEMMA TrainingIso ==
  ASSUME FilesInv, FilesType', Fit \/ SaveIso
  PROVE  FilesInv'
<1>1. FilesType /\ det \in [Detectors -> Detector] /\ WritersInv
  BY DEF FilesInv, FilesType
<1>2. /\ det' = Newer(det)
      /\ UNCHANGED <<sup, recorded, crashes, unremoved>>
  BY DEF Fit, SaveIso
<1>3. \A e \in Detectors :
         /\ det'[e].pc = det[e].pc /\ det'[e].iso = det[e].iso /\ det'[e].sup = det[e].sup
         /\ det'[e].isoSeen = FALSE /\ det'[e].supSeen = det[e].supSeen
  BY <1>1, <1>2, OneForgets
<1>4. \A e \in Detectors : e # Trainer
  BY HostAssumption
<1>5. CASE Fit
  <2>1. /\ trainer = "idle" /\ trainer' = "iso" /\ run' = run + 1 /\ Open(Trainer, run + 1)
    BY <1>5 DEF Fit, TrainerMoves
  <2>2. run + 1 \in Trained
    BY <1>1, <1>5, BoundsAssumption DEF Fit, WritersInv, Trained, Default
  <2>3. ASSUME NEW e \in Detectors PROVE Holds(e)'
    <3>1. Trainer \in Detectors \cup {Trainer} /\ run + 1 \in {Default} \cup Trained
      BY <2>2
    <3> QED BY <1>2, <1>3, <1>4, <2>1, <3>1, Opening
  <2>4. WritersInv'
    <3>1. /\ iso' = Torn /\ writers' = writers \cup {Trainer} /\ mix' = {run + 1} \cup InHand(writers)
          /\ raced' \subseteq raced \cup {<<e, "iso">> : e \in Detectors}
      BY <2>1 DEF Open
    <3>2. Torn \in File
      BY DEF Torn, File
    <3>3. Trained' = Trained
      BY DEF Trained
    <3>4. mix' \subseteq {Default} \cup Trained /\ writers' # {} /\ mix' # {}
      BY <1>1, <2>2, <3>1, Handed DEF FilesType, WritersInv
    <3> QED BY <1>1, <1>2, <2>1, <2>2, <3>1, <3>2, <3>3, <3>4 DEF WritersInv
  <2> QED BY <2>3, <2>4 DEF FilesInv
<1>6. CASE SaveIso
  <2>1. /\ trainer = "iso" /\ trainer' = "sup" /\ Close(Trainer, run)
        /\ UNCHANGED <<run, raced>>
    BY <1>6 DEF SaveIso, TrainerMoves
  <2>2. Trainer \in writers /\ run \in Trained
    BY <1>1, <2>1 DEF WritersInv
  <2>3. ASSUME NEW e \in Detectors PROVE Holds(e)'
    <3>1. run \in {Default} \cup Trained
      BY <2>2
    <3> QED BY <1>2, <1>3, <1>4, <2>1, <2>2, <3>1, Shutting
  <2>4. WritersInv'
    <3>1. /\ iso' \in File /\ mix' \subseteq {Default} \cup Trained
          /\ writers' \subseteq Detectors \cup {Trainer} /\ (writers' = {} <=> mix' = {})
      BY <1>1, <2>1, <2>2, OneShuts
    <3>2. Trainer \notin writers'
      BY <2>1 DEF Close
    <3> QED BY <1>1, <1>2, <2>1, <3>1, <3>2 DEF WritersInv
  <2> QED BY <2>3, <2>4 DEF FilesInv
<1> QED BY <1>5, <1>6

(* The second file: whoever has read it and not yet looked at its time is in a
   race when it is opened or removed, and nobody can while it is open. *)
LEMMA TrainingSup ==
  ASSUME FilesInv, FilesType', OpenSup \/ SaveSup \/ RemoveSup
  PROVE  FilesInv'
<1>1. FilesType /\ det \in [Detectors -> Detector] /\ WritersInv
  BY DEF FilesInv, FilesType
<1>2. /\ det' = SupNewer /\ trainer' \in {"supOpen", "saved"} /\ trainer \in {"sup", "supOpen"}
      /\ unremoved' \in {unremoved, FALSE}
      /\ UNCHANGED <<iso, writers, mix, run, recorded, crashes>>
  BY DEF OpenSup, SaveSup, RemoveSup, TrainerMoves
<1>3. ASSUME NEW e \in Detectors
      PROVE  /\ det'[e].pc = det[e].pc /\ det'[e].iso = det[e].iso /\ det'[e].sup = det[e].sup
             /\ det'[e].isoSeen = det[e].isoSeen /\ det'[e].supSeen = FALSE
  <2>1. det'[e] = [det[e] EXCEPT !.supSeen = FALSE] /\ det[e] \in Detector
    BY <1>1, <1>2 DEF SupNewer
  <2> QED BY <2>1 DEF Detector
<1>4. /\ raced \subseteq raced' /\ raced' \subseteq raced \cup {<<e, "sup">> : e \in Detectors}
      /\ \A e \in Detectors : <<e, "iso">> \in raced' <=> <<e, "iso">> \in raced
  BY DEF OpenSup, SaveSup, RemoveSup, SupRaced
<1>5. \A e \in Detectors : det[e].pc = "supStat" => <<e, "sup">> \in raced'
  <2>1. CASE OpenSup \/ RemoveSup
    BY <2>1 DEF OpenSup, RemoveSup, SupRaced
  <2>2. CASE SaveSup
    <3>1. raced' = raced /\ sup.state = "torn"
      BY <1>1, <2>2 DEF SaveSup, TrainerMoves, WritersInv
    <3> QED BY <3>1 DEF FilesInv, Holds, SupCurrent, Whole
  <2> QED BY <2>1, <2>2
<1>6. ASSUME NEW e \in Detectors PROVE Holds(e)'
  <2>1. Holds(e)
    BY DEF FilesInv
  <2>2. IsoCurrent(e)'
    BY <1>2, <1>3, <1>4, <2>1 DEF Holds, IsoCurrent, Whole
  <2>3. SupCurrent(e)'
    BY <1>3, <1>5 DEF SupCurrent
  <2> QED BY <1>2, <1>3, <2>1, <2>2, <2>3 DEF Holds
<1>7. run \in Trained
  BY <1>1, <1>2 DEF WritersInv
<1>8. /\ sup' \in File /\ sup'.model # Default
      /\ sup'.state = "absent" => sup'.model = NoModel
      /\ trainer' = "supOpen" => sup'.state = "torn"
  <2>1. CASE OpenSup
    BY <2>1 DEF OpenSup, Torn, File, NoModel, Default
  <2>2. CASE SaveSup
    BY <1>7, <2>2, Untrained DEF SaveSup, TrainerMoves, Whole, File
  <2>3. CASE RemoveSup
    BY <2>3 DEF RemoveSup, TrainerMoves, File, NoModel, Default
  <2> QED BY <2>1, <2>2, <2>3
<1>9. unremoved' \in BOOLEAN
  BY <1>1, <1>2, Zenon DEF WritersInv
<1>10. WritersInv'
  BY <1>1, <1>2, <1>4, <1>7, <1>8, <1>9 DEF WritersInv, Trained
<1> QED BY <1>6, <1>10 DEF FilesInv

LEMMA TrainingEnds ==
  ASSUME FilesInv, FilesType', UnlinkFails \/ RecordVersion \/ RecordFails
  PROVE  FilesInv'
<1>1. /\ UNCHANGED <<iso, sup, writers, mix, run, det, crashes, raced>>
      /\ \/ trainer = "sup" /\ trainer' = "saved"
         \/ trainer = "saved" /\ trainer' = "idle"
      /\ recorded' \subseteq recorded \cup {run}
      /\ unremoved' \in {unremoved, TRUE}
  BY DEF UnlinkFails, RecordVersion, RecordFails, TrainerMoves, files
<1>2. WritersInv'
  BY <1>1 DEF FilesInv, WritersInv, Trained
<1>3. \A d \in Detectors : Holds(d)'
  BY <1>1 DEF FilesInv, Holds, IsoCurrent, SupCurrent, Trained, Whole
<1> QED BY <1>2, <1>3 DEF FilesInv

LEMMA FilesStep == FilesInv /\ [Next]_vars => FilesInv'
<1> SUFFICES ASSUME FilesInv, [Next]_vars PROVE FilesInv'
  OBVIOUS
<1>1. CASE UNCHANGED vars
  <2>1. UNCHANGED <<iso, sup, writers, mix, trainer, run, recorded, det, crashes, unremoved, raced>>
    BY <1>1 DEF vars
  <2>2. FilesType'
    BY <2>1 DEF FilesInv, FilesType
  <2> QED BY <2>1, <2>2 DEF FilesInv, WritersInv, Holds, IsoCurrent, SupCurrent, Whole, Trained
<1>2. CASE Next
  <2>1. FilesType'
    BY <1>2, TrainerTypes, DetectorTypes, ProcessTypes DEF Next, FilesInv
  <2> QED BY <1>2, <2>1, TrainingIso, TrainingSup, TrainingEnds, Reading, ReadingSup,
             Bootstrapping, Crashing DEF Next
<1> QED BY <1>1, <1>2

(***************************************************************************)
(* The files hold what was made, nobody writes anything else, and a file   *)
(* is open exactly while somebody's model may end up in it.                *)
(***************************************************************************)
THEOREM FileTypes == Spec => []TypeOK
<1>1. FilesInv => TypeOK
  <2> SUFFICES ASSUME FilesInv PROVE TypeOK
    OBVIOUS
  <2>1. WritersInv
    BY DEF FilesInv
  <2>2. ASSUME NEW d \in Detectors
        PROVE  /\ det[d].pc \in Places
               /\ det[d].iso \in {NoModel, Default} \cup Trained
               /\ det[d].sup \in {NoModel} \cup Trained
    <3>1. det[d] \in Detector
      BY DEF FilesInv, FilesType
    <3> QED BY <3>1 DEF FilesInv, Holds, Detector
  <2> QED BY <2>1, <2>2 DEF WritersInv, TypeOK, Places
<1> QED BY <1>1, FilesInit, FilesStep, PTL DEF Spec

(* The times that a detector at rest remembers are enough. *)
LEMMA AtRestCurrent == FilesInv => NoReloadMeansCurrent
<1> SUFFICES ASSUME FilesInv, NEW d \in Detectors,
                    {<<d, "iso">>, <<d, "sup">>} \cap raced = {}, ~NeedReload(d)
             PROVE  det[d].iso = iso.model /\ det[d].sup = sup.model
  BY DEF NoReloadMeansCurrent, AtRest
<1>1. Holds(d) /\ (sup.state = "absent" => sup.model = NoModel)
  BY DEF FilesInv, WritersInv
<1>2. iso.state # "absent" /\ det[d].isoSeen
  BY <1>1 DEF NeedReload, Holds
<1>3. det[d].iso = iso.model
  BY <1>1, <1>2 DEF Holds, IsoCurrent, Whole
<1>4. CASE sup.state = "absent"
  BY <1>1, <1>3, <1>4 DEF NeedReload
<1>5. CASE sup.state # "absent"
  BY <1>1, <1>3, <1>5 DEF NeedReload, Holds, SupCurrent, Whole
<1> QED BY <1>4, <1>5

(***************************************************************************)
(* A detector that sees no reason to reload holds the models of the files, *)
(* unless a file was written between its load and its look at the time:    *)
(* the times it remembers are enough but for that one window.              *)
(***************************************************************************)
THEOREM TimesTell == Spec => []NoReloadMeansCurrent
BY AtRestCurrent, FilesInit, FilesStep, PTL DEF Spec

(***************************************************************************)
(* How old the models in the files may be.  The forest's file holds the    *)
(* synthetic model or the last training's, or loads nothing; the           *)
(* classifier's holds one no older than any recorded training, unless it   *)
(* should have been removed and was not.  A training that is about to be   *)
(* recorded has already left its classifier there, or none.                *)
(***************************************************************************)
NewestInv ==
  /\ iso.model \in {NoModel, Default, run}
  /\ mix \subseteq {Default, run}
  /\ \A k \in recorded : k <= run
  /\ unremoved \/ sup.model = NoModel \/ \A k \in recorded : k <= sup.model
  /\ trainer = "saved" => unremoved \/ sup.model \in {NoModel, run}

LEMMA NewestInit == Init => NewestInv
BY DEF Init, NewestInv

(* The forest's file: what may get into it is the last training's or the
   synthetic model. *)
LEMMA NewestForest ==
  ASSUME FilesInv, NewestInv, Fit \/ SaveIso \/ \E d \in Detectors : Bootstrap(d) \/ SaveDefault(d)
  PROVE  NewestInv'
<1>1. FilesType /\ run \in Nat /\ recorded \subseteq Nat
  BY DEF FilesInv, FilesType, WritersInv, Trained
<1>2. CASE Fit
  <2>1. /\ iso' = Torn /\ mix' = {run + 1} \cup InHand(writers) /\ run' = run + 1
        /\ trainer' = "iso" /\ trainer = "idle"
        /\ UNCHANGED <<sup, recorded, unremoved>>
    BY <1>2 DEF Fit, TrainerMoves, Open
  <2>2. Trainer \notin writers
    BY <2>1 DEF FilesInv, WritersInv
  <2>3. mix' \subseteq {Default, run'}
    BY <1>1, <2>1, <2>2, Handed
  <2>4. \A k \in recorded' : k <= run'
    BY <1>1, <2>1 DEF NewestInv
  <2> QED BY <2>1, <2>3, <2>4 DEF NewestInv, Torn
<1>3. CASE SaveIso
  <2>1. /\ Close(Trainer, run) /\ trainer' = "sup"
        /\ UNCHANGED <<sup, run, recorded, unremoved>>
    BY <1>3 DEF SaveIso, TrainerMoves
  <2> QED BY <1>1, <2>1, Closing DEF NewestInv
<1>4. ASSUME NEW d \in Detectors, Bootstrap(d) PROVE NewestInv'
  <2>1. /\ iso' = Torn /\ mix' = {Default} \cup InHand(writers)
        /\ UNCHANGED <<sup, trainer, run, recorded, unremoved>>
    BY <1>4 DEF Bootstrap, Open, training
  <2>2. mix' \subseteq {Default, run}
    BY <1>1, <2>1, Handed
  <2> QED BY <2>1, <2>2 DEF NewestInv, Torn
<1>5. ASSUME NEW d \in Detectors, SaveDefault(d) PROVE NewestInv'
  <2>1. Close(d, Default) /\ UNCHANGED <<sup, trainer, run, recorded, unremoved>>
    BY <1>5 DEF SaveDefault, training
  <2> QED BY <1>1, <2>1, Closing DEF NewestInv
<1> QED BY <1>2, <1>3, <1>4, <1>5

(* The classifier's file, and the version that is recorded after it. *)
LEMMA NewestClassifier ==
  ASSUME FilesInv, NewestInv,
         OpenSup \/ SaveSup \/ RemoveSup \/ UnlinkFails \/ RecordVersion \/ RecordFails
  PROVE  NewestInv'
<1>1. UNCHANGED <<iso, mix, run>>
  BY DEF OpenSup, SaveSup, RemoveSup, UnlinkFails, RecordVersion, RecordFails, files
<1>2. run \in Nat /\ recorded \subseteq Nat
  BY DEF FilesInv, FilesType, WritersInv, Trained
<1>3. CASE OpenSup \/ RemoveSup
  BY <1>1, <1>3 DEF OpenSup, RemoveSup, TrainerMoves, Torn, NewestInv
<1>4. CASE SaveSup
  <2>1. sup'.model = run /\ recorded' = recorded
    BY <1>4 DEF SaveSup, Whole
  <2> QED BY <1>1, <2>1 DEF NewestInv
<1>5. CASE UnlinkFails
  BY <1>1, <1>5 DEF UnlinkFails, files, NewestInv
<1>6. CASE RecordVersion
  <2>1. /\ trainer = "saved" /\ trainer' = "idle"
        /\ recorded' = recorded \cup {run} /\ UNCHANGED <<sup, unremoved>>
    BY <1>6 DEF RecordVersion, TrainerMoves, files
  <2>2. \A k \in recorded' : k <= run
    BY <1>2, <2>1 DEF NewestInv
  <2> QED BY <1>1, <2>1, <2>2 DEF NewestInv
<1>7. CASE RecordFails
  BY <1>1, <1>7 DEF RecordFails, TrainerMoves, files, NewestInv
<1> QED BY <1>3, <1>4, <1>5, <1>6, <1>7

LEMMA NewestStep == FilesInv /\ NewestInv /\ [Next]_vars => NewestInv'
<1> SUFFICES ASSUME FilesInv, NewestInv, [Next]_vars PROVE NewestInv'
  OBVIOUS
<1>1. ASSUME NEW d \in Detectors,
             Predict(d) \/ ReadIso(d) \/ StatIso(d) \/ ReadSup(d) \/ StatSup(d) \/ StatDefault(d)
      PROVE  NewestInv'
  BY <1>1 DEF Predict, ReadIso, StatIso, ReadSup, StatSup, StatDefault, files, training, NewestInv
<1>2. ASSUME NEW d \in Detectors, Crash(d) PROVE NewestInv'
  <2>1. /\ iso' \in {iso, Torn} /\ mix' \subseteq mix /\ trainer' \in {"idle", trainer}
        /\ UNCHANGED <<sup, run, recorded, unremoved>>
    BY <1>2 DEF Crash
  <2> QED BY <2>1 DEF NewestInv, Torn
<1>3. CASE UNCHANGED vars
  BY <1>3 DEF vars, NewestInv
<1> QED BY <1>1, <1>2, <1>3, NewestForest, NewestClassifier DEF Next

(***************************************************************************)
(* No detector at rest predicts with a model older than a recorded         *)
(* training's: the files are that new, and it holds what is in them.       *)
(***************************************************************************)
THEOREM NoOldModels == Spec => []NoneOlderThanRecorded
<1>1. FilesInv /\ NewestInv => NoneOlderThanRecorded
  <2> SUFFICES ASSUME FilesInv, NewestInv, NEW d \in Detectors, AtRest(d), NEW k \in recorded
               PROVE  /\ det[d].iso \in Trained => det[d].iso >= k
                      /\ det[d].sup \in Trained => det[d].sup >= k \/ unremoved
    BY DEF NoneOlderThanRecorded
  <2>1. det[d].iso = iso.model /\ det[d].sup = sup.model
    BY AtRestCurrent DEF NoReloadMeansCurrent
  <2>2. k \in Nat /\ run \in Nat /\ sup.model \in Nat
    BY DEF FilesInv, FilesType, WritersInv, Trained, Content
  <2>3. ASSUME det[d].iso \in Trained PROVE det[d].iso >= k
    <3>1. det[d].iso = run
      BY <2>1, <2>3, Untrained DEF NewestInv
    <3> QED BY <2>2, <3>1 DEF NewestInv
  <2>4. ASSUME det[d].sup \in Trained PROVE det[d].sup >= k \/ unremoved
    BY <2>1, <2>2, <2>4, Untrained DEF NewestInv
  <2> QED BY <2>3, <2>4
<1> QED BY <1>1, FilesInit, FilesStep, NewestInit, NewestStep, PTL DEF Spec
=============================================================================
