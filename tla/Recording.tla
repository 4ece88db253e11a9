------------------------------ MODULE Recording ------------------------------
(***************************************************************************)
(* The simulated detections: go mock.RecordsMock for every viewer of a     *)
(* stream, the interval it starts (core/functional/timer.go), each tick of *)
(* which is a goroutine of its own, the licence plates all ticks share     *)
(* (mock/license_plate.go), and the tables their statements end in, which  *)
(* ClearAll empties while the server starts.                               *)
(*                                                                         *)
(* The memory of the process is lost when it ends, by a signal or by the   *)
(* panic of a viewer whose stream is not in the table; the tables stay.    *)
(***************************************************************************)
EXTENDS Naturals, Sequences

CONSTANTS
  Viewers,   \* connections that watch the stream
  Ticks,     \* bound: callbacks of the intervals under way at once
  Cars,      \* the cars of the detection data
  Frames,    \* its frames: the detections with enough confidence, in order
  Plates,    \* the licence plates there are
  NoPlate, NoViewer, NoCar

ASSUME RecordingAssumption ==
  /\ Frames \subseteq Seq(Cars)
  /\ NoPlate \notin Plates /\ NoViewer \notin Viewers /\ NoCar \notin Cars

VARIABLES
  stage,      \* per viewer: "away", "starting", "on" or "ended"
  left,       \* per viewer: ctx is cancelled
  cancelled,  \* per viewer: the context of its interval is cancelled
  pc,         \* per tick: where the callback is, "idle" when there is none
  of,         \* per tick: the viewer whose interval started it
  todo,       \* per tick: detections of the frame the loop has not come to
  batch,      \* per tick: shouldInsertCars and shouldInsertRecords
  mapping, used,  \* the LicensePlateManager
  cars,       \* the table of cars
  records,    \* the table of records, each with the car that was detected if
              \* this process made it
  clear,      \* where ClearAll is: "cars", "records", "done" or "failed"
  torn        \* history: plates whose car was not inserted, or was deleted
              \* while a record of it was there or about to be

viewerVars == <<stage, left, cancelled>>
tickVars   == <<pc, of, todo, batch>>
plateVars  == <<mapping, used>>
tableVars  == <<cars, records, torn>>
vars == <<viewerVars, tickVars, plateVars, tableVars, clear>>

Detected == [car : Cars, plate : Plates]
Record == [car : Cars \cup {NoCar}, plate : Plates]

Pc == {"idle", "check", "plate", "create", "cars", "records"}

TypeOK ==
  /\ stage \in [Viewers -> {"away", "starting", "on", "ended"}]
  /\ left \in [Viewers -> BOOLEAN]
  /\ cancelled \in [Viewers -> BOOLEAN]
  /\ pc \in [Ticks -> Pc]
  /\ of \in [Ticks -> Viewers \cup {NoViewer}]
  /\ todo \in [Ticks -> Seq(Cars)]
  /\ batch \in [Ticks -> SUBSET Detected]
  /\ mapping \in [Cars -> Plates \cup {NoPlate}]
  /\ used \in SUBSET Plates
  /\ cars \in SUBSET Plates
  /\ records \in SUBSET Record
  /\ clear \in {"cars", "records", "done", "failed"}
  /\ torn \in SUBSET Plates

Init ==
  /\ stage = [v \in Viewers |-> "away"]
  /\ left = [v \in Viewers |-> FALSE]
  /\ cancelled = [v \in Viewers |-> FALSE]
  /\ pc = [t \in Ticks |-> "idle"]
  /\ of = [t \in Ticks |-> NoViewer]
  /\ todo = [t \in Ticks |-> <<>>]
  /\ batch = [t \in Ticks |-> {}]
  /\ mapping = [c \in Cars |-> NoPlate]
  /\ used = {}
  /\ clear = "cars"
  /\ cars = {} /\ records = {} /\ torn = {}

PlatesOf(B) == {d.plate : d \in B}

(* Plates of records that are in the table, or that a tick inserts next    *)
(* although it is past its cars.                                           *)
Recorded ==
  PlatesOf(records) \cup
  UNION {PlatesOf(batch[t]) : t \in {u \in Ticks : pc[u] = "records"}}

-----------------------------------------------------------------------------
(* Viewers.                                                                *)

(* handlerWSMSE: go mock.RecordsMock(src, ctx, ...).                       *)
Arrive(v) ==
  /\ stage[v] = "away"
  /\ stage' = [stage EXCEPT ![v] = "starting"]
  /\ UNCHANGED <<left, cancelled, tickVars, plateVars, tableVars, clear>>

(* OnClose: cancel().                                                      *)
Leave(v) ==
  /\ stage[v] # "away" /\ ~left[v]
  /\ left' = [left EXCEPT ![v] = TRUE]
  /\ UNCHANGED <<stage, cancelled, tickVars, plateVars, tableVars, clear>>

(* The memory goes, the tables stay; the next process starts with ClearAll. *)
ProcessEnds ==
  /\ stage' = [v \in Viewers |-> "away"]
  /\ left' = [v \in Viewers |-> FALSE]
  /\ cancelled' = [v \in Viewers |-> FALSE]
  /\ pc' = [t \in Ticks |-> "idle"]
  /\ of' = [t \in Ticks |-> NoViewer]
  /\ todo' = [t \in Ticks |-> <<>>]
  /\ batch' = [t \in Ticks |-> {}]
  /\ mapping' = [c \in Cars |-> NoPlate]
  /\ used' = {}
  /\ clear' = "cars"
  /\ records' = {[car |-> NoCar, plate |-> r.plate] : r \in records}
  /\ UNCHANGED <<cars, torn>>

(* records: the row is found and the interval starts, or the data cannot   *)
(* be loaded and nothing does.                                             *)
FindStream(v) ==
  /\ stage[v] = "starting"
  /\ \E s \in {"on", "ended"} : stage' = [stage EXCEPT ![v] = s]
  /\ UNCHANGED <<left, cancelled, tickVars, plateVars, tableVars, clear>>

(* The stream's name is not in the table (VideoTable deletes it), or the   *)
(* statement fails: Expect panics, and no recover stands between it and    *)
(* the end of the process.                                                 *)
StreamUnknown(v) == stage[v] = "starting" /\ ProcessEnds

(* The viewer has gone and nothing of its call is left: another may come.  *)
Forget(v) ==
  /\ stage[v] = "ended" /\ left[v]
  /\ \A t \in Ticks : of[t] # v
  /\ stage' = [stage EXCEPT ![v] = "away"]
  /\ left' = [left EXCEPT ![v] = FALSE]
  /\ cancelled' = [cancelled EXCEPT ![v] = FALSE]
  /\ UNCHANGED <<tickVars, plateVars, tableVars, clear>>

-----------------------------------------------------------------------------
(* SetInterval.  When a tick is due and the context is cancelled, too, the *)
(* select takes either.                                                    *)

Fire(v) ==
  /\ stage[v] = "on"
  /\ \E t \in Ticks : pc[t] = "idle"
  /\ LET t == CHOOSE u \in Ticks : pc[u] = "idle" IN
       /\ pc' = [pc EXCEPT ![t] = "check"]
       /\ of' = [of EXCEPT ![t] = v]
  /\ UNCHANGED <<viewerVars, todo, batch, plateVars, tableVars, clear>>

IntervalEnds(v) ==
  /\ stage[v] = "on" /\ cancelled[v]
  /\ stage' = [stage EXCEPT ![v] = "ended"]
  /\ UNCHANGED <<left, cancelled, tickVars, plateVars, tableVars, clear>>

-----------------------------------------------------------------------------
(* A tick.                                                                 *)

TickEnds(t) ==
  /\ pc' = [pc EXCEPT ![t] = "idle"]
  /\ of' = [of EXCEPT ![t] = NoViewer]
  /\ todo' = [todo EXCEPT ![t] = <<>>]
  /\ batch' = [batch EXCEPT ![t] = {}]

(* On ctx.Done, or by a panic that the callback recovers.                  *)
TickCancels(t) ==
  /\ TickEnds(t)
  /\ cancelled' = [cancelled EXCEPT ![of[t]] = TRUE]

(* GetBehaviorDataByTime: the detections of the closest frame, of which    *)
(* those with enough confidence are gone through.  Of none of them nothing *)
(* is inserted; when the data is over the panic ends the interval.         *)
GetFrame(t) ==
  \/ TickCancels(t)
  \/ TickEnds(t) /\ <<>> \in Frames /\ UNCHANGED cancelled
  \/ /\ pc' = [pc EXCEPT ![t] = "plate"]
     /\ \E F \in Frames \ {<<>>} : todo' = [todo EXCEPT ![t] = F]
     /\ UNCHANGED <<of, batch, cancelled>>

(* Mutant: the callback does not look at ctx.                              *)
CheckBlind(t) ==
  /\ pc[t] = "check" /\ GetFrame(t)
  /\ UNCHANGED <<stage, left, plateVars, tableVars, clear>>

Check(t) ==
  /\ pc[t] = "check"
  /\ IF left[of[t]] THEN TickCancels(t) ELSE GetFrame(t)
  /\ UNCHANGED <<stage, left, plateVars, tableVars, clear>>

(* One turn of the loop; after the last one the statements follow.         *)
Detect(t, plate) ==
  /\ batch' = [batch EXCEPT ![t] = @ \cup {[car |-> Head(todo[t]), plate |-> plate]}]
  /\ todo' = [todo EXCEPT ![t] = Tail(@)]
  /\ pc' = [pc EXCEPT ![t] = IF Tail(todo[t]) = <<>> THEN "cars" ELSE "plate"]

(* GetOrCreateLicensePlate, under the read lock.                           *)
LookUpPlate(t) ==
  /\ pc[t] = "plate"
  /\ LET plate == mapping[Head(todo[t])] IN
       IF plate # NoPlate
       THEN Detect(t, plate)
       ELSE pc' = [pc EXCEPT ![t] = "create"] /\ UNCHANGED <<todo, batch>>
  /\ UNCHANGED <<of, viewerVars, plateVars, tableVars, clear>>

NewPlate(t) ==
  \E plate \in Plates \ used :
    /\ mapping' = [mapping EXCEPT ![Head(todo[t])] = plate]
    /\ used' = used \cup {plate}
    /\ Detect(t, plate)

(* Mutant: the mapping is not looked at again.                             *)
CreatePlateUnseen(t) ==
  /\ pc[t] = "create" /\ NewPlate(t)
  /\ UNCHANGED <<of, viewerVars, tableVars, clear>>

(* Under the write lock, which shuts all other ticks out: another tick may *)
(* have created the plate in between, and generateLicensePlate goes on     *)
(* until it finds one that is not used.                                    *)
CreatePlate(t) ==
  /\ pc[t] = "create"
  /\ LET plate == mapping[Head(todo[t])] IN
       IF plate # NoPlate THEN Detect(t, plate) /\ UNCHANGED plateVars
                          ELSE NewPlate(t)
  /\ UNCHANGED <<of, viewerVars, tableVars, clear>>

(* Mutant: only the first car of the batch is inserted.                    *)
InsertCarsFirst(t) ==
  /\ pc[t] = "cars"
  /\ pc' = [pc EXCEPT ![t] = "records"]
  /\ cars' = cars \cup {CHOOSE plate \in PlatesOf(batch[t]) : TRUE}
  /\ torn' = torn \ PlatesOf(batch[t])
  /\ UNCHANGED <<of, todo, batch, viewerVars, plateVars, records, clear>>

(* Cars that are there already do no harm, and nor does an error: the      *)
(* records are inserted all the same.                                      *)
InsertCars(t) ==
  /\ pc[t] = "cars"
  /\ pc' = [pc EXCEPT ![t] = "records"]
  /\ LET plates == PlatesOf(batch[t]) IN
       \/ cars' = cars \cup plates /\ torn' = torn \ plates
       \/ torn' = torn \cup (plates \ cars) /\ UNCHANGED cars
  /\ UNCHANGED <<of, todo, batch, viewerVars, plateVars, records, clear>>

(* One statement for the whole batch; its error cancels the interval.      *)
InsertRecords(t) ==
  /\ pc[t] = "records"
  /\ \/ TickEnds(t) /\ records' = records \cup batch[t] /\ UNCHANGED cancelled
     \/ TickCancels(t) /\ UNCHANGED records
  /\ UNCHANGED <<stage, left, plateVars, cars, torn, clear>>

-----------------------------------------------------------------------------
(* ClearAll, once in the life of a process, while viewers may be there:    *)
(* two statements, and an error ends it unseen.                            *)

ClearCars ==
  /\ clear = "cars"
  /\ \/ clear' = "records" /\ cars' = {} /\ torn' = torn \cup Recorded
     \/ clear' = "failed" /\ UNCHANGED <<cars, torn>>
  /\ UNCHANGED <<viewerVars, tickVars, plateVars, records>>

(* Mutant: an error is taken for success.                                  *)
ClearRecordsUnseen ==
  /\ clear = "records" /\ clear' = "done"
  /\ records' = {} \/ UNCHANGED records
  /\ UNCHANGED <<viewerVars, tickVars, plateVars, cars, torn>>

ClearRecords ==
  /\ clear = "records"
  /\ \/ clear' = "done" /\ records' = {}
     \/ clear' = "failed" /\ UNCHANGED records
  /\ UNCHANGED <<viewerVars, tickVars, plateVars, cars, torn>>

-----------------------------------------------------------------------------

ViewerNext(v) ==
  \/ Arrive(v) \/ Leave(v) \/ FindStream(v) \/ StreamUnknown(v)
  \/ Forget(v) \/ Fire(v) \/ IntervalEnds(v)

TickNext(t) ==
  \/ Check(t) \/ LookUpPlate(t) \/ CreatePlate(t)
  \/ InsertCars(t) \/ InsertRecords(t)

Next ==
  \/ \E v \in Viewers : ViewerNext(v)
  \/ \E t \in Ticks : TickNext(t)
  \/ ClearCars \/ ClearRecords
  \/ ProcessEnds

Spec == Init /\ [][Next]_vars

(* The goroutines run, statements return, and the ticker of an interval    *)
(* that is on fires again and again; the select that finds its context     *)
(* cancelled every time takes that case in the end.  Nothing is assumed of *)
(* viewers, of the length of the data or of the process staying up.        *)
Fairness ==
  /\ \A v \in Viewers :
       SF_vars(Fire(v)) /\ WF_vars(IntervalEnds(v))
  /\ \A t \in Ticks : WF_vars(TickNext(t))

FairSpec == Spec /\ Fairness

-----------------------------------------------------------------------------
(* Properties.                                                             *)

(* However many ticks look a car up at once, all records this process made *)
(* of one car bear one plate, and those of two cars two.                   *)
OnePlate ==
  \A r, s \in {u \in records : u.car # NoCar} : r.car = s.car <=> r.plate = s.plate

(* Cars and records are two statements without a transaction.  A record    *)
(* whose car is not there is of a plate whose car failed, or was deleted   *)
(* by ClearAll, and has not been detected and inserted again since.        *)
RecordsHaveCars == PlatesOf(records) \subseteq cars \cup torn

(* When ClearAll has succeeded nothing of an earlier process is left, even *)
(* though viewers of this one may have come before: no car in the table    *)
(* bears a plate that a plate to come could bear again.                    *)
CleanStart ==
  clear = "done" => (\A r \in records : r.car # NoCar) /\ cars \subseteq used

(* The recording of a viewer who has left ends, although only a tick       *)
(* notices, and each tick passes that on to the interval, not to the ticks *)
(* already under way.                                                      *)
RecordingEnds ==
  \A v \in Viewers :
    (stage[v] = "on" /\ left[v]) ~> stage[v] # "on"
=============================================================================
