--------------------------- MODULE Recording_proofs ---------------------------
(***************************************************************************)
(* Plates, cars and records for any number of viewers, ticks, cars and     *)
(* plates.  The inductive invariant says where a plate may be: the map is  *)
(* injective and made of used plates, what a tick holds and what this      *)
(* process recorded agrees with the map, and a tick that is past its cars  *)
(* has them in the table unless they are torn.                             *)
(***************************************************************************)
EXTENDS Recording, TLAPS

MapInv ==
  /\ \A c \in Cars : mapping[c] # NoPlate => mapping[c] \in used
  /\ \A c, d \in Cars : (mapping[c] = mapping[d] /\ mapping[c] # NoPlate) => c = d

TickInv ==
  \A t \in Ticks :
    /\ pc[t] # "idle" => of[t] \in Viewers
    /\ pc[t] \in {"plate", "create"} => todo[t] # <<>>

BatchInv ==
  \A t \in Ticks : \A d \in batch[t] :
    /\ mapping[d.car] = d.plate
    /\ pc[t] = "records" => d.plate \in cars \cup torn

RecordInv ==
  \A r \in records :
    /\ r.car # NoCar => mapping[r.car] = r.plate
    /\ r.plate \in cars \cup torn

ClearInv ==
  /\ clear = "records" => cars \subseteq used
  /\ CleanStart

IInv == TypeOK /\ MapInv /\ TickInv /\ BatchInv /\ RecordInv /\ ClearInv

USE RecordingAssumption DEF viewerVars, tickVars, plateVars, tableVars

(* A new process with empty tables.                                        *)
LEMMA Start == Init => IInv
<1> SUFFICES ASSUME Init PROVE IInv
  OBVIOUS
<1>1. TypeOK
  BY DEF Init, TypeOK, Pc
<1>2. MapInv /\ TickInv
  BY DEF Init, MapInv, TickInv
<1>3. BatchInv /\ RecordInv /\ ClearInv
  BY DEF Init, BatchInv, RecordInv, ClearInv, CleanStart
<1> QED
  BY <1>1, <1>2, <1>3 DEF IInv

(* Only TypeOK looks at the viewers.                                       *)
LEMMA ViewerStep ==
  ASSUME IInv,
         stage' \in [Viewers -> {"away", "starting", "on", "ended"}],
         left' \in [Viewers -> BOOLEAN], cancelled' \in [Viewers -> BOOLEAN],
         UNCHANGED <<tickVars, plateVars, tableVars, clear>>
  PROVE  IInv'
<1>1. TypeOK'
  BY DEF IInv, TypeOK
<1>2. MapInv' /\ TickInv' /\ BatchInv'
  BY DEF IInv, MapInv, TickInv, BatchInv
<1>3. RecordInv' /\ ClearInv'
  BY DEF IInv, RecordInv, ClearInv, CleanStart
<1> QED
  BY <1>1, <1>2, <1>3 DEF IInv

(* Coming, going and the ends of an interval touch no tick and no table.   *)
LEMMA ViewerMoves ==
  ASSUME IInv, NEW v \in Viewers,
         \/ Arrive(v) \/ Leave(v) \/ FindStream(v) \/ Forget(v) \/ IntervalEnds(v)
  PROVE  IInv'
<1>1. stage' \in [Viewers -> {"away", "starting", "on", "ended"}]
  <2>1. stage \in [Viewers -> {"away", "starting", "on", "ended"}]
    BY DEF IInv, TypeOK
  <2>2. \/ stage' = stage
        \/ \E x \in {"away", "starting", "on", "ended"} : stage' = [stage EXCEPT ![v] = x]
    BY DEF Arrive, Leave, FindStream, Forget, IntervalEnds
  <2> QED
    BY <2>1, <2>2
<1>2. left' \in [Viewers -> BOOLEAN] /\ cancelled' \in [Viewers -> BOOLEAN]
  BY DEF IInv, TypeOK, Arrive, Leave, FindStream, Forget, IntervalEnds
<1>3. UNCHANGED <<tickVars, plateVars, tableVars, clear>>
  BY DEF Arrive, Leave, FindStream, Forget, IntervalEnds
<1> QED
  BY <1>1, <1>2, <1>3, ViewerStep

(* A new process holds no plates, and its ClearAll has done nothing yet.   *)
LEMMA ProcessEndsStep ==
  ASSUME IInv, ProcessEnds
  PROVE  IInv'
<1>1. \A r \in records' : /\ r \in Record
                          /\ r.car = NoCar
                          /\ r.plate \in cars \cup torn
  BY DEF IInv, TypeOK, RecordInv, ProcessEnds, Record
<1>2. TypeOK'
  <2>1. records' \in SUBSET Record
    BY <1>1
  <2>2. cars' \in SUBSET Plates /\ torn' \in SUBSET Plates
    BY DEF IInv, TypeOK, ProcessEnds
  <2>3. /\ stage' \in [Viewers -> {"away", "starting", "on", "ended"}]
        /\ left' \in [Viewers -> BOOLEAN] /\ cancelled' \in [Viewers -> BOOLEAN]
    BY DEF ProcessEnds
  <2>4. /\ pc' \in [Ticks -> Pc] /\ of' \in [Ticks -> Viewers \cup {NoViewer}]
        /\ todo' \in [Ticks -> Seq(Cars)] /\ batch' \in [Ticks -> SUBSET Detected]
    BY DEF ProcessEnds, Pc
  <2>5. /\ mapping' \in [Cars -> Plates \cup {NoPlate}] /\ used' \in SUBSET Plates
        /\ clear' \in {"cars", "records", "done", "failed"}
    BY DEF ProcessEnds
  <2> QED
    BY <2>1, <2>2, <2>3, <2>4, <2>5 DEF TypeOK
<1>3. MapInv' /\ TickInv' /\ BatchInv'
  BY DEF ProcessEnds, MapInv, TickInv, BatchInv
<1>4. RecordInv'
  BY <1>1 DEF ProcessEnds, RecordInv
<1>5. ClearInv'
  BY DEF ProcessEnds, ClearInv, CleanStart
<1> QED
  BY <1>2, <1>3, <1>4, <1>5 DEF IInv

-----------------------------------------------------------------------------
(* Ticks.                                                                  *)

(* Where a tick stands matters to the types, to TickInv and to BatchInv.   *)
LEMMA TickStep ==
  ASSUME IInv, UNCHANGED <<stage, left, plateVars, tableVars, clear>>,
         cancelled' \in [Viewers -> BOOLEAN],
         pc' \in [Ticks -> Pc], of' \in [Ticks -> Viewers \cup {NoViewer}],
         todo' \in [Ticks -> Seq(Cars)], batch' \in [Ticks -> SUBSET Detected],
         TickInv', BatchInv'
  PROVE  IInv'
<1>1. TypeOK'
  BY DEF IInv, TypeOK
<1>2. MapInv' /\ RecordInv' /\ ClearInv'
  BY DEF IInv, MapInv, RecordInv, ClearInv, CleanStart
<1> QED
  BY <1>1, <1>2 DEF IInv

(* A tick starts with nothing in its hands.                                *)
LEMMA FireStep ==
  ASSUME IInv, NEW v \in Viewers, Fire(v)
  PROVE  IInv'
<1>1. PICK t \in Ticks : /\ pc[t] = "idle"
                         /\ pc' = [pc EXCEPT ![t] = "check"]
                         /\ of' = [of EXCEPT ![t] = v]
  BY DEF Fire
<1>2. UNCHANGED <<viewerVars, todo, batch, plateVars, tableVars, clear>>
  BY DEF Fire
<1>3. pc' \in [Ticks -> Pc] /\ of' \in [Ticks -> Viewers \cup {NoViewer}]
  BY <1>1 DEF IInv, TypeOK, Pc
<1>4. TickInv'
  BY <1>1, <1>2 DEF IInv, TypeOK, TickInv
<1>5. BatchInv'
  BY <1>1, <1>2 DEF IInv, TypeOK, BatchInv
<1> QED
  BY <1>2, <1>3, <1>4, <1>5, TickStep DEF IInv, TypeOK

(* A tick that ends leaves nothing behind in itself.                       *)
LEMMA EndsTyped ==
  ASSUME IInv, NEW t \in Ticks, TickEnds(t)
  PROVE  /\ pc' \in [Ticks -> Pc] /\ of' \in [Ticks -> Viewers \cup {NoViewer}]
         /\ todo' \in [Ticks -> Seq(Cars)]
         /\ batch' \in [Ticks -> SUBSET Detected]
         /\ TickInv'
         /\ \A u \in Ticks : batch'[u] # {} => u # t /\ batch'[u] = batch[u]
                                                   /\ pc'[u] = pc[u]
<1>1. /\ pc' \in [Ticks -> Pc] /\ of' \in [Ticks -> Viewers \cup {NoViewer}]
      /\ todo' \in [Ticks -> Seq(Cars)]
      /\ batch' \in [Ticks -> SUBSET Detected]
  BY DEF IInv, TypeOK, TickEnds, Pc
<1>2. TickInv'
  BY DEF IInv, TypeOK, TickInv, TickEnds
<1>3. \A u \in Ticks : batch'[u] # {} => u # t /\ batch'[u] = batch[u]
                                               /\ pc'[u] = pc[u]
  BY DEF IInv, TypeOK, TickEnds
<1> QED
  BY <1>1, <1>2, <1>3

(* Who is cancelled is the viewer of the tick.                             *)
LEMMA CancelTyped ==
  ASSUME IInv, NEW t \in Ticks, pc[t] # "idle", TickCancels(t)
  PROVE  cancelled' \in [Viewers -> BOOLEAN]
BY DEF IInv, TypeOK, TickCancels, TickInv

(* Ending keeps the invariant as long as the tables stay.                  *)
LEMMA EndsStep ==
  ASSUME IInv, NEW t \in Ticks, TickEnds(t), cancelled' \in [Viewers -> BOOLEAN],
         UNCHANGED <<stage, left, plateVars, tableVars, clear>>
  PROVE  IInv'
<1>1. BatchInv'
  BY EndsTyped DEF IInv, BatchInv
<1> QED
  BY <1>1, EndsTyped, TickStep

(* Ends, or begins the loop with a frame that has detections.              *)
LEMMA CheckStep ==
  ASSUME IInv, NEW t \in Ticks, Check(t)
  PROVE  IInv'
<1>1. pc[t] = "check" /\ UNCHANGED <<stage, left, plateVars, tableVars, clear>>
  BY DEF Check
<1>2. CASE TickCancels(t)
  BY <1>1, <1>2, CancelTyped, EndsStep DEF TickCancels
<1>3. CASE TickEnds(t) /\ UNCHANGED cancelled
  BY <1>1, <1>3, EndsStep DEF IInv, TypeOK
<1>4. CASE /\ pc' = [pc EXCEPT ![t] = "plate"]
           /\ \E F \in Frames \ {<<>>} : todo' = [todo EXCEPT ![t] = F]
           /\ UNCHANGED <<of, batch, cancelled>>
  <2>1. PICK F \in Frames \ {<<>>} : todo' = [todo EXCEPT ![t] = F]
    BY <1>4
  <2>2. F \in Seq(Cars)
    OBVIOUS
  <2>3. pc' \in [Ticks -> Pc] /\ todo' \in [Ticks -> Seq(Cars)]
    BY <1>4, <2>1, <2>2 DEF IInv, TypeOK, Pc
  <2>4. TickInv'
    BY <1>1, <1>4, <2>1 DEF IInv, TypeOK, TickInv
  <2>5. BatchInv'
    BY <1>1, <1>4 DEF IInv, TypeOK, BatchInv
  <2> QED
    BY <1>1, <1>4, <2>3, <2>4, <2>5, TickStep DEF IInv, TypeOK
<1> QED
  BY <1>2, <1>3, <1>4 DEF Check, GetFrame

(* A car that is detected gets the plate the map has, or will have, of it. *)
LEMMA DetectTyped ==
  ASSUME IInv, NEW t \in Ticks, pc[t] \in {"plate", "create"},
         NEW plate \in Plates, Detect(t, plate), UNCHANGED <<of, cancelled>>
  PROVE  /\ Head(todo[t]) \in Cars
         /\ pc' \in [Ticks -> Pc] /\ of' \in [Ticks -> Viewers \cup {NoViewer}]
         /\ todo' \in [Ticks -> Seq(Cars)]
         /\ batch' \in [Ticks -> SUBSET Detected]
         /\ TickInv'
         /\ \A u \in Ticks : \A d \in batch'[u] :
              \/ d \in batch[u] /\ (pc'[u] = "records" => pc[u] = "records")
              \/ d.car = Head(todo[t]) /\ d.plate = plate /\ pc'[u] # "records"
<1>1. todo[t] \in Seq(Cars) /\ todo[t] # <<>>
  BY DEF IInv, TypeOK, TickInv
<1>2. Head(todo[t]) \in Cars /\ Tail(todo[t]) \in Seq(Cars)
  BY <1>1
<1>3. pc' \in [Ticks -> Pc] /\ of' \in [Ticks -> Viewers \cup {NoViewer}]
  BY DEF IInv, TypeOK, Detect, Pc
<1>4. todo' \in [Ticks -> Seq(Cars)]
  BY <1>2 DEF IInv, TypeOK, Detect
<1>5. [car |-> Head(todo[t]), plate |-> plate] \in Detected
  BY <1>2 DEF Detected
<1>6. batch' \in [Ticks -> SUBSET Detected]
  BY <1>5 DEF IInv, TypeOK, Detect
<1>8. TickInv'
  BY <1>1 DEF IInv, TypeOK, TickInv, Detect
<1>9. \A u \in Ticks : \A d \in batch'[u] :
        \/ d \in batch[u] /\ (pc'[u] = "records" => pc[u] = "records")
        \/ d.car = Head(todo[t]) /\ d.plate = plate /\ pc'[u] # "records"
  BY DEF IInv, TypeOK, Detect
<1> QED
  BY <1>2, <1>3, <1>4, <1>6, <1>8, <1>9

(* A detection of a car that has a plate.                                  *)
LEMMA DetectStep ==
  ASSUME IInv, NEW t \in Ticks, pc[t] \in {"plate", "create"},
         mapping[Head(todo[t])] # NoPlate, Detect(t, mapping[Head(todo[t])]),
         UNCHANGED <<of, viewerVars, plateVars, tableVars, clear>>
  PROVE  IInv'
<1>1. Head(todo[t]) \in Cars
  <2>1. todo[t] \in Seq(Cars) /\ todo[t] # <<>>
    BY DEF IInv, TypeOK, TickInv
  <2> QED
    BY <2>1
<1>2. mapping[Head(todo[t])] \in Plates
  BY <1>1 DEF IInv, TypeOK
<1>3. /\ pc' \in [Ticks -> Pc] /\ of' \in [Ticks -> Viewers \cup {NoViewer}]
      /\ todo' \in [Ticks -> Seq(Cars)] /\ batch' \in [Ticks -> SUBSET Detected]
      /\ TickInv'
      /\ \A u \in Ticks : \A d \in batch'[u] :
           \/ d \in batch[u] /\ (pc'[u] = "records" => pc[u] = "records")
           \/ /\ d.car = Head(todo[t]) /\ d.plate = mapping[Head(todo[t])]
              /\ pc'[u] # "records"
  BY <1>2, DetectTyped
<1>4. BatchInv'
  BY <1>3 DEF IInv, BatchInv
<1> QED
  BY <1>3, <1>4, TickStep DEF IInv, TypeOK

(* A hit is a detection; a miss only goes on to the write lock.            *)
LEMMA LookUpPlateStep ==
  ASSUME IInv, NEW t \in Ticks, LookUpPlate(t)
  PROVE  IInv'
<1>1. pc[t] = "plate" /\ UNCHANGED <<of, viewerVars, plateVars, tableVars, clear>>
  BY DEF LookUpPlate
<1>2. CASE mapping[Head(todo[t])] # NoPlate
  BY <1>1, <1>2, DetectStep DEF LookUpPlate
<1>3. CASE mapping[Head(todo[t])] = NoPlate
  <2>1. pc' = [pc EXCEPT ![t] = "create"] /\ UNCHANGED <<todo, batch>>
    BY <1>3 DEF LookUpPlate
  <2>2. pc' \in [Ticks -> Pc] /\ TickInv' /\ BatchInv'
    BY <1>1, <2>1 DEF IInv, TypeOK, TickInv, BatchInv, Pc
  <2> QED
    BY <1>1, <2>1, <2>2, TickStep DEF IInv, TypeOK
<1> QED
  BY <1>2, <1>3

(* A car that had no plate gets one that was not used, so no other car can *)
(* have it, and nothing was detected or recorded of this car before.       *)
LEMMA CreatePlateStep ==
  ASSUME IInv, NEW t \in Ticks, CreatePlate(t)
  PROVE  IInv'
<1>1. pc[t] = "create" /\ UNCHANGED <<of, viewerVars, tableVars, clear>>
  BY DEF CreatePlate
<1> DEFINE c == Head(todo[t])
<1>2. c \in Cars
  <2>1. todo[t] \in Seq(Cars) /\ todo[t] # <<>>
    BY <1>1 DEF IInv, TypeOK, TickInv
  <2> QED
    BY <2>1
<1>3. CASE mapping[c] # NoPlate
  BY <1>1, <1>3, DetectStep DEF CreatePlate
<1>4. CASE mapping[c] = NoPlate
  <2>1. PICK plate \in Plates \ used :
          /\ mapping' = [mapping EXCEPT ![c] = plate]
          /\ used' = used \cup {plate}
          /\ Detect(t, plate)
    BY <1>4 DEF CreatePlate, NewPlate
  <2>2. plate # NoPlate
    BY <2>1
  <2>3. \A e \in Cars : mapping'[e] = IF e = c THEN plate ELSE mapping[e]
    BY <2>1 DEF IInv, TypeOK
  <2>4. /\ pc' \in [Ticks -> Pc] /\ of' \in [Ticks -> Viewers \cup {NoViewer}]
        /\ todo' \in [Ticks -> Seq(Cars)] /\ batch' \in [Ticks -> SUBSET Detected]
        /\ TickInv'
        /\ \A u \in Ticks : \A d \in batch'[u] :
             \/ d \in batch[u] /\ (pc'[u] = "records" => pc[u] = "records")
             \/ d.car = c /\ d.plate = plate /\ pc'[u] # "records"
    BY <1>1, <2>1, DetectTyped
  <2>5. MapInv'
    BY <2>1, <2>2, <2>3 DEF IInv, MapInv
  <2>6. TypeOK'
    BY <1>1, <2>1, <2>4 DEF IInv, TypeOK
  <2>7. \A u \in Ticks : \A d \in batch[u] :
          d.car \in Cars /\ d.plate \in Plates /\ mapping[d.car] = d.plate
    BY DEF IInv, TypeOK, BatchInv, Detected
  <2>8. \A u \in Ticks : \A d \in batch[u] : mapping'[d.car] = d.plate
    BY <1>4, <2>3, <2>7
  <2>9. BatchInv'
    BY <1>1, <1>2, <2>3, <2>4, <2>8 DEF IInv, BatchInv
  <2>10. \A r \in records : r.car # NoCar =>
           r.car \in Cars /\ r.plate \in Plates /\ mapping[r.car] = r.plate
    BY DEF IInv, TypeOK, RecordInv, Record
  <2>11. RecordInv'
    BY <1>1, <1>4, <2>3, <2>10 DEF IInv, RecordInv
  <2>12. ClearInv'
    BY <1>1, <2>1 DEF IInv, ClearInv, CleanStart
  <2> QED
    BY <2>4, <2>5, <2>6, <2>9, <2>11, <2>12 DEF IInv
<1> QED
  BY <1>3, <1>4

-----------------------------------------------------------------------------
(* Statements.                                                             *)

(* The cars of the batch are in the table now, or torn: its records are    *)
(* next.                                                                   *)
LEMMA InsertCarsStep ==
  ASSUME IInv, NEW t \in Ticks, InsertCars(t)
  PROVE  IInv'
<1>1. /\ pc[t] = "cars" /\ pc' = [pc EXCEPT ![t] = "records"]
      /\ UNCHANGED <<of, todo, batch, viewerVars, plateVars, records, clear>>
  BY DEF InsertCars
<1>2. \A d \in batch[t] : d.plate \in Plates /\ d.plate \in used
  BY DEF IInv, TypeOK, MapInv, BatchInv, Detected
<1>3. /\ cars \subseteq cars' /\ cars' \subseteq cars \cup PlatesOf(batch[t])
      /\ torn' \subseteq torn \cup PlatesOf(batch[t])
      /\ cars \cup torn \cup PlatesOf(batch[t]) \subseteq cars' \cup torn'
  BY DEF InsertCars
<1>4. PlatesOf(batch[t]) \subseteq Plates /\ PlatesOf(batch[t]) \subseteq used
  BY <1>2 DEF PlatesOf
<1>5. \A d \in batch[t] : d.plate \in PlatesOf(batch[t])
  BY DEF PlatesOf
<1>6. TypeOK'
  <2>1. cars' \in SUBSET Plates /\ torn' \in SUBSET Plates
    BY <1>3, <1>4 DEF IInv, TypeOK
  <2>2. pc' \in [Ticks -> Pc]
    BY <1>1 DEF IInv, TypeOK, Pc
  <2> QED
    BY <1>1, <2>1, <2>2 DEF IInv, TypeOK
<1>7. MapInv' /\ TickInv'
  BY <1>1 DEF IInv, TypeOK, MapInv, TickInv
<1>8. BatchInv'
  BY <1>1, <1>3, <1>5 DEF IInv, TypeOK, BatchInv
<1>9. RecordInv'
  BY <1>1, <1>3 DEF IInv, RecordInv
<1>10. ClearInv'
  BY <1>1, <1>3, <1>4 DEF IInv, ClearInv, CleanStart
<1> QED
  BY <1>6, <1>7, <1>8, <1>9, <1>10 DEF IInv

(* The whole batch is recorded, and its cars are there or torn.            *)
LEMMA InsertRecordsStep ==
  ASSUME IInv, NEW t \in Ticks, InsertRecords(t)
  PROVE  IInv'
<1>1. /\ pc[t] = "records"
      /\ UNCHANGED <<stage, left, plateVars, cars, torn, clear>>
  BY DEF InsertRecords
<1>2. CASE TickCancels(t) /\ UNCHANGED records
  BY <1>1, <1>2, CancelTyped, EndsStep DEF TickCancels
<1>3. CASE /\ TickEnds(t) /\ records' = records \cup batch[t] /\ UNCHANGED cancelled
  <2>1. \A d \in batch[t] : /\ d \in Record /\ d.car # NoCar
                            /\ mapping[d.car] = d.plate
                            /\ d.plate \in cars \cup torn
    BY <1>1 DEF IInv, TypeOK, BatchInv, Detected, Record
  <2>2. TypeOK'
    <3>1. TypeOK
      BY DEF IInv
    <3>2. records' \in SUBSET Record
      BY <1>3, <2>1, <3>1 DEF TypeOK
    <3> QED
      BY <1>1, <1>3, <3>1, <3>2, EndsTyped DEF TypeOK
  <2>3. TickInv' /\ BatchInv'
    BY <1>1, <1>3, EndsTyped, ZenonT(60) DEF IInv, BatchInv
  <2>4. RecordInv'
    BY <1>1, <1>3, <2>1 DEF IInv, RecordInv
  <2>5. MapInv' /\ ClearInv'
    BY <1>1, <1>3, <2>1 DEF IInv, MapInv, ClearInv, CleanStart
  <2> QED
    BY <2>2, <2>3, <2>4, <2>5 DEF IInv
<1> QED
  BY <1>2, <1>3 DEF InsertRecords

(* ClearAll tears the records that are there and those about to be.        *)
LEMMA ClearCarsStep ==
  ASSUME IInv, ClearCars
  PROVE  IInv'
<1>1. clear = "cars" /\ UNCHANGED <<viewerVars, tickVars, plateVars, records>>
  BY DEF ClearCars
<1>2. CASE clear' = "failed" /\ UNCHANGED <<cars, torn>>
  BY <1>1, <1>2 DEF IInv, TypeOK, MapInv, TickInv, BatchInv, RecordInv, ClearInv,
                    CleanStart
<1>3. CASE clear' = "records" /\ cars' = {} /\ torn' = torn \cup Recorded
  <2>1. \A r \in records : r.plate \in Recorded /\ r.plate \in Plates
    BY DEF IInv, TypeOK, Record, Recorded, PlatesOf
  <2>2. \A t \in Ticks : \A d \in batch[t] :
          d.plate \in Plates /\ (pc[t] = "records" => d.plate \in Recorded)
    BY DEF IInv, TypeOK, Detected, Recorded, PlatesOf
  <2>3. Recorded \subseteq Plates
    BY <2>1, <2>2 DEF Recorded, PlatesOf
  <2>4. TypeOK'
    BY <1>1, <1>3, <2>3 DEF IInv, TypeOK
  <2>5. MapInv' /\ TickInv'
    BY <1>1 DEF IInv, MapInv, TickInv
  <2>6. BatchInv' /\ RecordInv'
    BY <1>1, <1>3, <2>1, <2>2 DEF IInv, BatchInv, RecordInv
  <2>7. ClearInv'
    BY <1>3 DEF ClearInv, CleanStart
  <2> QED
    BY <2>4, <2>5, <2>6, <2>7 DEF IInv
<1> QED
  BY <1>2, <1>3 DEF ClearCars

(* No record, no claim.                                                    *)
LEMMA ClearRecordsStep ==
  ASSUME IInv, ClearRecords
  PROVE  IInv'
<1>1. clear = "records" /\ UNCHANGED <<viewerVars, tickVars, plateVars, cars, torn>>
  BY DEF ClearRecords
<1>2. \/ clear' = "done" /\ records' = {}
      \/ clear' = "failed" /\ UNCHANGED records
  BY DEF ClearRecords
<1>3. TypeOK'
  BY <1>1, <1>2 DEF IInv, TypeOK
<1>4. MapInv' /\ TickInv' /\ BatchInv'
  BY <1>1 DEF IInv, MapInv, TickInv, BatchInv
<1>5. RecordInv' /\ ClearInv'
  BY <1>1, <1>2 DEF IInv, RecordInv, ClearInv, CleanStart
<1> QED
  BY <1>3, <1>4, <1>5 DEF IInv

-----------------------------------------------------------------------------

(* Every step keeps the invariant.                                         *)
LEMMA Step == IInv /\ [Next]_vars => IInv'
<1> SUFFICES ASSUME IInv, [Next]_vars PROVE IInv'
  OBVIOUS
<1>1. ASSUME NEW v \in Viewers, ViewerNext(v) PROVE IInv'
  BY <1>1, ViewerMoves, FireStep, ProcessEndsStep DEF ViewerNext, StreamUnknown
<1>2. ASSUME NEW t \in Ticks, TickNext(t) PROVE IInv'
  BY <1>2, CheckStep, LookUpPlateStep, CreatePlateStep, InsertCarsStep,
     InsertRecordsStep DEF TickNext
<1>3. CASE UNCHANGED vars
  BY <1>3 DEF vars, IInv, TypeOK, MapInv, TickInv, BatchInv, RecordInv, ClearInv,
              CleanStart
<1> QED
  BY <1>1, <1>2, <1>3, ClearCarsStep, ClearRecordsStep, ProcessEndsStep DEF Next

(* The invariant the theorems below are read off.                          *)
THEOREM Inductive == Spec => []IInv
BY Start, Step, PTL DEF Spec

(* Every variable keeps its type.                                          *)
THEOREM TypeCorrect == Spec => []TypeOK
<1>1. IInv => TypeOK
  BY DEF IInv
<1> QED
  BY <1>1, Inductive, PTL

(* Two ticks never give one car two plates, or one plate to two cars.      *)
THEOREM OnePlateHolds == Spec => []OnePlate
<1>1. IInv => OnePlate
  <2> SUFFICES ASSUME IInv, NEW r \in records, NEW s \in records,
                      r.car # NoCar, s.car # NoCar
               PROVE  r.car = s.car <=> r.plate = s.plate
    BY DEF OnePlate
  <2>1. /\ r.car \in Cars /\ s.car \in Cars
        /\ r.plate \in Plates /\ s.plate \in Plates
    BY DEF IInv, TypeOK, Record
  <2>2. mapping[r.car] = r.plate /\ mapping[s.car] = s.plate
    BY DEF IInv, RecordInv
  <2> QED
    BY <2>1, <2>2 DEF IInv, MapInv
<1> QED
  BY <1>1, Inductive, PTL

(* Whatever fails and whenever ClearAll comes, a record without its car is *)
(* one of a torn plate.                                                    *)
THEOREM RecordsHaveCarsHolds == Spec => []RecordsHaveCars
<1>1. IInv => RecordsHaveCars
  BY DEF IInv, RecordInv, RecordsHaveCars, PlatesOf
<1> QED
  BY <1>1, Inductive, PTL

(* A ClearAll that succeeded left nothing of an earlier process.           *)
THEOREM CleanStartHolds == Spec => []CleanStart
<1>1. IInv => CleanStart
  BY DEF IInv, ClearInv
<1> QED
  BY <1>1, Inductive, PTL
===============================================================================
