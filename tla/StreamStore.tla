---------------------------- MODULE StreamStore ----------------------------
(***************************************************************************)
(* The store the pages read (client/src/stores/pinia/stream), the timer of *)
(* VideoList.vue that fills it by polling, and the two statements of the   *)
(* server the polls end in: the query of the records and the insertion of  *)
(* what the cameras detect.                                                *)
(*                                                                         *)
(* Polls do not wait for one another.  A poll asks for the records from    *)
(* the time of the first record of its list, inclusive, up to now; what it *)
(* gets is put in front of the list, and the list is cut to its maximum.   *)
(* The request of one poll is under way from the moment its bounds are     *)
(* read out of the store until the answer is handled or the request fails. *)
(***************************************************************************)
EXTENDS Naturals, Sequences, FiniteSets, SequencesExt

CONSTANTS
  Streams,           \* stream ids
  NoStream,          \* the id -1 of the initial ActiveStream
  StreamList,        \* what GetVideoList answers
  Kinds,             \* bound: the polls of Update that are modelled
  InFlight,          \* requests of one kind under way at once: axios gives up
                     \* after 5 s, Update runs every 3 s, so two
  MAX_RECORDS_SIZE,  \* 50
  MAX_MAP_SIZE,      \* 20
  CleanupEvery,      \* updates between two cleanups: 10
  MaxTime,           \* bound: the clock
  MaxRecords         \* bound: records stamped

Kind == {"total", "single", "exceptions"}

ASSUME StoreAssumption ==
  /\ NoStream \notin Streams
  /\ StreamList \in Seq(Streams)
  /\ \A i, j \in 1 .. Len(StreamList) : StreamList[i] = StreamList[j] => i = j
  /\ Kinds \subseteq Kind
  /\ InFlight \in Nat \ {0}
  /\ MAX_RECORDS_SIZE \in Nat \ {0}
  /\ MAX_MAP_SIZE \in Nat \ {0}
  /\ CleanupEvery \in Nat \ {0}
  /\ MaxTime \in Nat \ {0}
  /\ MaxRecords \in Nat

VARIABLES
  now,         \* the clock of server and client; midnight is 0
  stamped,     \* how many records were ever made
  pending,     \* records with their time, the INSERT not yet committed
  db,          \* the records in the table
  TotalCarRecordList,
  TotalCarExceptionsRecordList,
  SingleCarRecordList,      \* its lists, by stream
  mapOrder,                 \* its keys in the order of insertion
  TotalCarExceptionsCount,
  ActiveStream,
  updating,    \* the interval of VideoList runs
  cleanupCounter,
  req,         \* the requests under way, by kind, in the order of sending
  inOrder,     \* history: records committed when none of a later time was
  delivered    \* history: records some answer to GetTotalRecords brought

serverVars == <<now, stamped, pending, db, inOrder>>
totalVars  == <<TotalCarRecordList, TotalCarExceptionsRecordList, delivered>>
mapVars    == <<SingleCarRecordList, mapOrder>>
pageVars   == <<ActiveStream, updating, cleanupCounter>>
vars == <<serverVars, totalVars, mapVars, pageVars,
          TotalCarExceptionsCount, req>>

Time == 0 .. MaxTime
Record == [id : 1 .. MaxRecords, time : Time, stream : Streams, status : BOOLEAN]

(* A request and, once the server has evaluated it, its answer.            *)
Answered == {"sent", "read"}
Request == [stream : Streams \cup {NoStream}, from : Time, to : Time,
            stage : Answered, data : Seq(Record), count : Nat]

TypeServer ==
  /\ now \in Time
  /\ stamped \in 0 .. MaxRecords
  /\ pending \in SUBSET Record
  /\ db \in SUBSET Record
  /\ inOrder \in SUBSET Record

TypeLists ==
  /\ TotalCarRecordList \in Seq(Record)
  /\ Len(TotalCarRecordList) <= MAX_RECORDS_SIZE
  /\ SingleCarRecordList \in [Streams \cup {NoStream} -> Seq(Record)]
  /\ mapOrder \in Seq(Streams \cup {NoStream})
  /\ delivered \in SUBSET Record

TypeExceptions ==
  /\ TotalCarExceptionsRecordList \in Seq(Record)
  /\ Len(TotalCarExceptionsRecordList) <= MAX_RECORDS_SIZE

TypePage ==
  /\ TotalCarExceptionsCount \in Nat
  /\ ActiveStream \in Streams \cup {NoStream}
  /\ updating \in BOOLEAN
  /\ cleanupCounter \in 0 .. CleanupEvery - 1

TypeReq ==
  /\ req \in [Kind -> Seq(Request)]
  /\ \A k \in Kind : Len(req[k]) <= InFlight

TypeOK == TypeServer /\ TypeLists /\ TypeExceptions /\ TypePage /\ TypeReq

Init ==
  /\ now = 1
  /\ stamped = 0
  /\ pending = {}
  /\ db = {}
  /\ TotalCarRecordList = <<>>
  /\ TotalCarExceptionsRecordList = <<>>
  /\ SingleCarRecordList = [s \in Streams \cup {NoStream} |-> <<>>]
  /\ mapOrder = <<>>
  /\ TotalCarExceptionsCount = 0
  /\ ActiveStream = NoStream
  /\ updating = FALSE
  /\ cleanupCounter = 0
  /\ req = [k \in Kind |-> <<>>]
  /\ inOrder = {}
  /\ delivered = {}

-----------------------------------------------------------------------------
(* The server.                                                             *)

Tick ==
  /\ now < MaxTime
  /\ now' = now + 1
  /\ UNCHANGED <<stamped, pending, db, inOrder, totalVars, mapVars, pageVars, TotalCarExceptionsCount, req>>

(* A tick of a camera stamps what it detects and then inserts it: ticks of *)
(* several cameras, and slow ticks of one, reach the table in any order,   *)
(* and an INSERT may fail.                                                 *)
Stamp ==
  /\ stamped < MaxRecords
  /\ stamped' = stamped + 1
  /\ \E s \in Streams, normal \in BOOLEAN :
       pending' = pending \cup
         {[id |-> stamped + 1, time |-> now, stream |-> s, status |-> normal]}
  /\ UNCHANGED <<now, db, inOrder, totalVars, mapVars, pageVars,
                 TotalCarExceptionsCount, req>>

Insert(r) ==
  /\ r \in pending
  /\ pending' = pending \ {r}
  /\ \/ /\ db' = db \cup {r}
        /\ inOrder' = IF \A d \in db : d.time <= r.time THEN inOrder \cup {r}
                                                       ELSE inOrder
     \/ UNCHANGED <<db, inOrder>>
  /\ UNCHANGED <<now, stamped, totalVars, mapVars, pageVars,
                 TotalCarExceptionsCount, req>>

(* getRecords: ORDER BY time DESC says nothing about equal times.          *)
Newest(S) ==
  {q \in [1 .. Cardinality(S) -> S] :
     /\ ToSet(q) = S
     /\ \A i, j \in 1 .. Cardinality(S) : i < j => q[i].time >= q[j].time}

(* Mutant: the range is taken to begin after its bound.                    *)
InRangeExclusive(r, q) == q.from < r.time /\ r.time <= q.to

(* Mutant: the range is taken to end before its bound.                     *)
InRangeBeforeEnd(r, q) == q.from <= r.time /\ r.time < q.to

InRange(r, q) == q.from <= r.time /\ r.time <= q.to

Matching(k, q) ==
  {r \in db : /\ InRange(r, q)
              /\ k = "single" => r.stream = q.stream
              /\ k = "exceptions" => ~r.status}

Read(k) ==
  \E i \in 1 .. Len(req[k]) :
    /\ req[k][i].stage = "sent"
    /\ \E d \in (IF k \in {"total", "single"} THEN Newest(Matching(k, req[k][i]))
                                              ELSE {<<>>}) :
         req' = [req EXCEPT ![k][i].stage = "read", ![k][i].data = d,
                            ![k][i].count = IF k = "exceptions"
                              THEN Cardinality(Matching(k, req[k][i])) ELSE 0]
    /\ UNCHANGED <<serverVars, totalVars, mapVars, pageVars,
                   TotalCarExceptionsCount>>

-----------------------------------------------------------------------------
(* Sending.                                                                *)

FirstTime(list) == IF list = <<>> THEN 0 ELSE list[1].time

(* Mutant: a poll goes on from the present, not from its list.             *)
FromNow(k, s) == IF k = "total" THEN now ELSE 0

(* The bounds of the polls: the lists go on from their first record, the   *)
(* count is today's.                                                       *)
From(k, s) ==
  CASE k = "total"      -> FirstTime(TotalCarRecordList)
    [] k = "single"     -> FirstTime(SingleCarRecordList[s])
    [] k = "exceptions" -> 0

Sent(k, s) ==
  [stream |-> s, from |-> From(k, s), to |-> now, stage |-> "sent",
   data |-> <<>>, count |-> 0]

(* Mutant: a missing list is left missing.                                 *)
WithKeyKept(order, s) == order

(* GetSingleRecords makes a missing list before it asks for its records.   *)
WithKey(order, s) == IF s \in ToSet(order) THEN order ELSE Append(order, s)

-----------------------------------------------------------------------------
(* The pages.                                                              *)

(* GetVideoList -> set_stream_list -> init_map: a list for each stream, in *)
(* the order of the answer, and the first becomes the active stream, which *)
(* the watcher of setup.ts answers with a poll; then the interval starts.  *)
VideoListLoaded ==
  /\ ~updating
  /\ updating' = TRUE
  /\ mapOrder' = StreamList
  /\ IF StreamList = <<>>
     THEN UNCHANGED <<ActiveStream, req>>
     ELSE /\ ActiveStream' = StreamList[1]
          /\ req' = IF "single" \in Kinds
                    THEN [req EXCEPT !["single"] = Append(@, Sent("single", StreamList[1]))]
                    ELSE req
  /\ UNCHANGED <<serverVars, totalVars, SingleCarRecordList,
                 cleanupCounter, TotalCarExceptionsCount>>

(* The mouse over a video: set_active_stream, and the watcher's poll.      *)
SetActiveStream(s) ==
  /\ updating /\ s \in ToSet(StreamList) /\ s # ActiveStream
  /\ "single" \in Kinds /\ Len(req["single"]) < InFlight
  /\ ActiveStream' = s
  /\ mapOrder' = WithKey(mapOrder, s)
  /\ req' = [req EXCEPT !["single"] = Append(@, Sent("single", s))]
  /\ UNCHANGED <<serverVars, totalVars, SingleCarRecordList, updating,
                 cleanupCounter, TotalCarExceptionsCount>>

(* cleanupMapData: the keys first inserted go.                             *)
KeptKeys(order) ==
  IF Len(order) <= MAX_MAP_SIZE THEN order
  ELSE SubSeq(order, Len(order) - MAX_MAP_SIZE + 1, Len(order))

(* Update, every three seconds: one poll of each kind, and every tenth     *)
(* time performPeriodicCleanup, whose cuts of the lists find nothing.      *)
Update ==
  /\ updating
  /\ \A k \in Kinds : Len(req[k]) < InFlight
  /\ req' = [k \in Kind |-> IF k \in Kinds THEN Append(req[k], Sent(k, ActiveStream))
                                           ELSE req[k]]
  /\ cleanupCounter' = (cleanupCounter + 1) % CleanupEvery
  /\ LET keys == IF "single" \in Kinds THEN WithKey(mapOrder, ActiveStream) ELSE mapOrder
         cleanup == cleanupCounter' = 0
     IN /\ mapOrder' = IF cleanup THEN KeptKeys(keys) ELSE keys
        /\ SingleCarRecordList' =
             [s \in Streams \cup {NoStream} |->
                IF s \in ToSet(mapOrder') THEN SingleCarRecordList[s] ELSE <<>>]
  /\ UNCHANGED <<serverVars, totalVars, ActiveStream, updating, TotalCarExceptionsCount>>

-----------------------------------------------------------------------------
(* Answers, in any order.                                                  *)

Capped(list) ==
  SubSeq(list, 1, IF Len(list) <= MAX_RECORDS_SIZE THEN Len(list) ELSE MAX_RECORDS_SIZE)

IsException(r) == ~r.status

(* The filter: the exceptions of a list, in their order.                   *)
Exceptions(list) ==
  LET kept[i \in 0 .. Len(list)] ==
        IF i = 0 THEN <<>>
        ELSE IF IsException(list[i]) THEN Append(kept[i - 1], list[i])
        ELSE kept[i - 1]
  IN  kept[Len(list)]

(* Mutant: the new exceptions are put behind the others.                   *)
UpdateTotalRecordsMixed(data) ==
  /\ TotalCarRecordList' = Capped(data \o TotalCarRecordList)
  /\ TotalCarExceptionsRecordList' =
       Capped(TotalCarExceptionsRecordList \o Exceptions(data))
  /\ delivered' = delivered \cup ToSet(data)

UpdateTotalRecords(data) ==
  /\ TotalCarRecordList' = Capped(data \o TotalCarRecordList)
  /\ TotalCarExceptionsRecordList' =
       Capped(Exceptions(data) \o TotalCarExceptionsRecordList)
  /\ delivered' = delivered \cup ToSet(data)

(* A list that was dropped while the request was under way comes back.     *)
UpdateSingleRecords(s, data) ==
  /\ SingleCarRecordList' =
       [SingleCarRecordList EXCEPT ![s] = Capped(data \o @)]
  /\ mapOrder' = WithKey(mapOrder, s)

Answer(k) ==
  \E i \in 1 .. Len(req[k]) :
    LET q == req[k][i] IN
    /\ q.stage = "read"
    /\ req' = [req EXCEPT ![k] = RemoveAt(@, i)]
    /\ IF k = "total" THEN UpdateTotalRecords(q.data) ELSE UNCHANGED totalVars
    /\ IF k = "single" THEN UpdateSingleRecords(q.stream, q.data) ELSE UNCHANGED mapVars
    /\ TotalCarExceptionsCount' =
         IF k = "exceptions" THEN q.count ELSE TotalCarExceptionsCount
    /\ UNCHANGED <<serverVars, pageVars>>

(* A request that fails, or that axios gives up, changes nothing.          *)
Fail(k) ==
  \E i \in 1 .. Len(req[k]) :
    /\ req' = [req EXCEPT ![k] = RemoveAt(@, i)]
    /\ UNCHANGED <<serverVars, totalVars, mapVars, pageVars,
                   TotalCarExceptionsCount>>

-----------------------------------------------------------------------------

Next ==
  \/ Tick \/ Stamp
  \/ \E r \in pending : Insert(r)
  \/ VideoListLoaded
  \/ \E s \in Streams : SetActiveStream(s)
  \/ Update
  \/ \E k \in Kind : Read(k) \/ Answer(k) \/ Fail(k)

Spec == Init /\ [][Next]_vars

(* setInterval fires for ever, however many requests the mouse has under   *)
(* way, and axios gives every request up in the end.  That the server does *)
(* not fail them all is assumed: what is asked again and again is read and *)
(* answered again and again.  Detections, their insertion and the mouse    *)
(* are not promised.                                                       *)
Fairness ==
  /\ SF_vars(Update)
  /\ \A k \in Kinds : /\ SF_vars(Read(k)) /\ SF_vars(Answer(k))
                       /\ WF_vars(Answer(k) \/ Fail(k))

FairSpec == Spec /\ Fairness

-----------------------------------------------------------------------------
(* Properties.                                                             *)

(* state.ts:9 says of the lists that the newest record is at the head.     *)
NewestFirst ==
  \A i, j \in 1 .. Len(TotalCarRecordList) :
    i < j => TotalCarRecordList[i].time >= TotalCarRecordList[j].time

(* A poll goes on from the head of the list, whatever answers overtook one *)
(* another in between: no record is passed over that was in the table      *)
(* before every later one.  (One that was not may be lost for good.)       *)
NoneSkipped ==
  \A r \in inOrder :
    (\E i \in 1 .. Len(TotalCarRecordList) : TotalCarRecordList[i].time > r.time)
      => r \in delivered

(* What VideoInfo shows is what the filter of the whole list would show,   *)
(* and goes on beyond its end: the two caps cut the lists independently.   *)
ExceptionsAgree ==
  IsPrefix(Exceptions(TotalCarRecordList), TotalCarExceptionsRecordList)

(* The bound is inclusive, so every poll brings the head again: when no    *)
(* record is added the copies of the newest push all others out of the     *)
(* list.                                                                   *)
OnlyNewest ==
  \A i \in 1 .. Len(TotalCarRecordList), r \in db : TotalCarRecordList[i].time >= r.time

OnlyNewestRemain == (<>updating) => <>[]OnlyNewest

(* With more streams than the map may hold the cleanup drops the stream    *)
(* that is being looked at, too, when its list is among the oldest: the    *)
(* next poll gives it one again.                                           *)
ActiveHeld ==
  (updating /\ ActiveStream \notin ToSet(mapOrder)) ~> ActiveStream \in ToSet(mapOrder)

(* The count on the flop is today's number of exceptions in the end, even  *)
(* if answers overtook one another.                                        *)
CountSettles ==
  (<>updating) =>
    <>[](TotalCarExceptionsCount = Cardinality({r \in db : IsException(r)}))
=============================================================================
