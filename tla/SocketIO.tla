------------------------------ MODULE SocketIO ------------------------------
(***************************************************************************)
(* The push channel of the server: server/core/my_socketio, as the frames  *)
(* socket of server/socketServer uses it.                                  *)
(*                                                                         *)
(* Every websocket gets three goroutines (heartbeat, readPump, sendPump)   *)
(* that share the connection, the mutex sendMu, the channels send and      *)
(* closed and the one-shot Close.  Publishers are frame extractions of     *)
(* the stream a room is named after; each numbers its own frames and       *)
(* broadcasts them to the members, reading the room table and the member   *)
(* map without a lock.  At this commit no extraction is started, the one   *)
(* call of HandleStreamWithMSE (go2rtc's ws.go:44) being commented out;    *)
(* that call starts one for every MSE viewer of the stream, so a room may  *)
(* have several publishers.                                                *)
(***************************************************************************)
EXTENDS Naturals, Sequences, FiniteSets

CONSTANTS
  Clients,    \* the websocket connections that may ever be opened
  Rooms,      \* the room names, which are the stream names
  Publishers, \* the frame extractions that publish
  RoomOf,     \* the room a publisher publishes to
  NoRoom,     \* the zero value of Client.roomID
  NoClient,   \* no emit under way
  NoMessage,  \* sendPump holds no message
  Name,       \* Client.Name, the query parameter: the room to join
  SendCap,    \* capacity of Client.send (1024 in the code)
  MaxReads,   \* failed reads gorilla tolerates before it panics (1000)
  FrameBound, \* bound: how many frames the publishers may have published
  MayFail     \* bound: the clients whose peer may stall, leave or reset

ASSUME SocketAssumption ==
  /\ NoRoom \notin Rooms
  /\ NoClient \notin Clients
  /\ Name \in [Clients -> Rooms]
  /\ RoomOf \in [Publishers -> Rooms]
  /\ NoMessage \notin [by : Publishers, frame : Nat]
  /\ SendCap \in Nat \ {0}
  /\ MaxReads \in Nat \ {0}
  /\ FrameBound \subseteq [Publishers -> Nat]
  /\ MayFail \subseteq Clients

VARIABLES
  peer,     \* what the other end and the network do to the connection
  join,     \* the handler goroutine: Upgrade, then OnConnection -> Join
  roomID,   \* Client.roomID
  send,     \* the messages buffered in Client.send
  once,     \* how far the body of closeOnce.Do has got
  sendMu,   \* who holds Client.sendMu
  hb,       \* startHeartbeat
  armed,    \* a read deadline has been set on the connection
  rd,       \* readPump
  reads,    \* failed reads so far: gorilla keeps the first error for ever
  wr,       \* sendPump
  wmsg,     \* the message sendPump took from send
  last,     \* the last frame of each publisher written to the peer
  writes,   \* how many messages were written to it
  rooms,    \* the keys of Server.rooms
  members,  \* Room.Clients of the room object the table holds
  em,       \* a publisher: To(room).Emit, Client.Emit
  todo,     \* the members the running broadcast has still to visit
  target,   \* the client the publisher is emitting to
  fresh,    \* the publisher's room object is still the one in the table
  frame,    \* the frame being published
  crashed   \* the Go runtime aborted on a concurrent map access

peerVars  == <<peer, armed>>
tableVars == <<roomID, rooms, members, fresh>>
readVars  == <<rd, reads>>
writeVars == <<wr, wmsg, last, writes, send>>
emVars    == <<em, target, frame>>
vars == <<peerVars, tableVars, readVars, writeVars, emVars,
          join, once, sendMu, hb, todo, crashed>>

Peer      == {"none", "ok", "stalled", "left", "reset"}
JoinPc    == {"none", "exit", "add", "done"}
OnceStage == {"no", "closed", "send", "conn", "done"}
HbPc      == {"none", "wait", "write", "close", "done"}
RdPc      == {"none", "read", "close", "done"}
WrPc      == {"none", "top", "recv", "lock", "write", "close", "done"}
EmPc      == {"idle", "lookup", "iter", "send", "close"}
Message   == [by : Publishers, frame : Nat]

TypeOK ==
  /\ peer \in [Clients -> Peer]
  /\ join \in [Clients -> JoinPc]
  /\ roomID \in [Clients -> Rooms \cup {NoRoom}]
  /\ send \in [Clients -> Seq(Message)]
  /\ once \in [Clients -> OnceStage]
  /\ sendMu \in [Clients -> {"free", "hb", "wr"}]
  /\ hb \in [Clients -> HbPc]
  /\ armed \in [Clients -> BOOLEAN]
  /\ rd \in [Clients -> RdPc]
  /\ reads \in [Clients -> 0 .. MaxReads]
  /\ wr \in [Clients -> WrPc]
  /\ wmsg \in [Clients -> Message \cup {NoMessage}]
  /\ last \in [Clients -> [Publishers -> Nat]]
  /\ writes \in [Clients -> Nat]
  /\ rooms \in SUBSET Rooms
  /\ members \in [Rooms -> SUBSET Clients]
  /\ em \in [Publishers -> EmPc]
  /\ todo \in [Publishers -> SUBSET Clients]
  /\ target \in [Publishers -> Clients \cup {NoClient}]
  /\ fresh \in [Publishers -> BOOLEAN]
  /\ frame \in [Publishers -> Nat]
  /\ crashed \in BOOLEAN

Init ==
  /\ peer = [c \in Clients |-> "none"]
  /\ join = [c \in Clients |-> "none"]
  /\ roomID = [c \in Clients |-> NoRoom]
  /\ send = [c \in Clients |-> <<>>]
  /\ once = [c \in Clients |-> "no"]
  /\ sendMu = [c \in Clients |-> "free"]
  /\ hb = [c \in Clients |-> "none"]
  /\ armed = [c \in Clients |-> FALSE]
  /\ rd = [c \in Clients |-> "none"]
  /\ reads = [c \in Clients |-> 0]
  /\ wr = [c \in Clients |-> "none"]
  /\ wmsg = [c \in Clients |-> NoMessage]
  /\ last = [c \in Clients |-> [p \in Publishers |-> 0]]
  /\ writes = [c \in Clients |-> 0]
  /\ rooms = {}
  /\ members = [r \in Rooms |-> {}]
  /\ em = [p \in Publishers |-> "idle"]
  /\ todo = [p \in Publishers |-> {}]
  /\ target = [p \in Publishers |-> NoClient]
  /\ fresh = [p \in Publishers |-> FALSE]
  /\ frame = [p \in Publishers |-> 0]
  /\ crashed = FALSE

-----------------------------------------------------------------------------
(* The connection as the goroutines see it.                                *)

ClosedChan(c) == once[c] # "no"
SendClosed(c) == once[c] \in {"send", "conn", "done"}
ConnClosed(c) == once[c] \in {"conn", "done"}

(* WriteMessage fails on a connection closed here; on one the peer ended   *)
(* it may still succeed, the bytes being buffered by the kernel; on a      *)
(* stalled peer it blocks.  There is no write deadline.                    *)
WriteSucceeds(c) == ~ConnClosed(c) /\ peer[c] # "stalled"
WriteFails(c)    == ConnClosed(c) \/ peer[c] \in {"left", "reset"}

(* The heartbeat renews the read deadline (10 s) every 5 s, unless it has  *)
(* ended or waits: for sendMu, which a blocked or failed sendPump holds,   *)
(* or for its own ping.                                                    *)
HeartbeatStuck(c) ==
  \/ hb[c] = "done"
  \/ hb[c] = "write" /\ peer[c] = "stalled"
  \/ sendMu[c] = "wr" /\ (wr[c] = "write" => peer[c] = "stalled")

-----------------------------------------------------------------------------
(* The environment: the GET handler accepts a connection and starts its    *)
(* goroutines (the POST handler never gets past Upgrade, which requires    *)
(* GET); the peer stalls, ends the connection in a way ReadMessage reports *)
(* as a CloseError, or breaks it in a way it does not.                     *)

Connect(c) ==
  /\ join[c] = "none"
  /\ peer' = [peer EXCEPT ![c] = "ok"]
  /\ join' = [join EXCEPT ![c] = "exit"]
  /\ hb' = [hb EXCEPT ![c] = "wait"]
  /\ rd' = [rd EXCEPT ![c] = "read"]
  /\ wr' = [wr EXCEPT ![c] = "top"]
  /\ UNCHANGED <<armed, tableVars, reads, wmsg, last, writes, send,
                 emVars, once, sendMu, todo, crashed>>

PeerFails(c) ==
  /\ c \in MayFail
  /\ \/ peer[c] = "ok" /\ peer' = [peer EXCEPT ![c] = "stalled"]
     \/ /\ peer[c] \in {"ok", "stalled"}
        /\ \E p \in {"left", "reset"} : peer' = [peer EXCEPT ![c] = p]
  /\ UNCHANGED <<armed, tableVars, readVars, writeVars, emVars,
                 join, once, sendMu, hb, todo, crashed>>

-----------------------------------------------------------------------------
(* Join, on the handler's goroutine: ExitRoom and the registration are two *)
(* critical sections of Server.mu.                                         *)

(* Mutant: ExitRoom forgets to drop the emptied room.                      *)
ExitRoomKeeps(c) ==
  /\ members' = [r \in Rooms |-> IF r = roomID[c] THEN members[r] \ {c} ELSE members[r]]
  /\ UNCHANGED <<rooms, fresh>>

(* The body of ExitRoom, one critical section.  A room whose last client   *)
(* goes is dropped from the table; a publisher that holds it keeps an      *)
(* object that no later Join fills.                                        *)
ExitRoom(c) ==
  LET r == roomID[c] IN
  IF r \in rooms
  THEN LET empty == members[r] \subseteq {c} IN
       /\ members' = [members EXCEPT ![r] = @ \ {c}]
       /\ rooms' = IF empty THEN rooms \ {r} ELSE rooms
       /\ fresh' = [p \in Publishers |-> fresh[p] /\ ~(empty /\ RoomOf[p] = r)]
  ELSE UNCHANGED <<members, rooms, fresh>>

JoinExit(c) ==
  /\ join[c] = "exit"
  /\ ExitRoom(c)
  /\ join' = [join EXCEPT ![c] = "add"]
  /\ UNCHANGED <<peerVars, roomID, readVars, writeVars, emVars,
                 once, sendMu, hb, todo, crashed>>

(* Iterating over a Go map, an entry added meanwhile may or may not be     *)
(* visited.                                                                *)
Iterating(p) ==
  RoomOf[p] \in rooms /\ fresh[p] /\ em[p] \notin {"idle", "lookup"}

JoinAdd(c) ==
  LET r == Name[c] IN
  /\ join[c] = "add"
  /\ join' = [join EXCEPT ![c] = "done"]
  /\ roomID' = [roomID EXCEPT ![c] = r]
  /\ rooms' = rooms \cup {r}
  /\ members' = [members EXCEPT ![r] = @ \cup {c}]
  /\ \E seen \in SUBSET {p \in Publishers : RoomOf[p] = r /\ Iterating(p)} :
       todo' = [p \in Publishers |-> IF p \in seen THEN todo[p] \cup {c} ELSE todo[p]]
  /\ UNCHANGED <<peerVars, fresh, readVars, writeVars, emVars,
                 once, sendMu, hb, crashed>>

-----------------------------------------------------------------------------
(* Close.  closeOnce.Do makes the first caller run the body and the others *)
(* wait for its end, so the stage the body has reached says it all.        *)

Closing(c) ==
  \/ hb[c] = "close" \/ rd[c] = "close" \/ wr[c] = "close"
  \/ \E p \in Publishers : em[p] = "close" /\ target[p] = c

CloseStage(c, from, to) ==
  /\ Closing(c)
  /\ once[c] = from
  /\ once' = [once EXCEPT ![c] = to]
  /\ UNCHANGED <<peerVars, readVars, writeVars, emVars,
                 join, roomID, sendMu, hb, todo, crashed>>

CloseChan(c) == CloseStage(c, "no", "closed") /\ UNCHANGED <<members, rooms, fresh>>
CloseSend(c) == CloseStage(c, "closed", "send") /\ UNCHANGED <<members, rooms, fresh>>
CloseConn(c) == CloseStage(c, "send", "conn") /\ UNCHANGED <<members, rooms, fresh>>
CloseExit(c) == CloseStage(c, "conn", "done") /\ ExitRoom(c)

-----------------------------------------------------------------------------
(* startHeartbeat: it never looks at closed, only a failed ping ends it.   *)

HbLock(c) ==
  /\ hb[c] = "wait"
  /\ sendMu[c] = "free"
  /\ sendMu' = [sendMu EXCEPT ![c] = "hb"]
  /\ hb' = [hb EXCEPT ![c] = "write"]
  /\ UNCHANGED <<peerVars, tableVars, readVars, writeVars, emVars,
                 join, once, todo, crashed>>

HbPing(c) ==
  /\ hb[c] = "write"
  /\ WriteSucceeds(c)
  /\ hb' = [hb EXCEPT ![c] = "wait"]
  /\ sendMu' = [sendMu EXCEPT ![c] = "free"]
  /\ armed' = [armed EXCEPT ![c] = TRUE]
  /\ UNCHANGED <<peer, tableVars, readVars, writeVars, emVars,
                 join, once, todo, crashed>>

HbPingFails(c) ==
  /\ hb[c] = "write"
  /\ WriteFails(c)
  /\ hb' = [hb EXCEPT ![c] = "close"]
  /\ UNCHANGED <<peerVars, tableVars, readVars, writeVars, emVars,
                 join, once, sendMu, todo, crashed>>

HbReturn(c) ==
  /\ hb[c] = "close"
  /\ once[c] = "done"
  /\ hb' = [hb EXCEPT ![c] = "done"]
  /\ sendMu' = [sendMu EXCEPT ![c] = "free"]
  /\ UNCHANGED <<peerVars, tableVars, readVars, writeVars, emVars,
                 join, once, todo, crashed>>

-----------------------------------------------------------------------------
(* readPump: peers send nothing the server has a handler for, so a read    *)
(* only ever returns with an error.                                        *)

(* Mutant: readPump returns on a CloseError without the deferred Close.    *)
RdCloseErrorNoClose(c) ==
  /\ rd[c] = "read"
  /\ peer[c] = "left" /\ ~ConnClosed(c) /\ reads[c] = 0
  /\ rd' = [rd EXCEPT ![c] = "done"]
  /\ UNCHANGED <<peerVars, tableVars, reads, writeVars, emVars,
                 join, once, sendMu, hb, todo, crashed>>

(* IsUnexpectedCloseError, called without expected codes, holds of every   *)
(* CloseError: break loop, then the deferred Close.                        *)
RdCloseError(c) ==
  /\ rd[c] = "read"
  /\ peer[c] = "left" /\ ~ConnClosed(c) /\ reads[c] = 0
  /\ rd' = [rd EXCEPT ![c] = "close"]
  /\ UNCHANGED <<peerVars, tableVars, reads, writeVars, emVars,
                 join, once, sendMu, hb, todo, crashed>>

(* Mutant: the read deadline is not set.                                   *)
RdErrorNoDeadline(c) ==
  /\ rd[c] = "read"
  /\ ConnClosed(c) \/ peer[c] = "reset" \/ reads[c] > 0
  /\ IF ClosedChan(c) \/ reads[c] = MaxReads
     THEN rd' = [rd EXCEPT ![c] = "close"] /\ UNCHANGED reads
     ELSE reads' = [reads EXCEPT ![c] = @ + 1] /\ UNCHANGED rd
  /\ UNCHANGED <<peerVars, tableVars, writeVars, emVars,
                 join, once, sendMu, hb, todo, crashed>>

(* Any other error only breaks out of the select: the loop looks at closed *)
(* and reads again; gorilla returns the same error each time and panics in *)
(* the end.                                                                *)
RdError(c) ==
  /\ rd[c] = "read"
  /\ \/ ConnClosed(c) \/ peer[c] = "reset" \/ reads[c] > 0
     \/ armed[c] /\ HeartbeatStuck(c)
  /\ IF ClosedChan(c) \/ reads[c] = MaxReads
     THEN rd' = [rd EXCEPT ![c] = "close"] /\ UNCHANGED reads
     ELSE reads' = [reads EXCEPT ![c] = @ + 1] /\ UNCHANGED rd
  /\ UNCHANGED <<peerVars, tableVars, writeVars, emVars,
                 join, once, sendMu, hb, todo, crashed>>

RdReturn(c) ==
  /\ rd[c] = "close"
  /\ once[c] = "done"
  /\ rd' = [rd EXCEPT ![c] = "done"]
  /\ UNCHANGED <<peerVars, tableVars, reads, writeVars, emVars,
                 join, once, sendMu, hb, todo, crashed>>

-----------------------------------------------------------------------------
(* sendPump.  A failed write leaves the range loop with sendMu held.       *)

WrTop(c) ==
  /\ wr[c] = "top"
  /\ wr' = [wr EXCEPT ![c] = IF ClosedChan(c) THEN "close" ELSE "recv"]
  /\ UNCHANGED <<peerVars, tableVars, readVars, wmsg, last, writes, send,
                 emVars, join, once, sendMu, hb, todo, crashed>>

(* A closed channel is drained before the range ends.                      *)
WrRecv(c) ==
  /\ wr[c] = "recv"
  /\ \/ /\ send[c] # <<>>
        /\ wr' = [wr EXCEPT ![c] = "lock"]
        /\ wmsg' = [wmsg EXCEPT ![c] = Head(send[c])]
        /\ send' = [send EXCEPT ![c] = Tail(@)]
     \/ /\ send[c] = <<>> /\ SendClosed(c)
        /\ wr' = [wr EXCEPT ![c] = "top"]
        /\ UNCHANGED <<wmsg, send>>
  /\ UNCHANGED <<peerVars, tableVars, readVars, last, writes,
                 emVars, join, once, sendMu, hb, todo, crashed>>

(* Mutant: sendPump writes without waiting for the mutex.                  *)
WrLockUnguarded(c) ==
  /\ wr[c] = "lock"
  /\ sendMu' = [sendMu EXCEPT ![c] = "wr"]
  /\ wr' = [wr EXCEPT ![c] = "write"]
  /\ UNCHANGED <<peerVars, tableVars, readVars, wmsg, last, writes, send,
                 emVars, join, once, hb, todo, crashed>>

WrLock(c) ==
  /\ wr[c] = "lock"
  /\ sendMu[c] = "free"
  /\ sendMu' = [sendMu EXCEPT ![c] = "wr"]
  /\ wr' = [wr EXCEPT ![c] = "write"]
  /\ UNCHANGED <<peerVars, tableVars, readVars, wmsg, last, writes, send,
                 emVars, join, once, hb, todo, crashed>>

WrWrite(c) ==
  /\ wr[c] = "write"
  /\ WriteSucceeds(c)
  /\ last' = [last EXCEPT ![c][wmsg[c].by] = wmsg[c].frame]
  /\ writes' = [writes EXCEPT ![c] = @ + 1]
  /\ sendMu' = [sendMu EXCEPT ![c] = "free"]
  /\ wr' = [wr EXCEPT ![c] = "recv"]
  /\ wmsg' = [wmsg EXCEPT ![c] = NoMessage]
  /\ UNCHANGED <<peerVars, tableVars, readVars, send, emVars,
                 join, once, hb, todo, crashed>>

WrWriteFails(c) ==
  /\ wr[c] = "write"
  /\ WriteFails(c)
  /\ wr' = [wr EXCEPT ![c] = "top"]
  /\ wmsg' = [wmsg EXCEPT ![c] = NoMessage]
  /\ UNCHANGED <<peerVars, tableVars, readVars, last, writes, send,
                 emVars, join, once, sendMu, hb, todo, crashed>>

WrReturn(c) ==
  /\ wr[c] = "close"
  /\ once[c] = "done"
  /\ wr' = [wr EXCEPT ![c] = "done"]
  /\ UNCHANGED <<peerVars, tableVars, readVars, wmsg, last, writes, send,
                 emVars, join, once, sendMu, hb, todo, crashed>>

-----------------------------------------------------------------------------
(* A publisher: io.To(room).Emit(frame), without Server.mu.                *)

FrameReady(p) ==
  /\ em[p] = "idle"
  /\ frame' = [frame EXCEPT ![p] = @ + 1]
  /\ frame' \in FrameBound
  /\ em' = [em EXCEPT ![p] = "lookup"]
  /\ UNCHANGED <<peerVars, tableVars, readVars, writeVars, target,
                 join, once, sendMu, hb, todo, crashed>>

To(p) ==
  /\ em[p] = "lookup"
  /\ em' = [em EXCEPT ![p] = "iter"]
  /\ todo' = [todo EXCEPT ![p] = members[RoomOf[p]]]
  /\ fresh' = [fresh EXCEPT ![p] = RoomOf[p] \in rooms]
  /\ UNCHANGED <<peerVars, roomID, rooms, members, readVars, writeVars,
                 target, frame, join, once, sendMu, hb, crashed>>

(* The next member still in the map, whose Client.Emit looks at closed     *)
(* first; or the end of the iteration.                                     *)
RoomEmit(p) ==
  /\ em[p] = "iter"
  /\ \/ /\ fresh[p]
        /\ \E c \in todo[p] \cap members[RoomOf[p]] :
             /\ todo' = [todo EXCEPT ![p] = @ \ {c}]
             /\ IF ClosedChan(c)
                THEN UNCHANGED <<em, target>>
                ELSE /\ em' = [em EXCEPT ![p] = "send"]
                     /\ target' = [target EXCEPT ![p] = c]
     \/ /\ fresh[p] => todo[p] \cap members[RoomOf[p]] = {}
        /\ em' = [em EXCEPT ![p] = "idle"]
        /\ todo' = [todo EXCEPT ![p] = {}]
        /\ UNCHANGED target
  /\ UNCHANGED <<peerVars, tableVars, readVars, writeVars, frame,
                 join, once, sendMu, hb, crashed>>

(* Mutant: the broadcast takes the client it just served for unvisited.    *)
EmitSendAgain(p) ==
  LET c == target[p] IN
  /\ em[p] = "send"
  /\ ~SendClosed(c)
  /\ Len(send[c]) < SendCap
  /\ send' = [send EXCEPT ![c] = Append(@, [by |-> p, frame |-> frame[p]])]
  /\ em' = [em EXCEPT ![p] = "iter"]
  /\ target' = [target EXCEPT ![p] = NoClient]
  /\ todo' = [todo EXCEPT ![p] = @ \cup {c}]
  /\ UNCHANGED <<peerVars, tableVars, readVars, wr, wmsg, last, writes, frame,
                 join, once, sendMu, hb, crashed>>

(* It then sends, blocking while the channel is full.                      *)
EmitSend(p) ==
  LET c == target[p] IN
  /\ em[p] = "send"
  /\ ~SendClosed(c)
  /\ Len(send[c]) < SendCap
  /\ send' = [send EXCEPT ![c] = Append(@, [by |-> p, frame |-> frame[p]])]
  /\ em' = [em EXCEPT ![p] = "iter"]
  /\ target' = [target EXCEPT ![p] = NoClient]
  /\ UNCHANGED <<peerVars, tableVars, readVars, wr, wmsg, last, writes, frame,
                 join, once, sendMu, hb, todo, crashed>>

(* A send on the closed channel panics: recovered, then Close.             *)
EmitPanic(p) ==
  /\ em[p] = "send"
  /\ SendClosed(target[p])
  /\ em' = [em EXCEPT ![p] = "close"]
  /\ UNCHANGED <<peerVars, tableVars, readVars, writeVars, target, frame,
                 join, once, sendMu, hb, todo, crashed>>

EmitReturn(p) ==
  /\ em[p] = "close"
  /\ once[target[p]] = "done"
  /\ em' = [em EXCEPT ![p] = "iter"]
  /\ target' = [target EXCEPT ![p] = NoClient]
  /\ UNCHANGED <<peerVars, tableVars, readVars, writeVars, frame,
                 join, once, sendMu, hb, todo, crashed>>

-----------------------------------------------------------------------------
(* The data race on the two maps.  The runtime may catch a read or an      *)
(* iteration that overlaps a write, and then aborts the process; when it   *)
(* does not, the read sees the map before or after the write.              *)

Exiting(c) == once[c] = "conn" /\ Closing(c) /\ roomID[c] \in rooms

WritesRooms(c) ==
  \/ join[c] = "add" /\ Name[c] \notin rooms
  \/ Exiting(c) /\ members[roomID[c]] \subseteq {c}

WritesClients(c, r) ==
  \/ join[c] = "add" /\ Name[c] = r
  \/ Exiting(c) /\ roomID[c] = r

ConcurrentMapFault(p) ==
  /\ \E c \in Clients : \/ em[p] = "lookup" /\ WritesRooms(c)
                        \/ em[p] = "iter" /\ fresh[p] /\ WritesClients(c, RoomOf[p])
  /\ crashed' = TRUE
  /\ UNCHANGED <<peerVars, tableVars, readVars, writeVars, emVars,
                 join, once, sendMu, hb, todo>>

-----------------------------------------------------------------------------

Join(c)      == JoinExit(c) \/ JoinAdd(c)
Close(c)     == CloseChan(c) \/ CloseSend(c) \/ CloseConn(c) \/ CloseExit(c)
Heartbeat(c) == HbPing(c) \/ HbPingFails(c) \/ HbReturn(c)
ReadPump(c)  == RdCloseError(c) \/ RdError(c) \/ RdReturn(c)
SendPump(c)  == WrTop(c) \/ WrRecv(c) \/ WrWrite(c) \/ WrWriteFails(c) \/ WrReturn(c)
Publisher(p) == To(p) \/ RoomEmit(p) \/ EmitSend(p)
                  \/ EmitPanic(p) \/ EmitReturn(p)

Next ==
  /\ ~crashed
  /\ \/ \E c \in Clients :
          \/ Connect(c) \/ PeerFails(c)
          \/ Join(c) \/ Close(c) \/ Heartbeat(c) \/ HbLock(c)
          \/ ReadPump(c) \/ SendPump(c) \/ WrLock(c)
     \/ \E p \in Publishers : FrameReady(p) \/ Publisher(p) \/ ConcurrentMapFault(p)

(* The Go scheduler runs every goroutine that can run, and sync.Mutex      *)
(* hands the lock to a waiter after 1 ms.  Connections, failures, frames   *)
(* and the runtime's detection of a race are not promised.                 *)
Fairness ==
  /\ \A c \in Clients :
       /\ WF_vars(~crashed /\ Join(c))
       /\ WF_vars(~crashed /\ Close(c))
       /\ WF_vars(~crashed /\ Heartbeat(c))
       /\ SF_vars(~crashed /\ HbLock(c))
       /\ WF_vars(~crashed /\ ReadPump(c))
       /\ WF_vars(~crashed /\ SendPump(c))
       /\ SF_vars(~crashed /\ WrLock(c))
  /\ \A p \in Publishers : WF_vars(~crashed /\ Publisher(p))

Spec == Init /\ [][Next]_vars
FairSpec == Spec /\ Fairness

-----------------------------------------------------------------------------
(* Properties.                                                             *)

(* sendMu is what keeps the heartbeat and sendPump from writing to one     *)
(* connection at once, which gorilla does not allow (client.go:88); the    *)
(* failed write that keeps the mutex must not break that.                  *)
OneWriter == \A c \in Clients : ~(hb[c] = "write" /\ wr[c] = "write")

LockInv ==
  \A c \in Clients : /\ hb[c] \in {"write", "close"} => sendMu[c] = "hb"
                     /\ wr[c] = "write" => sendMu[c] = "wr"

(* Server.rooms keeps no empty room, and a client is listed only in the    *)
(* room its roomID names, the one Close will take it out of, whatever the  *)
(* interleaving of Join, Close and other clients of the room.              *)
RoomTable ==
  /\ \A r \in Rooms : r \in rooms <=> members[r] # {}
  /\ \A r \in Rooms : \A c \in members[r] : roomID[c] = r

(* Every member sees the frames of each publisher of its room in the order *)
(* of publication, none twice, though full channels, closes and joins      *)
(* interrupt the broadcasts: the abstract feed, with frame as what is      *)
(* published, last and writes as what the peer was shown and how often.    *)
(* Nothing is promised between two publishers of one room: their frames    *)
(* come interleaved, whatever the times they were taken at.                *)
Feed == INSTANCE FrameFeed WITH
  Viewers <- Clients, Feeds <- Publishers, Stream <- Name, StreamOf <- RoomOf,
  published <- frame, shown <- last, count <- writes

ImplementsFeed == Feed!FeedSpec

(* sendPump starts with the connection and holds a message exactly while   *)
(* it waits to write it.                                                   *)
Holding ==
  \A c \in Clients : /\ wmsg[c] # NoMessage <=> wr[c] \in {"lock", "write"}
                     /\ join[c] = "none" => wr[c] = "none"

(* Why it holds: a publisher's frames on their way to a client are in      *)
(* order, newer than the last of them it was shown, and older than the     *)
(* frame being published as long as the running broadcast may still come   *)
(* to it.                                                                  *)
Held(c, p) ==
  IF wmsg[c] # NoMessage /\ wmsg[c].by = p THEN wmsg[c].frame ELSE 0

MayBeVisited(c, p) ==
  /\ RoomOf[p] = Name[c]
  /\ \/ em[p] = "lookup"
     \/ em[p] \in {"iter", "send", "close"} /\ (c \in todo[p] \/ join[c] # "done")
     \/ em[p] = "send" /\ target[p] = c

QueueOrder(c, p) ==
  /\ \A i \in 1 .. Len(send[c]) : send[c][i].by = p =>
       /\ Held(c, p) < send[c][i].frame /\ last[c][p] < send[c][i].frame
       /\ send[c][i].frame <= frame[p]
  /\ \A i, j \in 1 .. Len(send[c]) :
       i < j /\ send[c][i].by = p /\ send[c][j].by = p => send[c][i].frame < send[c][j].frame
  /\ wmsg[c] # NoMessage /\ wmsg[c].by = p => last[c][p] < Held(c, p)
  /\ Held(c, p) <= frame[p] /\ last[c][p] <= frame[p]

NotYetSent(c, p) ==
  MayBeVisited(c, p) =>
    /\ last[c][p] < frame[p] /\ Held(c, p) < frame[p]
    /\ \A i \in 1 .. Len(send[c]) : send[c][i].by = p => send[c][i].frame < frame[p]

OnlyItsRoom(c) ==
  /\ \A r \in Rooms : c \in members[r] => r = Name[c]
  /\ \A p \in Publishers :
       /\ c \in todo[p] \/ target[p] = c => RoomOf[p] = Name[c]
       /\ target[p] = c => c \notin todo[p]
  /\ \A i \in 1 .. Len(send[c]) : RoomOf[send[c][i].by] = Name[c]
  /\ wmsg[c] # NoMessage => RoomOf[wmsg[c].by] = Name[c]

NotBeforeJoin(c) ==
  join[c] # "done" =>
    /\ send[c] = <<>> /\ wmsg[c] = NoMessage
    /\ \A p \in Publishers : last[c][p] = 0 /\ c \notin todo[p] /\ target[p] # c
    /\ \A r \in Rooms : c \notin members[r]

FeedInv ==
  /\ \A c \in Clients, p \in Publishers : QueueOrder(c, p) /\ NotYetSent(c, p)
  /\ \A c \in Clients : OnlyItsRoom(c) /\ NotBeforeJoin(c)
  /\ \A p \in Publishers : em[p] \in {"send", "close"} <=> target[p] \in Clients

(* A peer that ended or broke the connection leaves its room, even when    *)
(* sendPump has locked itself and the heartbeat out; unless Close had run  *)
(* before Join registered the client, which then stays for ever.           *)
FailedPeerLeaves ==
  \A c \in Clients :
    (join[c] = "done" /\ once[c] # "done" /\ peer[c] \in {"left", "reset"})
      ~> (crashed \/ \A r \in Rooms : c \notin members[r])

(* A full channel holds the whole broadcast up, but not for ever: if one   *)
(* heartbeat had got through, its read deadline closes the client.         *)
EmitterReleased ==
  \A p \in Publishers, c \in Clients :
    (em[p] = "send" /\ target[p] = c /\ armed[c])
      ~> (crashed \/ em[p] # "send" \/ target[p] # c)

(* client.go:92 says of a failed write that sendPump checks for closed     *)
(* again and otherwise loops until it panics: either way it returns.       *)
WriteFailed(c) == sendMu[c] = "wr" /\ wr[c] \in {"top", "recv", "lock"}

SendPumpReturns ==
  \A c \in Clients : WriteFailed(c) ~> (crashed \/ wr[c] \in {"close", "done"})
=============================================================================
