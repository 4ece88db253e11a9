--------------------------- MODULE SocketIO_proofs --------------------------
(* What holds of SocketIO for any number of clients, rooms and frames and  *)
(* any channel capacity.                                                   *)
EXTENDS SocketIO, TLAPS

(* ExitRoom leaves the table with rooms and clients that exist.            *)
LEMMA ExitRoomType ==
  ASSUME TypeOK, NEW c \in Clients, ExitRoom(c)
  PROVE  /\ members' \in [Rooms -> SUBSET Clients]
         /\ rooms' \in SUBSET Rooms
         /\ fresh' \in [Publishers -> BOOLEAN]
<1>1. CASE roomID[c] \in rooms
  <2>1. members[roomID[c]] \ {c} \in SUBSET Clients
    BY <1>1 DEF TypeOK
  <2>2. members' \in [Rooms -> SUBSET Clients]
    BY <1>1, <2>1 DEF TypeOK, ExitRoom
  <2>3. QED
    BY <1>1, <2>2 DEF TypeOK, ExitRoom
<1>2. CASE roomID[c] \notin rooms
  BY <1>2 DEF TypeOK, ExitRoom
<1>3. QED
  BY <1>1, <1>2

(* Taking a message from send leaves a sequence of messages.               *)
LEMMA WrRecvType ==
  ASSUME TypeOK, NEW c \in Clients, WrRecv(c)
  PROVE  wmsg' \in [Clients -> Message \cup {NoMessage}] /\ send' \in [Clients -> Seq(Message)]
<1>1. CASE send[c] # <<>>
  <2>1. Head(send[c]) \in Message /\ Tail(send[c]) \in Seq(Message)
    BY <1>1 DEF TypeOK
  <2>2. /\ wmsg' = [wmsg EXCEPT ![c] = Head(send[c])]
        /\ send' = [send EXCEPT ![c] = Tail(send[c])]
    BY <1>1 DEF WrRecv
  <2>3. QED
    BY <2>1, <2>2 DEF TypeOK
<1>2. CASE send[c] = <<>>
  BY <1>2 DEF TypeOK, WrRecv
<1>3. QED
  BY <1>1, <1>2

(* A broadcast only visits clients.                                        *)
LEMMA RoomEmitType ==
  ASSUME TypeOK, NEW p \in Publishers, RoomEmit(p)
  PROVE  /\ todo' \in [Publishers -> SUBSET Clients]
         /\ target' \in [Publishers -> Clients \cup {NoClient}]
<1>1. CASE UNCHANGED target /\ todo' = [todo EXCEPT ![p] = {}]
  BY <1>1 DEF TypeOK
<1>2. ASSUME NEW c \in todo[p], todo' = [todo EXCEPT ![p] = @ \ {c}],
             target' \in {target, [target EXCEPT ![p] = c]}
      PROVE  /\ todo' \in [Publishers -> SUBSET Clients]
             /\ target' \in [Publishers -> Clients \cup {NoClient}]
  <2>1. todo[p] \in SUBSET Clients /\ c \in Clients
    BY DEF TypeOK
  <2>2. todo[p] \ {c} \in SUBSET Clients
    BY <2>1
  <2>3. QED
    BY <1>2, <2>1, <2>2 DEF TypeOK
<1>3. QED
  BY <1>1, <1>2 DEF RoomEmit, TypeOK

(* Only sendPump takes a message up and lays it down.                      *)
LEMMA HoldingStep ==
  ASSUME TypeOK, Holding, [Next]_vars
  PROVE  Holding'
<1>1. ASSUME NEW c \in Clients, WrRecv(c) PROVE Holding'
  <2>1. CASE send[c] # <<>>
    <3>1. Head(send[c]) \in Message
      BY <2>1 DEF TypeOK
    <3>2. NoMessage \notin Message
      BY SocketAssumption DEF Message
    <3>3. QED
      BY <1>1, <2>1, <3>1, <3>2 DEF TypeOK, Holding, WrRecv
  <2>2. CASE send[c] = <<>>
    BY <1>1, <2>2 DEF TypeOK, Holding, WrRecv
  <2>3. QED
    BY <2>1, <2>2
<1>2. ASSUME NEW c \in Clients,
             Connect(c) \/ WrTop(c) \/ WrLock(c) \/ WrWrite(c) \/ WrWriteFails(c)
             \/ WrReturn(c)
      PROVE  Holding'
  BY <1>2 DEF TypeOK, Holding, Connect, WrTop, WrLock, WrWrite, WrWriteFails, WrReturn,
     JoinPc
<1>3. ASSUME NEW c \in Clients,
             PeerFails(c) \/ Join(c) \/ Close(c) \/ Heartbeat(c) \/ HbLock(c)
             \/ ReadPump(c)
      PROVE  /\ UNCHANGED <<wr, wmsg>>
             /\ \A d \in Clients : join'[d] = "none" => join[d] = "none"
  BY <1>3 DEF PeerFails, Join, JoinExit, JoinAdd, Close, CloseChan, CloseSend,
     CloseConn, CloseExit, CloseStage, Heartbeat, HbPing, HbPingFails, HbReturn,
     HbLock, ReadPump, RdCloseError, RdError, RdReturn, writeVars, TypeOK
<1>4. ASSUME NEW p \in Publishers,
             FrameReady(p) \/ Publisher(p) \/ ConcurrentMapFault(p)
      PROVE  UNCHANGED <<wr, wmsg, join>>
  BY <1>4 DEF FrameReady, Publisher, To, RoomEmit, EmitSend, EmitPanic, EmitReturn,
     ConcurrentMapFault, writeVars
<1>5. UNCHANGED vars => UNCHANGED <<wr, wmsg, join>>
  BY DEF vars, writeVars
<1>6. QED
  BY <1>1, <1>2, <1>3, <1>4, <1>5 DEF Next, SendPump, Holding

(* The variables of the connections, pumps, rooms and publishers only take *)
(* the values the code gives them; in particular the table and the member  *)
(* maps only hold rooms and clients that exist.                            *)
THEOREM TypeCorrect == Spec => [](TypeOK /\ Holding)
<1>1. Init => TypeOK
  <2> SUFFICES ASSUME Init PROVE TypeOK
    OBVIOUS
  <2>1. /\ peer \in [Clients -> Peer]
       /\ armed \in [Clients -> BOOLEAN]
       /\ join \in [Clients -> JoinPc]
       /\ once \in [Clients -> OnceStage]
    BY SocketAssumption DEF Init, Peer, JoinPc, OnceStage
  <2>2. /\ roomID \in [Clients -> Rooms \cup {NoRoom}]
       /\ members \in [Rooms -> SUBSET Clients]
       /\ todo \in [Publishers -> SUBSET Clients]
       /\ target \in [Publishers -> Clients \cup {NoClient}]
    BY SocketAssumption DEF Init
  <2>3. /\ hb \in [Clients -> HbPc]
       /\ rd \in [Clients -> RdPc]
       /\ reads \in [Clients -> 0 .. MaxReads]
       /\ sendMu \in [Clients -> {"free", "hb", "wr"}]
    BY SocketAssumption DEF Init, HbPc, RdPc
  <2>4. /\ wr \in [Clients -> WrPc]
       /\ wmsg \in [Clients -> Message \cup {NoMessage}]
       /\ last \in [Clients -> [Publishers -> Nat]]
       /\ writes \in [Clients -> Nat]
       /\ send \in [Clients -> Seq(Message)]
    BY SocketAssumption DEF Init, WrPc
  <2>5. /\ em \in [Publishers -> EmPc]
       /\ fresh \in [Publishers -> BOOLEAN]
       /\ frame \in [Publishers -> Nat]
    BY SocketAssumption DEF Init, EmPc
  <2>6. QED
    BY <2>1, <2>2, <2>3, <2>4, <2>5 DEF Init, TypeOK
<1>2. TypeOK /\ Holding /\ [Next]_vars => TypeOK'
  <2> SUFFICES ASSUME TypeOK, Holding, [Next]_vars PROVE TypeOK'
    OBVIOUS
  <2>1. ASSUME NEW c \in Clients, Connect(c) PROVE TypeOK'
    <3>1. /\ peer' \in [Clients -> Peer]
          /\ join' \in [Clients -> JoinPc]
      BY <2>1 DEF TypeOK, Connect, Peer, JoinPc
    <3>2. /\ hb' \in [Clients -> HbPc]
          /\ rd' \in [Clients -> RdPc]
          /\ wr' \in [Clients -> WrPc]
      BY <2>1 DEF TypeOK, Connect, HbPc, RdPc, WrPc
    <3>3. QED
      BY <2>1, <3>1, <3>2 DEF TypeOK, Connect, peerVars, tableVars, readVars,
         writeVars, emVars
  <2>2. ASSUME NEW c \in Clients, PeerFails(c) PROVE TypeOK'
    <3>1. peer' \in [Clients -> Peer]
      <4>1. peer \in [Clients -> Peer]
        BY DEF TypeOK
      <4>2. QED
        BY <2>2, <4>1 DEF PeerFails, Peer
    <3>2. QED
      BY <2>2, <3>1 DEF TypeOK, PeerFails, peerVars, tableVars, readVars,
         writeVars, emVars
  <2>3. ASSUME NEW c \in Clients, JoinExit(c) PROVE TypeOK'
    <3>1. join' \in [Clients -> JoinPc]
      BY <2>3 DEF TypeOK, JoinExit, JoinPc
    <3>2. members' \in [Rooms -> SUBSET Clients] /\ rooms' \in SUBSET Rooms
             /\ fresh' \in [Publishers -> BOOLEAN]
      BY <2>3, ExitRoomType DEF JoinExit
    <3>3. QED
      BY <2>3, <3>1, <3>2 DEF TypeOK, JoinExit, peerVars, tableVars,
         readVars, writeVars, emVars
  <2>4. ASSUME NEW c \in Clients, JoinAdd(c) PROVE TypeOK'
    <3>1. /\ join' \in [Clients -> JoinPc]
          /\ roomID' \in [Clients -> Rooms \cup {NoRoom}]
      BY <2>4, SocketAssumption DEF TypeOK, JoinAdd, JoinPc
    <3>2. /\ Name[c] \in Rooms
          /\ members[Name[c]] \cup {c} \in SUBSET Clients
      BY SocketAssumption DEF TypeOK
    <3>3. rooms' \in SUBSET Rooms
      BY <2>4, <3>2 DEF TypeOK, JoinAdd
    <3>4. /\ members' \in [Rooms -> SUBSET Clients]
          /\ todo' \in [Publishers -> SUBSET Clients]
      <4>1. members \in [Rooms -> SUBSET Clients] /\ todo \in [Publishers -> SUBSET Clients]
        BY DEF TypeOK
      <4>2. members' = [members EXCEPT ![Name[c]] = @ \cup {c}]
        BY <2>4 DEF JoinAdd
      <4>3. PICK seen : todo' = [p \in Publishers |->
                                   IF p \in seen THEN todo[p] \cup {c} ELSE todo[p]]
        BY <2>4 DEF JoinAdd
      <4>4. QED
        BY <3>2, <4>1, <4>2, <4>3
    <3>5. QED
      BY <2>4, <3>1, <3>2, <3>3, <3>4 DEF TypeOK, JoinAdd, peerVars,
         tableVars, readVars, writeVars, emVars
  <2>5. ASSUME NEW c \in Clients, CloseChan(c) PROVE TypeOK'
    <3>1. once' \in [Clients -> OnceStage]
      BY <2>5 DEF TypeOK, CloseChan, CloseStage, OnceStage
    <3>2. QED
      BY <2>5, <3>1 DEF TypeOK, CloseChan, CloseStage, peerVars, tableVars,
         readVars, writeVars, emVars
  <2>6. ASSUME NEW c \in Clients, CloseSend(c) PROVE TypeOK'
    <3>1. once' \in [Clients -> OnceStage]
      BY <2>6 DEF TypeOK, CloseSend, CloseStage, OnceStage
    <3>2. QED
      BY <2>6, <3>1 DEF TypeOK, CloseSend, CloseStage, peerVars, tableVars,
         readVars, writeVars, emVars
  <2>7. ASSUME NEW c \in Clients, CloseConn(c) PROVE TypeOK'
    <3>1. once' \in [Clients -> OnceStage]
      BY <2>7 DEF TypeOK, CloseConn, CloseStage, OnceStage
    <3>2. QED
      BY <2>7, <3>1 DEF TypeOK, CloseConn, CloseStage, peerVars, tableVars,
         readVars, writeVars, emVars
  <2>8. ASSUME NEW c \in Clients, CloseExit(c) PROVE TypeOK'
    <3>1. once' \in [Clients -> OnceStage]
      BY <2>8 DEF TypeOK, CloseExit, CloseStage, OnceStage
    <3>2. members' \in [Rooms -> SUBSET Clients] /\ rooms' \in SUBSET Rooms
             /\ fresh' \in [Publishers -> BOOLEAN]
      BY <2>8, ExitRoomType DEF CloseExit
    <3>3. QED
      BY <2>8, <3>1, <3>2 DEF TypeOK, CloseExit, CloseStage, peerVars,
         tableVars, readVars, writeVars, emVars
  <2>9. ASSUME NEW c \in Clients, HbLock(c) PROVE TypeOK'
    <3>1. /\ hb' \in [Clients -> HbPc]
          /\ sendMu' \in [Clients -> {"free", "hb", "wr"}]
      BY <2>9 DEF TypeOK, HbLock, writeVars, HbPc
    <3>2. QED
      BY <2>9, <3>1 DEF TypeOK, HbLock, peerVars, tableVars, readVars,
         writeVars, emVars
  <2>10. ASSUME NEW c \in Clients, HbPing(c) PROVE TypeOK'
    <3>1. /\ hb' \in [Clients -> HbPc]
          /\ sendMu' \in [Clients -> {"free", "hb", "wr"}]
          /\ armed' \in [Clients -> BOOLEAN]
      BY <2>10 DEF TypeOK, HbPing, writeVars, HbPc
    <3>2. QED
      BY <2>10, <3>1 DEF TypeOK, HbPing, peerVars, tableVars, readVars,
         writeVars, emVars
  <2>11. ASSUME NEW c \in Clients, HbPingFails(c) PROVE TypeOK'
    <3>1. hb' \in [Clients -> HbPc]
      BY <2>11 DEF TypeOK, HbPingFails, HbPc
    <3>2. QED
      BY <2>11, <3>1 DEF TypeOK, HbPingFails, peerVars, tableVars, readVars,
         writeVars, emVars
  <2>12. ASSUME NEW c \in Clients, HbReturn(c) PROVE TypeOK'
    <3>1. /\ hb' \in [Clients -> HbPc]
          /\ sendMu' \in [Clients -> {"free", "hb", "wr"}]
      BY <2>12 DEF TypeOK, HbReturn, writeVars, HbPc
    <3>2. QED
      BY <2>12, <3>1 DEF TypeOK, HbReturn, peerVars, tableVars, readVars,
         writeVars, emVars
  <2>13. ASSUME NEW c \in Clients, RdCloseError(c) PROVE TypeOK'
    <3>1. rd' \in [Clients -> RdPc]
      BY <2>13 DEF TypeOK, RdCloseError, RdPc
    <3>2. QED
      BY <2>13, <3>1 DEF TypeOK, RdCloseError, peerVars, tableVars, readVars,
         writeVars, emVars
  <2>14. ASSUME NEW c \in Clients, RdError(c) PROVE TypeOK'
    <3>1. rd' \in [Clients -> RdPc]
      <4>1. rd \in [Clients -> RdPc]
        BY DEF TypeOK
      <4>2. QED
        BY <2>14, <4>1 DEF RdError, RdPc
    <3>2. reads' \in [Clients -> 0 .. MaxReads]
      <4>1. reads \in [Clients -> 0 .. MaxReads] /\ MaxReads \in Nat
        BY SocketAssumption DEF TypeOK
      <4>2. \/ UNCHANGED reads
            \/ reads[c] # MaxReads /\ reads' = [reads EXCEPT ![c] = @ + 1]
        BY <2>14 DEF RdError
      <4>3. QED
        BY <4>1, <4>2
    <3>3. QED
      BY <2>14, <3>1, <3>2 DEF TypeOK, RdError, peerVars, tableVars,
         readVars, writeVars, emVars
  <2>15. ASSUME NEW c \in Clients, RdReturn(c) PROVE TypeOK'
    <3>1. rd' \in [Clients -> RdPc]
      BY <2>15 DEF TypeOK, RdReturn, RdPc
    <3>2. QED
      BY <2>15, <3>1 DEF TypeOK, RdReturn, peerVars, tableVars, readVars,
         writeVars, emVars
  <2>16. ASSUME NEW c \in Clients, WrTop(c) PROVE TypeOK'
    <3>1. wr' \in [Clients -> WrPc]
      BY <2>16 DEF TypeOK, WrTop, WrPc
    <3>2. QED
      BY <2>16, <3>1 DEF TypeOK, WrTop, peerVars, tableVars, readVars,
         writeVars, emVars
  <2>17. ASSUME NEW c \in Clients, WrRecv(c) PROVE TypeOK'
    <3>1. wr' \in [Clients -> WrPc]
      <4>1. wr \in [Clients -> WrPc]
        BY DEF TypeOK
      <4>2. QED
        BY <2>17, <4>1 DEF WrRecv, WrPc
    <3>2. /\ wmsg' \in [Clients -> Message \cup {NoMessage}]
          /\ send' \in [Clients -> Seq(Message)]
      BY <2>17, WrRecvType
    <3>3. QED
      BY <2>17, <3>1, <3>2 DEF TypeOK, WrRecv, peerVars, tableVars, readVars,
         writeVars, emVars
  <2>18. ASSUME NEW c \in Clients, WrLock(c) PROVE TypeOK'
    <3>1. /\ wr' \in [Clients -> WrPc]
          /\ sendMu' \in [Clients -> {"free", "hb", "wr"}]
      BY <2>18 DEF TypeOK, WrLock, writeVars, WrPc
    <3>2. QED
      BY <2>18, <3>1 DEF TypeOK, WrLock, peerVars, tableVars, readVars,
         writeVars, emVars
  <2>19. ASSUME NEW c \in Clients, WrWrite(c) PROVE TypeOK'
    <3>1. /\ wr' \in [Clients -> WrPc]
          /\ sendMu' \in [Clients -> {"free", "hb", "wr"}]
      BY <2>19, SocketAssumption DEF TypeOK, WrWrite, writeVars, WrPc
    <3>2. /\ wmsg' \in [Clients -> Message \cup {NoMessage}]
          /\ last' \in [Clients -> [Publishers -> Nat]]
          /\ writes' \in [Clients -> Nat]
      <4>1. wmsg[c] \in Message
        BY <2>19 DEF TypeOK, Holding, WrWrite
      <4>2. wmsg[c].by \in Publishers /\ wmsg[c].frame \in Nat
        BY <4>1 DEF Message
      <4>3. /\ last' = [last EXCEPT ![c][wmsg[c].by] = wmsg[c].frame]
            /\ writes' = [writes EXCEPT ![c] = @ + 1]
            /\ wmsg' = [wmsg EXCEPT ![c] = NoMessage]
        BY <2>19 DEF WrWrite
      <4>4. /\ last \in [Clients -> [Publishers -> Nat]]
            /\ writes \in [Clients -> Nat]
            /\ wmsg \in [Clients -> Message \cup {NoMessage}]
        BY DEF TypeOK
      <4>5. QED
        BY <4>2, <4>3, <4>4
    <3>3. QED
      BY <2>19, <3>1, <3>2 DEF TypeOK, WrWrite, peerVars, tableVars,
         readVars, writeVars, emVars
  <2>20. ASSUME NEW c \in Clients, WrWriteFails(c) PROVE TypeOK'
    <3>1. wr' \in [Clients -> WrPc]
      BY <2>20, SocketAssumption DEF TypeOK, WrWriteFails, WrPc
    <3>2. wmsg' \in [Clients -> Message \cup {NoMessage}]
      BY <2>20, SocketAssumption DEF TypeOK, WrWriteFails
    <3>3. QED
      BY <2>20, <3>1, <3>2 DEF TypeOK, WrWriteFails, peerVars, tableVars,
         readVars, writeVars, emVars
  <2>21. ASSUME NEW c \in Clients, WrReturn(c) PROVE TypeOK'
    <3>1. wr' \in [Clients -> WrPc]
      BY <2>21 DEF TypeOK, WrReturn, WrPc
    <3>2. QED
      BY <2>21, <3>1 DEF TypeOK, WrReturn, peerVars, tableVars, readVars,
         writeVars, emVars
  <2>22. ASSUME NEW p \in Publishers, FrameReady(p) PROVE TypeOK'
    <3>1. em' \in [Publishers -> EmPc]
      BY <2>22, SocketAssumption DEF TypeOK, FrameReady, EmPc
    <3>2. frame' \in [Publishers -> Nat]
      BY <2>22, SocketAssumption DEF TypeOK, FrameReady
    <3>3. QED
      BY <2>22, <3>1, <3>2 DEF TypeOK, FrameReady, peerVars, tableVars,
         readVars, writeVars, emVars
  <2>23. ASSUME NEW p \in Publishers, To(p) PROVE TypeOK'
    <3>1. em' \in [Publishers -> EmPc]
      BY <2>23 DEF TypeOK, To, EmPc
    <3>2. /\ todo' \in [Publishers -> SUBSET Clients]
          /\ fresh' \in [Publishers -> BOOLEAN]
      <4>1. members[RoomOf[p]] \in SUBSET Clients
        BY SocketAssumption DEF TypeOK
      <4>2. todo' \in [Publishers -> SUBSET Clients]
        BY <2>23, <4>1 DEF TypeOK, To
      <4>3. fresh' \in [Publishers -> BOOLEAN]
        <5>1. fresh \in [Publishers -> BOOLEAN] /\ (RoomOf[p] \in rooms) \in BOOLEAN
          BY DEF TypeOK
        <5>2. fresh' = [fresh EXCEPT ![p] = RoomOf[p] \in rooms]
          BY <2>23 DEF To
        <5> QED
          BY <5>1, <5>2
      <4>4. QED
        BY <4>2, <4>3
    <3>3. QED
      BY <2>23, <3>1, <3>2 DEF TypeOK, To, peerVars, tableVars, readVars,
         writeVars, emVars
  <2>24. ASSUME NEW p \in Publishers, RoomEmit(p) PROVE TypeOK'
    <3>1. em' \in [Publishers -> EmPc]
      <4>1. em \in [Publishers -> EmPc]
        BY DEF TypeOK
      <4>2. QED
        BY <2>24, <4>1 DEF RoomEmit, EmPc
    <3>2. /\ todo' \in [Publishers -> SUBSET Clients]
          /\ target' \in [Publishers -> Clients \cup {NoClient}]
      BY <2>24, RoomEmitType
    <3>3. QED
      BY <2>24, <3>1, <3>2 DEF TypeOK, RoomEmit, peerVars, tableVars,
         readVars, writeVars, emVars
  <2>25. ASSUME NEW p \in Publishers, EmitSend(p) PROVE TypeOK'
    <3>1. /\ em' \in [Publishers -> EmPc]
          /\ target' \in [Publishers -> Clients \cup {NoClient}]
      BY <2>25 DEF TypeOK, EmitSend, EmPc
    <3>2. [by |-> p, frame |-> frame[p]] \in Message
      BY DEF TypeOK, Message
    <3>3. target[p] \in Clients =>
            Append(send[target[p]], [by |-> p, frame |-> frame[p]]) \in Seq(Message)
      BY <3>2 DEF TypeOK
    <3>4. send' \in [Clients -> Seq(Message)]
      BY <2>25, <3>3 DEF TypeOK, EmitSend, writeVars
    <3>5. QED
      BY <2>25, <3>1, <3>4 DEF TypeOK, EmitSend, peerVars, tableVars,
         readVars, writeVars, emVars
  <2>26. ASSUME NEW p \in Publishers, EmitPanic(p) PROVE TypeOK'
    <3>1. em' \in [Publishers -> EmPc]
      BY <2>26 DEF TypeOK, EmitPanic, EmPc
    <3>2. QED
      BY <2>26, <3>1 DEF TypeOK, EmitPanic, peerVars, tableVars, readVars,
         writeVars, emVars
  <2>27. ASSUME NEW p \in Publishers, EmitReturn(p) PROVE TypeOK'
    <3>1. /\ em' \in [Publishers -> EmPc]
          /\ target' \in [Publishers -> Clients \cup {NoClient}]
      BY <2>27 DEF TypeOK, EmitReturn, EmPc
    <3>2. QED
      BY <2>27, <3>1 DEF TypeOK, EmitReturn, peerVars, tableVars, readVars,
         writeVars, emVars
  <2>28. ASSUME NEW p \in Publishers, ConcurrentMapFault(p) PROVE TypeOK'
    <3>1. crashed' \in BOOLEAN
      BY <2>28 DEF TypeOK, ConcurrentMapFault
    <3>2. QED
      BY <2>28, <3>1 DEF TypeOK, ConcurrentMapFault, peerVars, tableVars,
         readVars, writeVars, emVars
  <2>29. CASE UNCHANGED vars
    BY <2>29 DEF TypeOK, vars, peerVars, tableVars, readVars, writeVars, emVars
  <2>30. QED
    BY <2>1, <2>2, <2>3, <2>4, <2>5, <2>6, <2>7, <2>8, <2>9, <2>10, <2>11,
       <2>12, <2>13, <2>14, <2>15, <2>16, <2>17, <2>18, <2>19, <2>20, <2>21,
       <2>22, <2>23, <2>24, <2>25, <2>26, <2>27, <2>28, <2>29 DEF Next, Join,
       Close, Heartbeat, ReadPump, SendPump, Publisher
<1>3. Init => Holding
  BY DEF Init, Holding
<1>4. TypeOK /\ Holding /\ [Next]_vars => Holding'
  BY HoldingStep
<1>5. QED
  BY <1>1, <1>2, <1>3, <1>4, PTL DEF Spec

(* The two goroutines that write to a connection never do so at once: the  *)
(* writer is the holder of sendMu, even after a failed write has left the  *)
(* mutex with a sendPump that no longer writes.                            *)
THEOREM NoConcurrentWrite == Spec => []OneWriter
<1>1. Init => LockInv
  BY DEF Init, LockInv
<1>2. TypeOK /\ LockInv /\ [Next]_vars => LockInv'
  <2> SUFFICES ASSUME TypeOK, LockInv, [Next]_vars PROVE LockInv'
    OBVIOUS
  <2> USE DEF TypeOK, LockInv
  <2>1. ASSUME NEW c \in Clients, Connect(c) PROVE LockInv'
    BY <2>1 DEF Connect
  <2>2. ASSUME NEW c \in Clients, HbLock(c) PROVE LockInv'
    BY <2>2 DEF HbLock, writeVars
  <2>3. ASSUME NEW c \in Clients, HbPing(c) PROVE LockInv'
    BY <2>3 DEF HbPing, writeVars
  <2>4. ASSUME NEW c \in Clients, HbPingFails(c) PROVE LockInv'
    BY <2>4 DEF HbPingFails, writeVars
  <2>5. ASSUME NEW c \in Clients, HbReturn(c) PROVE LockInv'
    BY <2>5 DEF HbReturn, writeVars
  <2>6. ASSUME NEW c \in Clients, WrTop(c) PROVE LockInv'
    BY <2>6 DEF WrTop
  <2>7. ASSUME NEW c \in Clients, WrRecv(c) PROVE LockInv'
    BY <2>7 DEF WrRecv
  <2>8. ASSUME NEW c \in Clients, WrLock(c) PROVE LockInv'
    BY <2>8 DEF WrLock
  <2>9. ASSUME NEW c \in Clients, WrWrite(c) PROVE LockInv'
    BY <2>9 DEF WrWrite
  <2>10. ASSUME NEW c \in Clients, WrWriteFails(c) PROVE LockInv'
    BY <2>10 DEF WrWriteFails
  <2>11. ASSUME NEW c \in Clients, WrReturn(c) PROVE LockInv'
    BY <2>11 DEF WrReturn
  <2>12. ASSUME UNCHANGED <<hb, wr, sendMu>> PROVE LockInv'
    BY <2>12
  <2>13. ASSUME NEW c \in Clients, PeerFails(c) \/ Join(c) \/ Close(c) \/ ReadPump(c)
         PROVE  UNCHANGED <<hb, wr, sendMu>>
    BY <2>13 DEF PeerFails, Join, JoinExit, JoinAdd, Close, CloseChan, CloseSend,
       CloseConn, CloseExit, CloseStage, ReadPump, RdCloseError, RdError, RdReturn, writeVars
  <2>14. ASSUME NEW p \in Publishers, FrameReady(p) \/ Publisher(p) \/ ConcurrentMapFault(p)
         PROVE  UNCHANGED <<hb, wr, sendMu>>
    BY <2>14 DEF FrameReady, Publisher, To, RoomEmit, EmitSend, EmitPanic,
       EmitReturn, ConcurrentMapFault, writeVars
  <2>15. CASE UNCHANGED vars
    BY <2>12, <2>15 DEF vars, writeVars
  <2>16. QED
    BY <2>1, <2>2, <2>3, <2>4, <2>5, <2>6, <2>7, <2>8, <2>9, <2>10, <2>11, <2>12,
       <2>13, <2>14, <2>15 DEF Next, Heartbeat, SendPump
<1>3. LockInv => OneWriter
  BY DEF LockInv, OneWriter
<1>4. QED
  BY <1>1, <1>2, <1>3, TypeCorrect, PTL DEF Spec

(* The table part of OnlyItsRoom: a client is in no room before its Join   *)
(* registers it.                                                           *)
Unregistered ==
  \A c \in Clients : join[c] # "done" => \A r \in Rooms : c \notin members[r]

(* The room table has exactly the rooms with members, and a client is only *)
(* ever listed in the room its roomID names, so that the ExitRoom of Close *)
(* takes it out of every room it is in.                                    *)
THEOREM RoomTableCorrect == Spec => []RoomTable
<1> DEFINE Inv == RoomTable /\ Unregistered
<1> USE DEF RoomTable, Unregistered
<1>1. Init => Inv
  BY DEF Init
<1>2. TypeOK /\ Inv /\ [Next]_vars => Inv'
  <2> SUFFICES ASSUME TypeOK, Inv, [Next]_vars PROVE Inv'
    OBVIOUS
  <2>1. ASSUME NEW c \in Clients, ExitRoom(c), UNCHANGED roomID,
               \/ join' = join
               \/ join[c] = "exit" /\ join' = [join EXCEPT ![c] = "add"]
        PROVE  Inv'
    <3>1. CASE roomID[c] \in rooms
      <4>1. /\ members' = [members EXCEPT ![roomID[c]] = @ \ {c}]
            /\ rooms' = IF members[roomID[c]] \subseteq {c}
                        THEN rooms \ {roomID[c]} ELSE rooms
        BY <2>1, <3>1 DEF ExitRoom
      <4>2. roomID[c] \in Rooms
        BY <3>1 DEF TypeOK
      <4>3. (\A r \in Rooms : r \in rooms <=> members[r] # {})'
        BY <4>1, <4>2 DEF TypeOK
      <4>4. \A r \in Rooms : members'[r] \subseteq members[r]
        BY <4>1, <4>2 DEF TypeOK
      <4>5. \A d \in Clients : join'[d] # "done" => join[d] # "done"
        BY <2>1 DEF TypeOK
      <4>6. QED
        BY <2>1, <4>3, <4>4, <4>5
    <3>2. CASE roomID[c] \notin rooms
      <4>1. UNCHANGED <<members, rooms, roomID>>
        BY <2>1, <3>2 DEF ExitRoom
      <4>2. \A d \in Clients : join'[d] # "done" => join[d] # "done"
        BY <2>1 DEF TypeOK
      <4> QED
        BY <4>1, <4>2
    <3>3. QED
      BY <3>1, <3>2
  <2>2. ASSUME NEW c \in Clients, JoinAdd(c) PROVE Inv'
    <3>1. Name[c] \in Rooms /\ c \notin members[Name[c]]
      BY <2>2, SocketAssumption DEF JoinAdd
    <3>2. /\ join' = [join EXCEPT ![c] = "done"]
          /\ roomID' = [roomID EXCEPT ![c] = Name[c]]
          /\ rooms' = rooms \cup {Name[c]}
          /\ members' = [members EXCEPT ![Name[c]] = @ \cup {c}]
          /\ \A r \in Rooms : c \notin members[r]
      BY <2>2 DEF JoinAdd
    <3>3. QED
      BY <3>1, <3>2 DEF TypeOK
  <2>3. ASSUME NEW c \in Clients, Connect(c) PROVE Inv'
    BY <2>3 DEF Connect, tableVars, TypeOK, JoinPc
  <2>4. ASSUME UNCHANGED <<roomID, rooms, members, join>> PROVE Inv'
    BY <2>4
  <2>5. ASSUME NEW c \in Clients, JoinExit(c) PROVE Inv'
    BY <2>1, <2>5 DEF JoinExit
  <2>6. ASSUME NEW c \in Clients, CloseExit(c) PROVE Inv'
    <3>1. ExitRoom(c) /\ UNCHANGED roomID /\ join' = join
      BY <2>6 DEF CloseExit, CloseStage
    <3>2. QED
      BY <2>1, <2>6, <3>1
  <2>7. ASSUME NEW c \in Clients,
               PeerFails(c) \/ CloseChan(c) \/ CloseSend(c) \/ CloseConn(c)
               \/ Heartbeat(c) \/ HbLock(c) \/ ReadPump(c)
        PROVE  UNCHANGED <<roomID, rooms, members, join>>
    BY <2>7 DEF PeerFails, CloseChan, CloseSend, CloseConn, CloseStage, Heartbeat,
       HbPing, HbPingFails, HbReturn, HbLock, ReadPump, RdCloseError, RdError,
       RdReturn, tableVars
  <2>8. ASSUME NEW c \in Clients, SendPump(c) \/ WrLock(c)
        PROVE  UNCHANGED <<roomID, rooms, members, join>>
    BY <2>8 DEF SendPump, WrTop, WrRecv, WrWrite, WrWriteFails, WrReturn, WrLock, tableVars
  <2>9. ASSUME NEW p \in Publishers, FrameReady(p) \/ Publisher(p) \/ ConcurrentMapFault(p)
        PROVE  UNCHANGED <<roomID, rooms, members, join>>
    BY <2>9 DEF FrameReady, Publisher, To, RoomEmit, EmitSend, EmitPanic,
       EmitReturn, ConcurrentMapFault, tableVars
  <2>10. CASE UNCHANGED vars
    BY <2>4, <2>10 DEF vars, tableVars
  <2>11. QED
    BY <2>2, <2>3, <2>4, <2>5, <2>6, <2>7, <2>8, <2>9, <2>10 DEF Next, Join, Close
<1>3. QED
  BY <1>1, <1>2, TypeCorrect, PTL DEF Spec

-----------------------------------------------------------------------------
(* SocketIO implements FrameFeed.                                          *)

PairInv(c, p) == QueueOrder(c, p) /\ NotYetSent(c, p)
ClientInv(c)  == OnlyItsRoom(c) /\ NotBeforeJoin(c)

(* What of the types the order of the frames needs.                        *)
LEMMA FeedTypes ==
  ASSUME TypeOK
  PROVE  /\ NoClient \notin Clients /\ NoMessage \notin Message
         /\ em \in [Publishers -> EmPc] /\ target \in [Publishers -> Clients \cup {NoClient}]
         /\ todo \in [Publishers -> SUBSET Clients]
         /\ \A p \in Publishers : RoomOf[p] \in Rooms /\ frame[p] \in Nat
         /\ \A c \in Clients :
              /\ Name[c] \in Rooms
              /\ send[c] \in Seq(Message)
              /\ wmsg[c] # NoMessage => wmsg[c] \in Message
              /\ \A p \in Publishers : last[c][p] \in Nat /\ Held(c, p) \in Nat
              /\ \A i \in 1 .. Len(send[c]) :
                   send[c][i].by \in Publishers /\ send[c][i].frame \in Nat
<1>1. /\ NoClient \notin Clients /\ NoMessage \notin Message
      /\ \A c \in Clients : Name[c] \in Rooms
      /\ \A p \in Publishers : RoomOf[p] \in Rooms
  BY SocketAssumption DEF Message
<1>2. /\ em \in [Publishers -> EmPc] /\ target \in [Publishers -> Clients \cup {NoClient}]
      /\ todo \in [Publishers -> SUBSET Clients]
      /\ \A p \in Publishers : frame[p] \in Nat
      /\ \A c \in Clients :
           /\ send[c] \in Seq(Message)
           /\ wmsg[c] # NoMessage => wmsg[c] \in Message
           /\ \A p \in Publishers : last[c][p] \in Nat
  BY DEF TypeOK
<1>3. ASSUME NEW c \in Clients, NEW i \in 1 .. Len(send[c])
      PROVE  send[c][i].by \in Publishers /\ send[c][i].frame \in Nat
  <2>1. send[c][i] \in Message
    BY <1>2
  <2> QED
    BY <2>1 DEF Message
<1>4. ASSUME NEW c \in Clients, NEW p \in Publishers PROVE Held(c, p) \in Nat
  BY <1>2 DEF Held, Message
<1> QED
  BY <1>1, <1>2, <1>3, <1>4

(* The invariant of a client survives a step on somebody else.             *)
LEMMA Untouched ==
  ASSUME FeedInv, NEW d \in Clients,
         send'[d] = send[d], wmsg'[d] = wmsg[d], last'[d] = last[d],
         UNCHANGED <<frame, em, todo, target, members, join>>
  PROVE  ClientInv(d)' /\ \A p \in Publishers : PairInv(d, p)'
<1>1. ClientInv(d)'
  BY DEF FeedInv, ClientInv, OnlyItsRoom, NotBeforeJoin
<1>2. ASSUME NEW p \in Publishers PROVE PairInv(d, p)'
  <2>1. Held(d, p)' = Held(d, p) /\ MayBeVisited(d, p)' = MayBeVisited(d, p)
    BY DEF Held, MayBeVisited
  <2>2. QueueOrder(d, p) /\ NotYetSent(d, p)
    BY DEF FeedInv
  <2> QED
    BY <2>1, <2>2 DEF PairInv, QueueOrder, NotYetSent
<1> QED
  BY <1>1, <1>2

(* Taking a message keeps the order: the head is older than the tail.      *)
LEMMA WrRecvInv ==
  ASSUME TypeOK, Holding, FeedInv, NEW c \in Clients, WrRecv(c)
  PROVE  FeedInv'
<1>1. UNCHANGED <<frame, em, todo, target, members, join, last>>
  BY DEF WrRecv, emVars, tableVars
<1>2. ASSUME NEW d \in Clients
      PROVE  ClientInv(d)' /\ \A p \in Publishers : PairInv(d, p)'
  <2>1. CASE d # c \/ send[c] = <<>>
    <3>1. send'[d] = send[d] /\ wmsg'[d] = wmsg[d]
      BY <2>1 DEF TypeOK, WrRecv
    <3> QED
      BY <1>1, <3>1, Untouched
  <2>2. CASE d = c /\ send[c] # <<>>
    <3> DEFINE q == send[c]
    <3>1. /\ q \in Seq(Message) /\ Len(q) \in Nat /\ Len(q) > 0
          /\ Len(Tail(q)) = Len(q) - 1
          /\ \A i \in 1 .. Len(Tail(q)) : Tail(q)[i] = q[i + 1] /\ i + 1 \in 1 .. Len(q)
          /\ Head(q) = q[1] /\ 1 \in 1 .. Len(q) /\ q[1] \in Message
      BY <2>2 DEF TypeOK
    <3>2. wmsg'[c] = q[1] /\ send'[c] = Tail(q)
      BY <2>2, <3>1 DEF WrRecv, TypeOK
    <3>3. q[1] # NoMessage
      BY <3>1, FeedTypes
    <3>4. ASSUME NEW p \in Publishers PROVE PairInv(c, p)'
      <4> DEFINE h == IF q[1].by = p THEN q[1].frame ELSE 0
      <4>1. Held(c, p)' = h
        BY <3>2, <3>3 DEF Held
      <4>2. /\ \A i \in 1 .. Len(q) : q[i].by = p => last[c][p] < q[i].frame /\ q[i].frame <= frame[p]
            /\ \A i, j \in 1 .. Len(q) :
                 i < j /\ q[i].by = p /\ q[j].by = p => q[i].frame < q[j].frame
            /\ last[c][p] <= frame[p]
        BY DEF FeedInv, QueueOrder
      <4>3. /\ last[c][p] \in Nat /\ frame[p] \in Nat
            /\ \A i \in 1 .. Len(q) : q[i].frame \in Nat
        BY FeedTypes
      <4>4. QueueOrder(c, p)'
        <5> HIDE DEF q
        <5>1. \A i \in 1 .. Len(Tail(q)) : Tail(q)[i].by = p =>
                /\ h < Tail(q)[i].frame /\ last[c][p] < Tail(q)[i].frame
                /\ Tail(q)[i].frame <= frame[p]
          BY <3>1, <4>2, <4>3
        <5>2. \A i, j \in 1 .. Len(Tail(q)) :
                i < j /\ Tail(q)[i].by = p /\ Tail(q)[j].by = p
                  => Tail(q)[i].frame < Tail(q)[j].frame
          BY <3>1, <4>2, <4>3
        <5>3. /\ q[1].by = p => last[c][p] < h
              /\ h <= frame[p]
          BY <3>1, <4>2, <4>3
        <5> HIDE DEF h
        <5>4. QED
          BY <1>1, <3>2, <4>1, <4>2, <5>1, <5>2, <5>3 DEF QueueOrder
      <4>5. NotYetSent(c, p)'
        <5> SUFFICES ASSUME MayBeVisited(c, p)'
                     PROVE  /\ last[c][p] < frame[p] /\ h < frame[p]
                            /\ \A i \in 1 .. Len(Tail(q)) :
                                 Tail(q)[i].by = p => Tail(q)[i].frame < frame[p]
          BY <1>1, <3>2, <4>1 DEF NotYetSent
        <5>1. MayBeVisited(c, p)
          BY <1>1 DEF MayBeVisited
        <5>2. /\ last[c][p] < frame[p]
              /\ \A i \in 1 .. Len(q) : q[i].by = p => q[i].frame < frame[p]
          BY <5>1 DEF FeedInv, NotYetSent
        <5> HIDE DEF q
        <5> QED
          BY <3>1, <4>3, <5>2
      <4> QED
        BY <4>4, <4>5 DEF PairInv
    <3>5. ClientInv(c)'
      <4>1. OnlyItsRoom(c) /\ NotBeforeJoin(c)
        BY DEF FeedInv
      <4>2. join[c] = "done"
        BY <2>2, <4>1 DEF NotBeforeJoin
      <4>3. \A i \in 1 .. Len(q) : RoomOf[q[i].by] = Name[c]
        BY <4>1 DEF OnlyItsRoom
      <4>4. /\ \A i \in 1 .. Len(Tail(q)) : RoomOf[Tail(q)[i].by] = Name[c]
            /\ RoomOf[q[1].by] = Name[c]
        <5> HIDE DEF q
        <5> QED
          BY <3>1, <4>3
      <4>5. OnlyItsRoom(c)'
        BY <1>1, <3>2, <4>1, <4>4 DEF OnlyItsRoom
      <4> QED
        BY <1>1, <4>2, <4>5 DEF ClientInv, NotBeforeJoin
    <3> QED
      BY <2>2, <3>4, <3>5
  <2>3. QED
    BY <2>1, <2>2
<1>3. QED
  BY <1>1, <1>2 DEF FeedInv, PairInv, ClientInv

(* Writing a message, or failing to, only makes room behind it.            *)
LEMMA WrWriteInv ==
  ASSUME TypeOK, Holding, FeedInv, NEW c \in Clients, WrWrite(c) \/ WrWriteFails(c)
  PROVE  FeedInv'
<1>1. UNCHANGED <<frame, em, todo, target, members, join, send>>
  BY DEF WrWrite, WrWriteFails, emVars, tableVars
<1>2. /\ wmsg[c] \in Message /\ wmsg[c] # NoMessage /\ wmsg'[c] = NoMessage
      /\ wmsg[c].by \in Publishers /\ wmsg[c].frame \in Nat
  <2>1. wmsg[c] # NoMessage /\ wmsg'[c] = NoMessage
    BY DEF TypeOK, Holding, WrWrite, WrWriteFails
  <2>2. wmsg[c] \in Message
    BY <2>1, FeedTypes
  <2> QED
    BY <2>1, <2>2 DEF Message
<1>3. ASSUME NEW d \in Clients
      PROVE  ClientInv(d)' /\ \A p \in Publishers : PairInv(d, p)'
  <2>1. CASE d # c
    <3>1. wmsg'[d] = wmsg[d] /\ last'[d] = last[d]
      BY <2>1 DEF TypeOK, WrWrite, WrWriteFails
    <3> QED
      BY <1>1, <3>1, Untouched
  <2>2. CASE d = c
    <3>1. ASSUME NEW p \in Publishers PROVE PairInv(c, p)'
      <4>1. /\ Held(c, p)' = 0
            /\ last'[c][p] \in {last[c][p], Held(c, p)}
            /\ Held(c, p) # last'[c][p] => last'[c][p] = last[c][p]
            /\ wmsg[c].by # p => last'[c][p] = last[c][p]
        <5>1. \/ last' = [last EXCEPT ![c][wmsg[c].by] = wmsg[c].frame]
              \/ last' = last
          BY DEF WrWrite, WrWriteFails
        <5>2. last \in [Clients -> [Publishers -> Nat]]
          BY DEF TypeOK
        <5>3. last'[c][p] = last[c][p] \/ (wmsg[c].by = p /\ last'[c][p] = wmsg[c].frame)
          BY <1>2, <5>1, <5>2
        <5> QED
          BY <1>2, <5>3 DEF Held
      <4>2. QueueOrder(c, p) /\ NotYetSent(c, p)
        BY DEF FeedInv
      <4>3. /\ last[c][p] \in Nat /\ frame[p] \in Nat /\ Held(c, p) \in Nat
            /\ \A i \in 1 .. Len(send[c]) : send[c][i].frame \in Nat
        BY FeedTypes
      <4>4. QueueOrder(c, p)'
        <5>1. \A i \in 1 .. Len(send[c]) : send[c][i].by = p =>
                0 < send[c][i].frame /\ last'[c][p] < send[c][i].frame
          BY <4>1, <4>2, <4>3 DEF QueueOrder
        <5>2. last'[c][p] <= frame[p] /\ 0 <= frame[p]
          BY <4>1, <4>2, <4>3 DEF QueueOrder
        <5> QED
          BY <1>1, <1>2, <4>1, <4>2, <5>1, <5>2 DEF QueueOrder
      <4>5. NotYetSent(c, p)'
        <5>1. MayBeVisited(c, p)' = MayBeVisited(c, p)
          BY <1>1 DEF MayBeVisited
        <5> QED
          BY <1>1, <4>1, <4>2, <4>3, <5>1 DEF NotYetSent
      <4> QED
        BY <4>4, <4>5 DEF PairInv
    <3>2. ClientInv(c)'
      <4>1. OnlyItsRoom(c) /\ NotBeforeJoin(c)
        BY DEF FeedInv
      <4>2. join[c] = "done"
        BY <1>2, <4>1 DEF NotBeforeJoin
      <4> QED
        BY <1>1, <1>2, <4>1, <4>2 DEF ClientInv, OnlyItsRoom, NotBeforeJoin
    <3> QED
      BY <2>2, <3>1, <3>2
  <2>3. QED
    BY <2>1, <2>2
<1>4. QED
  BY <1>1, <1>3 DEF FeedInv, PairInv, ClientInv

(* A new connection has been sent nothing.                                 *)
LEMMA ConnectInv ==
  ASSUME TypeOK, FeedInv, NEW c \in Clients, Connect(c)
  PROVE  FeedInv'
<1>1. UNCHANGED <<send, wmsg, last, frame, em, todo, target, members>>
  BY DEF Connect, emVars, tableVars
<1>2. \A d \in Clients : join'[d] # "done" <=> join[d] # "done"
  BY DEF Connect, TypeOK
<1>3. ASSUME NEW d \in Clients, NEW p \in Publishers PROVE PairInv(d, p)'
  <2>1. Held(d, p)' = Held(d, p) /\ (MayBeVisited(d, p)' <=> MayBeVisited(d, p))
    BY <1>1, <1>2 DEF Held, MayBeVisited
  <2> QED
    BY <1>1, <2>1 DEF FeedInv, PairInv, QueueOrder, NotYetSent
<1>4. ASSUME NEW d \in Clients PROVE ClientInv(d)'
  BY <1>1, <1>2 DEF FeedInv, ClientInv, OnlyItsRoom, NotBeforeJoin
<1>5. QED
  BY <1>1, <1>3, <1>4 DEF FeedInv, PairInv, ClientInv

(* Leaving a room only shrinks the member maps.                            *)
LEMMA ExitInv ==
  ASSUME TypeOK, FeedInv, NEW c \in Clients, JoinExit(c) \/ CloseExit(c)
  PROVE  FeedInv'
<1>1. /\ \A r \in Rooms : members'[r] \subseteq members[r]
      /\ \A d \in Clients : join'[d] # "done" <=> join[d] # "done"
  <2>1. ExitRoom(c)
    BY DEF JoinExit, CloseExit
  <2>2. \A r \in Rooms : members'[r] \subseteq members[r]
    <3>1. members \in [Rooms -> SUBSET Clients]
      BY DEF TypeOK
    <3>2. \/ members' = members
          \/ members' = [members EXCEPT ![roomID[c]] = @ \ {c}]
      BY <2>1 DEF ExitRoom
    <3> QED
      BY <3>1, <3>2
  <2>3. QED
    BY <2>2 DEF JoinExit, CloseExit, CloseStage, TypeOK
<1>2. UNCHANGED <<send, wmsg, last, frame, em, todo, target>>
  BY DEF JoinExit, CloseExit, CloseStage, writeVars, emVars
<1>3. ASSUME NEW d \in Clients, NEW p \in Publishers PROVE PairInv(d, p)'
  <2>1. Held(d, p)' = Held(d, p) /\ (MayBeVisited(d, p)' <=> MayBeVisited(d, p))
    BY <1>1, <1>2 DEF Held, MayBeVisited
  <2> QED
    BY <1>2, <2>1 DEF FeedInv, PairInv, QueueOrder, NotYetSent
<1>4. ASSUME NEW d \in Clients PROVE ClientInv(d)'
  BY <1>1, <1>2 DEF FeedInv, ClientInv, OnlyItsRoom, NotBeforeJoin
<1>5. QED
  BY <1>2, <1>3, <1>4 DEF FeedInv, PairInv, ClientInv

(* A client that joins during a broadcast has not had its frame yet.       *)
LEMMA JoinAddInv ==
  ASSUME TypeOK, FeedInv, NEW c \in Clients, JoinAdd(c)
  PROVE  FeedInv'
<1>1. UNCHANGED <<send, wmsg, last, frame, em, target>>
  BY DEF JoinAdd, writeVars, emVars
<1>2. /\ join[c] = "add" /\ join' = [join EXCEPT ![c] = "done"]
      /\ members' = [members EXCEPT ![Name[c]] = @ \cup {c}]
      /\ Name[c] \in Rooms
  BY SocketAssumption DEF JoinAdd
<1>3. PICK seen \in SUBSET {p \in Publishers : RoomOf[p] = Name[c] /\ Iterating(p)} :
        todo' = [p \in Publishers |-> IF p \in seen THEN todo[p] \cup {c} ELSE todo[p]]
  BY DEF JoinAdd
<1>4. \A p \in seen : RoomOf[p] = Name[c] /\ em[p] \notin {"idle", "lookup"}
  BY <1>3 DEF Iterating
<1>5. \A d \in Clients : (d # c => join'[d] = join[d]) /\ join'[c] = "done"
  BY <1>2 DEF TypeOK
<1>6. NotBeforeJoin(c) /\ \A p \in Publishers : target[p] # c /\ c \notin todo[p]
  BY <1>2 DEF FeedInv, NotBeforeJoin
<1>7. ASSUME NEW d \in Clients, NEW p \in Publishers PROVE PairInv(d, p)'
  <2>1. MayBeVisited(d, p)' => MayBeVisited(d, p)
    <3>1. CASE d = c
      BY <1>1, <1>2, <1>3, <1>4, <1>5, <1>6, <3>1 DEF MayBeVisited
    <3>2. CASE d # c
      <4>1. d \in todo'[p] => d \in todo[p]
        BY <1>3, <3>2
      <4> QED
        BY <1>1, <1>5, <3>2, <4>1 DEF MayBeVisited
    <3> QED
      BY <3>1, <3>2
  <2>2. Held(d, p)' = Held(d, p)
    BY <1>1 DEF Held
  <2> QED
    BY <1>1, <2>1, <2>2 DEF FeedInv, PairInv, QueueOrder, NotYetSent
<1>8. ASSUME NEW d \in Clients PROVE ClientInv(d)'
  <2>1. OnlyItsRoom(d) /\ NotBeforeJoin(d)
    BY DEF FeedInv
  <2>2. CASE d = c
    <3>1. \A r \in Rooms : c \in members'[r] => r = Name[c]
      BY <1>2, <2>1, <2>2 DEF OnlyItsRoom, TypeOK
    <3>2. \A p \in Publishers : c \in todo'[p] => RoomOf[p] = Name[c]
      BY <1>3, <1>4, <1>6
    <3> QED
      BY <1>1, <1>5, <1>6, <2>1, <2>2, <3>1, <3>2 DEF ClientInv, OnlyItsRoom, NotBeforeJoin
  <2>3. CASE d # c
    <3>1. \A r \in Rooms : d \in members'[r] => d \in members[r]
      BY <1>2, <2>3 DEF TypeOK
    <3>2. \A p \in Publishers : d \in todo'[p] => d \in todo[p]
      BY <1>3, <2>3
    <3> QED
      BY <1>1, <1>5, <2>1, <2>3, <3>1, <3>2 DEF ClientInv, OnlyItsRoom, NotBeforeJoin
  <2> QED
    BY <2>2, <2>3
<1>9. QED
  BY <1>1, <1>7, <1>8 DEF FeedInv, PairInv, ClientInv

(* A new frame is later than everything of its publisher on its way.       *)
LEMMA FrameReadyInv ==
  ASSUME TypeOK, FeedInv, NEW p \in Publishers, FrameReady(p)
  PROVE  FeedInv'
<1>1. UNCHANGED <<send, wmsg, last, todo, target, members, join>>
  BY DEF FrameReady, writeVars, tableVars
<1>2. /\ em[p] = "idle" /\ em' = [em EXCEPT ![p] = "lookup"]
      /\ frame' = [frame EXCEPT ![p] = @ + 1]
  BY DEF FrameReady
<1>3. ASSUME NEW d \in Clients, NEW q \in Publishers PROVE PairInv(d, q)'
  <2>1. /\ frame[q] \in Nat /\ last[d][q] \in Nat /\ Held(d, q) \in Nat
        /\ \A i \in 1 .. Len(send[d]) : send[d][i].frame \in Nat
    BY FeedTypes
  <2>2. frame'[q] = IF q = p THEN frame[q] + 1 ELSE frame[q]
    BY <1>2 DEF TypeOK
  <2>3. QueueOrder(d, q) /\ NotYetSent(d, q) /\ Held(d, q)' = Held(d, q)
    BY <1>1 DEF FeedInv, Held
  <2>4. QueueOrder(d, q)'
    <3>1. frame[q] <= frame'[q] /\ frame'[q] \in Nat
      BY <2>1, <2>2
    <3> QED
      BY <1>1, <2>1, <2>3, <3>1 DEF QueueOrder
  <2>5. NotYetSent(d, q)'
    <3>1. CASE q = p
      <4>1. frame'[q] = frame[q] + 1
        BY <2>2, <3>1
      <4> QED
        BY <1>1, <2>1, <2>3, <4>1 DEF QueueOrder, NotYetSent
    <3>2. CASE q # p
      <4>1. em'[q] = em[q] /\ frame'[q] = frame[q]
        BY <1>2, <2>2, <3>2, FeedTypes
      <4>2. MayBeVisited(d, q)' => MayBeVisited(d, q)
        BY <1>1, <4>1 DEF MayBeVisited
      <4> QED
        BY <1>1, <2>3, <4>1, <4>2 DEF NotYetSent
    <3>3. QED
      BY <3>1, <3>2
  <2>6. QED
    BY <2>4, <2>5 DEF PairInv
<1>4. ASSUME NEW d \in Clients PROVE ClientInv(d)'
  BY <1>1 DEF FeedInv, ClientInv, OnlyItsRoom, NotBeforeJoin
<1>5. ASSUME NEW q \in Publishers
      PROVE  (em[q] \in {"send", "close"} <=> target[q] \in Clients)'
  BY <1>1, <1>2, FeedTypes DEF FeedInv
<1>6. QED
  BY <1>3, <1>4, <1>5 DEF FeedInv, PairInv, ClientInv

(* A step of a publisher that sends nothing keeps the order if it comes to *)
(* nobody it would not have come to before, and to nobody twice.           *)
LEMMA QuietStep ==
  ASSUME TypeOK, FeedInv, UNCHANGED <<send, wmsg, last, frame, members, join>>,
         \A d \in Clients, q \in Publishers :
           /\ MayBeVisited(d, q)' => MayBeVisited(d, q)
           /\ d \in todo'[q] => d \in todo[q] \/ d \in members[RoomOf[q]]
           /\ target'[q] = d => target[q] = d \/ d \in todo[q]
           /\ target'[q] = d => d \notin todo'[q],
         \A q \in Publishers : em'[q] \in {"send", "close"} <=> target'[q] \in Clients
  PROVE  FeedInv'
<1>1. ASSUME NEW d \in Clients, NEW q \in Publishers PROVE PairInv(d, q)'
  <2>1. QueueOrder(d, q) /\ NotYetSent(d, q) /\ Held(d, q)' = Held(d, q)
    BY DEF FeedInv, Held
  <2> QED
    BY <2>1 DEF PairInv, QueueOrder, NotYetSent
<1>2. ASSUME NEW d \in Clients PROVE ClientInv(d)'
  <2>1. OnlyItsRoom(d) /\ NotBeforeJoin(d)
    BY DEF FeedInv
  <2>2. \A q \in Publishers : RoomOf[q] \in Rooms
    BY FeedTypes
  <2>3. OnlyItsRoom(d)'
    BY <2>1, <2>2 DEF OnlyItsRoom
  <2>4. NotBeforeJoin(d)'
    BY <2>1, <2>2 DEF NotBeforeJoin
  <2> QED
    BY <2>3, <2>4 DEF ClientInv
<1>3. QED
  BY <1>1, <1>2 DEF FeedInv, PairInv, ClientInv

(* A broadcast starts with the members of the room.                        *)
LEMMA ToInv ==
  ASSUME TypeOK, FeedInv, NEW p \in Publishers, To(p)
  PROVE  FeedInv'
<1>1. UNCHANGED <<send, wmsg, last, frame, target, members, join>>
  BY DEF To, writeVars
<1>2. em[p] = "lookup" /\ target[p] \notin Clients
  BY DEF To, FeedInv
<1>3. \A q \in Publishers :
        /\ em'[q] = IF q = p THEN "iter" ELSE em[q]
        /\ todo'[q] = IF q = p THEN members[RoomOf[p]] ELSE todo[q]
  BY DEF To, TypeOK
<1>4. ASSUME NEW d \in Clients, NEW q \in Publishers
      PROVE  /\ MayBeVisited(d, q)' => MayBeVisited(d, q)
             /\ d \in todo'[q] => d \in todo[q] \/ d \in members[RoomOf[q]]
             /\ target'[q] = d => target[q] = d \/ d \in todo[q]
             /\ target'[q] = d => d \notin todo'[q]
  <2>1. OnlyItsRoom(d) /\ RoomOf[p] \in Rooms
    BY FeedTypes DEF FeedInv
  <2>2. CASE q = p
    <3>1. em'[p] = "iter" /\ todo'[p] = members[RoomOf[p]] /\ target'[p] \notin Clients
      BY <1>1, <1>2, <1>3
    <3>2. MayBeVisited(d, p)' => MayBeVisited(d, p)
      <4>1. ASSUME d \in members[RoomOf[p]] PROVE MayBeVisited(d, p)
        BY <1>2, <2>1, <4>1 DEF OnlyItsRoom, MayBeVisited
      <4>2. ASSUME join[d] # "done", RoomOf[p] = Name[d] PROVE MayBeVisited(d, p)
        BY <1>2, <4>2 DEF MayBeVisited
      <4> QED
        BY <1>1, <3>1, <4>1, <4>2 DEF MayBeVisited
    <3> QED
      BY <2>2, <3>1, <3>2
  <2>3. CASE q # p
    <3>1. em'[q] = em[q] /\ todo'[q] = todo[q] /\ target'[q] = target[q]
      BY <1>1, <1>3, <2>3
    <3> QED
      BY <1>1, <2>1, <3>1 DEF MayBeVisited, OnlyItsRoom
  <2> QED
    BY <2>2, <2>3
<1>5. \A q \in Publishers : em'[q] \in {"send", "close"} <=> target'[q] \in Clients
  BY <1>1, <1>2, <1>3 DEF FeedInv
<1>6. QED
  BY <1>1, <1>4, <1>5, QuietStep

(* A broadcast visits a member once.                                       *)
LEMMA RoomEmitInv ==
  ASSUME TypeOK, FeedInv, NEW p \in Publishers, RoomEmit(p)
  PROVE  FeedInv'
<1>1. UNCHANGED <<send, wmsg, last, frame, members, join>>
  BY DEF RoomEmit, writeVars, tableVars
<1>2. em[p] = "iter" /\ target[p] \notin Clients
  BY DEF RoomEmit, FeedInv
<1>3. \/ /\ em'[p] = "idle" /\ target'[p] = target[p] /\ todo'[p] = {}
      \/ \E c \in todo[p] :
           /\ todo'[p] = todo[p] \ {c}
           /\ \/ em'[p] = "iter" /\ target'[p] = target[p]
              \/ em'[p] = "send" /\ target'[p] = c
  BY <1>2 DEF RoomEmit, TypeOK
<1>4. \A q \in Publishers : q # p =>
        em'[q] = em[q] /\ target'[q] = target[q] /\ todo'[q] = todo[q]
  BY DEF RoomEmit, TypeOK
<1>5. todo[p] \subseteq Clients
  BY DEF TypeOK
<1>6. ASSUME NEW d \in Clients, NEW q \in Publishers
      PROVE  /\ MayBeVisited(d, q)' => MayBeVisited(d, q)
             /\ d \in todo'[q] => d \in todo[q] \/ d \in members[RoomOf[q]]
             /\ target'[q] = d => target[q] = d \/ d \in todo[q]
             /\ target'[q] = d => d \notin todo'[q]
  <2>1. CASE q = p
    BY <1>1, <1>2, <1>3, <1>5, <2>1 DEF MayBeVisited
  <2>2. CASE q # p
    <3>1. OnlyItsRoom(d)
      BY DEF FeedInv
    <3> QED
      BY <1>1, <1>4, <2>2, <3>1 DEF MayBeVisited, OnlyItsRoom
  <2> QED
    BY <2>1, <2>2
<1>7. ASSUME NEW q \in Publishers
      PROVE  em'[q] \in {"send", "close"} <=> target'[q] \in Clients
  BY <1>2, <1>3, <1>4, <1>5 DEF FeedInv
<1>8. QED
  BY <1>1, <1>6, <1>7, QuietStep

(* Recovering from a send on a closed channel sends nothing.               *)
LEMMA EmitCloseInv ==
  ASSUME TypeOK, FeedInv, NEW p \in Publishers, EmitPanic(p) \/ EmitReturn(p)
  PROVE  FeedInv'
<1>1. UNCHANGED <<send, wmsg, last, frame, todo, members, join>>
  BY DEF EmitPanic, EmitReturn, writeVars, tableVars
<1>2. \/ em[p] = "send" /\ em'[p] = "close" /\ target'[p] = target[p]
      \/ em[p] = "close" /\ em'[p] = "iter" /\ target'[p] = NoClient
  BY DEF EmitPanic, EmitReturn, TypeOK
<1>3. \A q \in Publishers : q # p => em'[q] = em[q] /\ target'[q] = target[q]
  BY DEF EmitPanic, EmitReturn, TypeOK
<1>4. ASSUME NEW d \in Clients, NEW q \in Publishers
      PROVE  /\ MayBeVisited(d, q)' => MayBeVisited(d, q)
             /\ d \in todo'[q] => d \in todo[q] \/ d \in members[RoomOf[q]]
             /\ target'[q] = d => target[q] = d \/ d \in todo[q]
             /\ target'[q] = d => d \notin todo'[q]
  <2>1. OnlyItsRoom(d) /\ NoClient \notin Clients
    BY FeedTypes DEF FeedInv
  <2>2. CASE q = p
    BY <1>1, <1>2, <2>1, <2>2 DEF MayBeVisited, OnlyItsRoom
  <2>3. CASE q # p
    BY <1>1, <1>3, <2>1, <2>3 DEF MayBeVisited, OnlyItsRoom
  <2> QED
    BY <2>2, <2>3
<1>5. ASSUME NEW q \in Publishers
      PROVE  em'[q] \in {"send", "close"} <=> target'[q] \in Clients
  BY <1>2, <1>3, FeedTypes DEF FeedInv
<1>6. QED
  BY <1>1, <1>4, <1>5, QuietStep

(* The frame sent is later than all of its publisher's on their way.       *)
LEMMA EmitSendInv ==
  ASSUME TypeOK, FeedInv, NEW p \in Publishers, EmitSend(p)
  PROVE  FeedInv'
<1> DEFINE m == [by |-> p, frame |-> frame[p]]
<1>0. PICK c \in Clients : c = target[p]
  BY DEF EmitSend, FeedInv
<1>1. UNCHANGED <<wmsg, last, todo, frame, members, join>>
  BY DEF EmitSend, tableVars
<1>2. /\ em[p] = "send" /\ em'[p] = "iter" /\ target'[p] = NoClient
      /\ send'[c] = Append(send[c], m)
      /\ \A q \in Publishers : q # p => em'[q] = em[q] /\ target'[q] = target[q]
      /\ \A d \in Clients : d # c => send'[d] = send[d]
  BY <1>0 DEF EmitSend, TypeOK
<1>3. RoomOf[p] = Name[c] /\ join[c] = "done" /\ c \notin todo[p]
  <2>1. OnlyItsRoom(c) /\ NotBeforeJoin(c)
    BY DEF FeedInv
  <2> QED
    BY <1>0, <2>1 DEF OnlyItsRoom, NotBeforeJoin
<1>4. MayBeVisited(c, p)
  BY <1>0, <1>2, <1>3 DEF MayBeVisited
<1>5. ASSUME NEW d \in Clients, NEW q \in Publishers
      PROVE  /\ MayBeVisited(d, q)' => MayBeVisited(d, q)
             /\ MayBeVisited(d, q)' => d # c \/ q # p
  <2>1. NoClient \notin Clients
    BY FeedTypes
  <2>2. CASE q = p
    BY <1>0, <1>1, <1>2, <1>3, <2>1, <2>2 DEF MayBeVisited
  <2>3. CASE q # p
    BY <1>1, <1>2, <2>3 DEF MayBeVisited
  <2> QED
    BY <2>2, <2>3
<1>6. LET s == send[c] IN
      /\ Len(s) \in Nat /\ Len(send'[c]) = Len(s) + 1
      /\ \A i \in 1 .. Len(s) : send'[c][i] = s[i] /\ s[i].by \in Publishers /\ s[i].frame \in Nat
      /\ send'[c][Len(s) + 1].by = p /\ send'[c][Len(s) + 1].frame = frame[p]
  <2>1. m \in Message
    BY FeedTypes DEF Message
  <2>2. send[c] \in Seq(Message) /\ send'[c] = Append(send[c], m)
    BY <1>2, FeedTypes
  <2>3. \A i \in 1 .. Len(send[c]) : send[c][i].by \in Publishers /\ send[c][i].frame \in Nat
    BY FeedTypes
  <2>4. m.by = p /\ m.frame = frame[p]
    OBVIOUS
  <2> HIDE DEF m
  <2> QED
    BY <2>1, <2>2, <2>3, <2>4
<1> HIDE DEF m
<1>7. ASSUME NEW d \in Clients, NEW q \in Publishers PROVE PairInv(d, q)'
  <2>1. /\ QueueOrder(d, q) /\ NotYetSent(d, q) /\ Held(d, q)' = Held(d, q)
        /\ last[d][q] \in Nat /\ Held(d, q) \in Nat /\ frame[q] \in Nat
    BY <1>1, FeedTypes DEF FeedInv, Held
  <2>2. CASE d # c
    BY <1>1, <1>2, <1>5, <2>1, <2>2 DEF PairInv, QueueOrder, NotYetSent
  <2>3. CASE d = c
    <3>1. ASSUME NEW i \in 1 .. Len(send'[c])
          PROVE  i \in 1 .. Len(send[c]) \/ i = Len(send[c]) + 1
      BY <1>6
    <3>2. q = p => /\ last[c][p] < frame[p] /\ Held(c, p) < frame[p]
                   /\ \A i \in 1 .. Len(send[c]) : send[c][i].by = p => send[c][i].frame < frame[p]
      BY <1>4, <2>1, <2>3 DEF NotYetSent
    <3>3. ASSUME NEW i \in 1 .. Len(send'[c]), send'[c][i].by = q
          PROVE  /\ Held(c, q) < send'[c][i].frame /\ last[c][q] < send'[c][i].frame
                 /\ send'[c][i].frame <= frame[q]
      <4>1. CASE i \in 1 .. Len(send[c])
        BY <1>6, <2>1, <2>3, <3>3, <4>1 DEF QueueOrder
      <4>2. CASE i = Len(send[c]) + 1
        BY <1>6, <2>1, <3>2, <3>3, <4>2
      <4> QED
        BY <3>1, <4>1, <4>2
    <3>4. ASSUME NEW i \in 1 .. Len(send'[c]), NEW j \in 1 .. Len(send'[c]),
                 i < j, send'[c][i].by = q, send'[c][j].by = q
          PROVE  send'[c][i].frame < send'[c][j].frame
      <4>1. i \in 1 .. Len(send[c])
        BY <1>6, <3>1, <3>4
      <4>2. CASE j \in 1 .. Len(send[c])
        BY <1>6, <2>1, <2>3, <3>4, <4>1, <4>2 DEF QueueOrder
      <4>3. CASE j = Len(send[c]) + 1
        BY <1>6, <3>2, <3>4, <4>1, <4>3
      <4> QED
        BY <3>1, <4>2, <4>3
    <3>5. QueueOrder(c, q)'
      BY <1>1, <2>1, <2>3, <3>3, <3>4 DEF QueueOrder
    <3>6. NotYetSent(c, q)'
      <4>1. CASE q = p
        BY <1>5, <4>1 DEF NotYetSent
      <4>2. CASE q # p
        <5>1. ASSUME NEW i \in 1 .. Len(send'[c]), send'[c][i].by = q
              PROVE  i \in 1 .. Len(send[c]) /\ send[c][i].by = q /\ send'[c][i] = send[c][i]
          BY <1>6, <3>1, <4>2, <5>1
        <5> QED
          BY <1>1, <1>5, <2>1, <2>3, <5>1 DEF NotYetSent
      <4> QED
        BY <4>1, <4>2
    <3> QED
      BY <2>3, <3>5, <3>6 DEF PairInv
  <2> QED
    BY <2>2, <2>3
<1>8. ASSUME NEW d \in Clients PROVE ClientInv(d)'
  <2>1. OnlyItsRoom(d) /\ NotBeforeJoin(d)
    BY DEF FeedInv
  <2>2. \A q \in Publishers : target'[q] = d => target[q] = d
    BY <1>2, FeedTypes
  <2>3. \A i \in 1 .. Len(send'[d]) : RoomOf[send'[d][i].by] = Name[d]
    <3>1. CASE d # c
      BY <1>2, <2>1, <3>1 DEF OnlyItsRoom
    <3>2. CASE d = c
      <4>1. ASSUME NEW i \in 1 .. Len(send'[c]) PROVE RoomOf[send'[c][i].by] = Name[c]
        <5>1. i \in 1 .. Len(send[c]) \/ i = Len(send[c]) + 1
          BY <1>6
        <5> QED
          BY <1>3, <1>6, <2>1, <3>2, <5>1 DEF OnlyItsRoom
      <4> QED
        BY <3>2, <4>1
    <3> QED
      BY <3>1, <3>2
  <2>4. OnlyItsRoom(d)'
    BY <1>1, <2>1, <2>2, <2>3 DEF OnlyItsRoom
  <2>5. NotBeforeJoin(d)'
    BY <1>1, <1>2, <1>3, <2>1, <2>2 DEF NotBeforeJoin
  <2> QED
    BY <2>4, <2>5 DEF ClientInv
<1>9. ASSUME NEW q \in Publishers
      PROVE  em'[q] \in {"send", "close"} <=> target'[q] \in Clients
  BY <1>2, FeedTypes DEF FeedInv
<1>10. QED
  BY <1>7, <1>8, <1>9 DEF FeedInv, PairInv, ClientInv

(* Every step keeps the order of the frames on their way.                  *)
LEMMA FeedInvStep ==
  ASSUME TypeOK, Holding, FeedInv, [Next]_vars
  PROVE  FeedInv'
<1>1. ASSUME UNCHANGED <<send, wmsg, last, frame, em, todo, target, members, join>>
      PROVE  FeedInv'
  <2>1. \A d \in Clients : ClientInv(d)' /\ \A p \in Publishers : PairInv(d, p)'
    BY <1>1, Untouched
  <2> QED
    BY <1>1, <2>1 DEF FeedInv, ClientInv, PairInv
<1>2. ASSUME NEW c \in Clients,
             PeerFails(c) \/ CloseChan(c) \/ CloseSend(c) \/ CloseConn(c)
             \/ Heartbeat(c) \/ HbLock(c) \/ ReadPump(c)
             \/ WrTop(c) \/ WrLock(c) \/ WrReturn(c)
      PROVE  UNCHANGED <<send, wmsg, last, frame, em, todo, target, members, join>>
  BY <1>2 DEF PeerFails, CloseChan, CloseSend, CloseConn, CloseStage, Heartbeat,
     HbPing, HbPingFails, HbReturn, HbLock, ReadPump, RdCloseError, RdError,
     RdReturn, WrTop, WrLock, WrReturn, tableVars, writeVars, emVars
<1>3. ASSUME NEW p \in Publishers, ConcurrentMapFault(p)
      PROVE  UNCHANGED <<send, wmsg, last, frame, em, todo, target, members, join>>
  BY <1>3 DEF ConcurrentMapFault, tableVars, writeVars, emVars
<1>4. ASSUME UNCHANGED vars
      PROVE  UNCHANGED <<send, wmsg, last, frame, em, todo, target, members, join>>
  BY <1>4 DEF vars, tableVars, writeVars, emVars
<1>5. QED
  BY <1>1, <1>2, <1>3, <1>4, ConnectInv, ExitInv, JoinAddInv, WrRecvInv,
     WrWriteInv, FrameReadyInv, ToInv, RoomEmitInv, EmitSendInv, EmitCloseInv
  DEF Next, Join, Close, SendPump, Publisher

(* A step of the code publishes a frame, shows one client a later frame of *)
(* a publisher of its room, or is invisible to the feed.                   *)
LEMMA FeedStep ==
  ASSUME TypeOK, Holding, FeedInv, [Next]_vars
  PROVE  [Feed!FeedNext]_(Feed!feedVars)
<1>1. ASSUME NEW c \in Clients, WrWrite(c) PROVE Feed!FeedNext
  <2> DEFINE p == wmsg[c].by
  <2>1. wmsg[c] # NoMessage /\ wmsg[c] \in Message
    BY <1>1, FeedTypes DEF Holding, WrWrite
  <2>2. p \in Publishers /\ Held(c, p) = wmsg[c].frame
    BY <2>1 DEF Message, Held
  <2>3. /\ last[c][p] \in Nat /\ Held(c, p) \in Nat /\ frame[p] \in Nat
        /\ last[c][p] < Held(c, p) /\ Held(c, p) <= frame[p] /\ RoomOf[p] = Name[c]
    <3>1. last[c][p] \in Nat /\ Held(c, p) \in Nat /\ frame[p] \in Nat
      BY <2>2, FeedTypes
    <3>2. QueueOrder(c, p) /\ OnlyItsRoom(c)
      BY <2>2 DEF FeedInv
    <3> QED
      BY <2>1, <3>1, <3>2 DEF QueueOrder, OnlyItsRoom
  <2>4. wmsg[c].frame \in (last[c][p] + 1) .. frame[p]
    BY <2>2, <2>3
  <2>5. /\ last' = [last EXCEPT ![c][p] = wmsg[c].frame]
        /\ writes' = [writes EXCEPT ![c] = @ + 1]
        /\ UNCHANGED frame
    BY <1>1 DEF WrWrite, emVars
  <2>6. Feed!Show(c, p)
    BY <2>3, <2>4, <2>5 DEF Feed!Show
  <2>7. QED
    BY <2>2, <2>6 DEF Feed!FeedNext
<1>2. ASSUME NEW p \in Publishers, FrameReady(p) PROVE Feed!FeedNext
  BY <1>2 DEF Feed!FeedNext, Feed!Publish, FrameReady, writeVars
<1>3. ASSUME NEW c \in Clients,
             Connect(c) \/ PeerFails(c) \/ Join(c) \/ Close(c) \/ Heartbeat(c)
             \/ HbLock(c) \/ ReadPump(c)
      PROVE  UNCHANGED <<frame, last, writes>>
  BY <1>3 DEF Connect, PeerFails, Join, JoinExit, JoinAdd, Close, CloseChan, CloseSend,
     CloseConn, CloseExit, CloseStage, Heartbeat, HbPing, HbPingFails, HbReturn,
     HbLock, ReadPump, RdCloseError, RdError, RdReturn, writeVars, emVars
<1>4. ASSUME NEW c \in Clients,
             WrTop(c) \/ WrRecv(c) \/ WrWriteFails(c) \/ WrReturn(c) \/ WrLock(c)
      PROVE  UNCHANGED <<frame, last, writes>>
  BY <1>4 DEF WrTop, WrRecv, WrWriteFails, WrReturn, WrLock, emVars
<1>5. ASSUME NEW p \in Publishers, Publisher(p) \/ ConcurrentMapFault(p)
      PROVE  UNCHANGED <<frame, last, writes>>
  BY <1>5 DEF Publisher, To, RoomEmit, EmitSend, EmitPanic, EmitReturn,
     ConcurrentMapFault, writeVars, emVars
<1>6. UNCHANGED vars => UNCHANGED <<frame, last, writes>>
  BY DEF vars, writeVars, emVars
<1>7. Feed!FeedNext \/ UNCHANGED <<frame, last, writes>>
  BY <1>1, <1>2, <1>3, <1>4, <1>5, <1>6 DEF Next, SendPump
<1>8. QED
  BY <1>7 DEF Feed!feedVars

(* The frames socket shows every viewer the frames of each publisher of    *)
(* its stream in order and without repetition, for any number of viewers,  *)
(* rooms, publishers and frames.                                           *)
THEOREM FeedCorrect == Spec => ImplementsFeed
<1>1. Init => FeedInv
  BY SocketAssumption
  DEF Init, FeedInv, QueueOrder, NotYetSent, OnlyItsRoom, NotBeforeJoin, MayBeVisited, Held
<1>2. Init => Feed!FeedInit
  BY DEF Init, Feed!FeedInit
<1>3. TypeOK /\ Holding /\ FeedInv /\ [Next]_vars => FeedInv'
  BY FeedInvStep
<1>4. TypeOK /\ Holding /\ FeedInv /\ [Next]_vars => [Feed!FeedNext]_(Feed!feedVars)
  BY FeedStep
<1>5. QED
  BY <1>1, <1>2, <1>3, <1>4, TypeCorrect, PTL DEF Spec, ImplementsFeed, Feed!FeedSpec
=============================================================================
