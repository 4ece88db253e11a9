---------------------------- MODULE Player_proofs ----------------------------
(***************************************************************************)
(* Proofs about Player: in which order the packets reach the source        *)
(* buffer, which of them are dropped, when they stop moving, and which the *)
(* removals leave in the buffer.                                           *)
(*                                                                         *)
(* The first part of the invariant is about the queue, the packets         *)
(* appended and the events to come: what the buffer holds, and the         *)
(* removals, play no part in it beyond the time they take.  The last part  *)
(* is about the buffer, and what is to be taken from it.                   *)
(***************************************************************************)
EXTENDS Player, FiniteSetTheorems, SequenceTheorems, WellFoundedInduction, TLAPS

-----------------------------------------------------------------------------
(* The queue q and the packets a that were appended, when n packets have   *)
(* arrived; r says whether new packets go to the queue.                    *)

Sorted(s) == \A i, j \in 1 .. Len(s) : i < j => s[i] < s[j]

(* The packets of q come after those of a, but for one at most.            *)
PassedOnce(q, a) ==
  \A i \in 1 .. Len(q) : \A j, k \in 1 .. Len(a) :
    (a[j] > q[i] /\ a[k] > q[i]) => j = k

AllBefore(a, q) == \A i \in 1 .. Len(q) : \A j \in 1 .. Len(a) : a[j] < q[i]

Overtaken(a) ==
  \A i, j, k \in 1 .. Len(a) :
    (i < k /\ j < k /\ a[i] > a[k] /\ a[j] > a[k]) => i = j

QueueInv(q, a, n, r) ==
  /\ q \in Seq(Packet) /\ a \in Seq(Packet) /\ n \in 0 .. MaxPacket
  /\ \A i \in 1 .. Len(q) : q[i] <= n
  /\ \A i \in 1 .. Len(a) : a[i] <= n
  /\ Sorted(q)
  /\ PassedOnce(q, a)
  /\ ~r => AllBefore(a, q)
  /\ Overtaken(a)

(* What a suffix of a sequence holds, and where.                           *)
LEMMA SuffixAt ==
  ASSUME NEW S, NEW q \in Seq(S), NEW m \in 1 .. Len(q) + 1
  PROVE  /\ SubSeq(q, m, Len(q)) \in Seq(S)
         /\ Len(SubSeq(q, m, Len(q))) = Len(q) - m + 1
         /\ \A i \in 1 .. Len(q) - m + 1 :
              /\ SubSeq(q, m, Len(q))[i] = q[m - 1 + i]
              /\ m - 1 + i \in 1 .. Len(q)
<1>1. Len(q) \in Nat
  OBVIOUS
<1>2. \A i \in m .. Len(q) : q[i] \in S
  OBVIOUS
<1>3. QED
  BY <1>1, <1>2, SubSeqProperties

(* The queue may lose its first packets.                                   *)
LEMMA SuffixKeeps ==
  ASSUME NEW q, NEW a, NEW n, NEW r, QueueInv(q, a, n, r), NEW m \in 1 .. Len(q) + 1
  PROVE  QueueInv(SubSeq(q, m, Len(q)), a, n, r)
<1> DEFINE s == SubSeq(q, m, Len(q))
<1>1. /\ q \in Seq(Packet) /\ a \in Seq(Packet)
      /\ Len(q) \in Nat
  BY DEF QueueInv
<1>2. /\ s \in Seq(Packet)
      /\ Len(s) = Len(q) - m + 1
      /\ \A i \in 1 .. Len(q) - m + 1 : s[i] = q[m - 1 + i] /\ m - 1 + i \in 1 .. Len(q)
  BY <1>1, SuffixAt
<1> HIDE DEF s
<1>3. \A i \in 1 .. Len(s) : \E j \in 1 .. Len(q) : s[i] = q[j]
  BY <1>1, <1>2
<1>4. Sorted(s)
  <2>1. SUFFICES ASSUME NEW i \in 1 .. Len(s), NEW j \in 1 .. Len(s), i < j
                 PROVE  s[i] < s[j]
    BY DEF Sorted
  <2>2. m - 1 + i < m - 1 + j
    BY <1>1, <2>1
  <2>3. QED
    BY <1>2, <2>1, <2>2 DEF QueueInv, Sorted
<1>5. \A i \in 1 .. Len(s) : s[i] <= n
  BY <1>3 DEF QueueInv
<1>6. PassedOnce(s, a)
  BY <1>3 DEF QueueInv, PassedOnce
<1>7. ~r => AllBefore(a, s)
  BY <1>3 DEF QueueInv, AllBefore
<1>8. QED
  BY <1>1, <1>2, <1>4, <1>5, <1>6, <1>7 DEF QueueInv, s

(* Where the elements stand after one has been added at the end.           *)
LEMMA AppendAt ==
  ASSUME NEW S, NEW q \in Seq(S), NEW x \in S
  PROVE  /\ Append(q, x) \in Seq(S)
         /\ Len(q) \in Nat
         /\ Len(Append(q, x)) = Len(q) + 1
         /\ \A i \in 1 .. Len(q) : Append(q, x)[i] = q[i]
         /\ Append(q, x)[Len(q) + 1] = x
OBVIOUS

(* The next packet may join the queue.                                     *)
LEMMA JoinKeeps ==
  ASSUME NEW q, NEW a, NEW n, NEW r, QueueInv(q, a, n, r), n < MaxPacket
  PROVE  QueueInv(Append(q, n + 1), a, n + 1, r)
<1> DEFINE s == Append(q, n + 1)
<1>1. /\ q \in Seq(Packet) /\ a \in Seq(Packet) /\ n \in Nat
      /\ n + 1 \in Packet /\ n + 1 \in 0 .. MaxPacket
  BY PlayerAssumption DEF QueueInv, Packet
<1>2. /\ s \in Seq(Packet) /\ Len(q) \in Nat /\ Len(s) = Len(q) + 1
      /\ \A i \in 1 .. Len(q) : s[i] = q[i]
      /\ s[Len(q) + 1] = n + 1
  BY <1>1, AppendAt
<1> HIDE DEF s
<1>3. \A i \in 1 .. Len(q) : q[i] \in Packet /\ q[i] <= n
  BY <1>1 DEF QueueInv
<1>4. \A i \in 1 .. Len(a) : a[i] \in Packet /\ a[i] <= n
  BY <1>1 DEF QueueInv
<1>5. \A i \in 1 .. Len(s) : i \in 1 .. Len(q) \/ i = Len(q) + 1
  BY <1>2
<1>6. \A i \in 1 .. Len(a) : a[i] < n + 1
  BY <1>1, <1>4 DEF Packet
<1>7. Sorted(s)
  <2>1. SUFFICES ASSUME NEW i \in 1 .. Len(s), NEW j \in 1 .. Len(s), i < j
                 PROVE  s[i] < s[j]
    BY DEF Sorted
  <2>2. i \in 1 .. Len(q)
    BY <1>2, <2>1
  <2>3. CASE j \in 1 .. Len(q)
    BY <1>2, <2>1, <2>2, <2>3 DEF QueueInv, Sorted
  <2>4. CASE j = Len(q) + 1
    BY <1>1, <1>2, <1>3, <2>2, <2>4 DEF Packet
  <2>5. QED
    BY <1>5, <2>3, <2>4
<1>8. \A i \in 1 .. Len(s) : s[i] <= n + 1
  BY <1>1, <1>2, <1>3, <1>5 DEF Packet
<1>9. PassedOnce(s, a)
  <2>1. SUFFICES ASSUME NEW i \in 1 .. Len(s), NEW j \in 1 .. Len(a), NEW k \in 1 .. Len(a),
                        a[j] > s[i], a[k] > s[i]
                 PROVE  j = k
    BY DEF PassedOnce
  <2>2. i # Len(q) + 1
    BY <1>1, <1>2, <1>4, <2>1 DEF Packet
  <2>3. QED
    BY <1>2, <1>5, <2>1, <2>2 DEF QueueInv, PassedOnce
<1>10. ~r => AllBefore(a, s)
  BY <1>2, <1>5, <1>6 DEF QueueInv, AllBefore
<1>11. \A i \in 1 .. Len(a) : a[i] <= n + 1
  BY <1>1, <1>4 DEF Packet
<1>12. QED
  BY <1>1, <1>2, <1>7, <1>8, <1>9, <1>10, <1>11 DEF QueueInv, s

(* It joins a queue from which the oldest may have been cut.               *)
LEMMA PushedKeeps ==
  ASSUME NEW q, NEW a, NEW n, NEW r, QueueInv(q, a, n, r), n < MaxPacket
  PROVE  /\ QueueInv(Pushed(q, n + 1), a, n + 1, r)
         /\ Pushed(q, n + 1) # <<>>
<1>1. q \in Seq(Packet) /\ Len(q) \in Nat /\ n + 1 \in Packet
  BY PlayerAssumption DEF QueueInv, Packet
<1> DEFINE m == IF Len(q) > MAX_QUEUE_LENGTH THEN Len(q) - MAX_QUEUE_LENGTH + 1 ELSE 1
<1>2. m \in 1 .. Len(q) + 1
  BY <1>1, PlayerAssumption
<1>3. Newest(q, MAX_QUEUE_LENGTH) = SubSeq(q, m, Len(q))
  BY DEF Newest
<1> HIDE DEF m
<1>4. QueueInv(Newest(q, MAX_QUEUE_LENGTH), a, n, r)
  BY <1>2, <1>3, SuffixKeeps
<1> DEFINE w == Newest(q, MAX_QUEUE_LENGTH)
<1>5. w \in Seq(Packet)
  BY <1>4 DEF QueueInv
<1> HIDE DEF w
<1>6. Append(w, n + 1) # <<>>
  BY <1>1, <1>5
<1>7. QueueInv(Append(w, n + 1), a, n + 1, r)
  BY <1>4, JoinKeeps DEF w
<1>8. QED
  BY <1>6, <1>7 DEF Pushed, w

(* The first of the queue may be appended.                                 *)
LEMMA HeadAppendedKeeps ==
  ASSUME NEW q, NEW a, NEW n, NEW r, QueueInv(q, a, n, r), q # <<>>
  PROVE  QueueInv(Tail(q), Append(a, Head(q)), n, r)
<1> DEFINE s == SubSeq(q, 2, Len(q))
           b == Append(a, Head(q))
<1>1. /\ q \in Seq(Packet) /\ a \in Seq(Packet) /\ n \in Nat
      /\ Len(q) \in Nat /\ Len(q) >= 1 /\ Head(q) = q[1] /\ q[1] \in Packet
      /\ 2 \in 1 .. Len(q) + 1
  BY DEF QueueInv
<1>2. Tail(q) = s
  BY <1>1
<1>3. /\ s \in Seq(Packet) /\ Len(s) = Len(q) - 1
      /\ \A i \in 1 .. Len(q) - 1 : s[i] = q[1 + i] /\ 1 + i \in 1 .. Len(q)
  <2>1. /\ s \in Seq(Packet) /\ Len(s) = Len(q) - 2 + 1
        /\ \A i \in 1 .. Len(q) - 2 + 1 : s[i] = q[2 - 1 + i] /\ 2 - 1 + i \in 1 .. Len(q)
    BY <1>1, SuffixAt
  <2> HIDE DEF s
  <2>2. Len(q) - 2 + 1 = Len(q) - 1 /\ 2 - 1 = 1
    BY <1>1
  <2>3. QED
    BY <2>1, <2>2
<1>4. QueueInv(s, a, n, r)
  BY <1>1, SuffixKeeps
<1>5. /\ b \in Seq(Packet) /\ Len(a) \in Nat /\ Len(b) = Len(a) + 1
      /\ \A i \in 1 .. Len(a) : b[i] = a[i]
      /\ b[Len(a) + 1] = q[1]
  BY <1>1, AppendAt
<1> HIDE DEF s, b
<1>6. \A i \in 1 .. Len(b) : i \in 1 .. Len(a) \/ i = Len(a) + 1
  BY <1>5
<1>7. \A i \in 1 .. Len(s) : q[1] < s[i] /\ s[i] \in Packet
  <2>1. SUFFICES ASSUME NEW i \in 1 .. Len(s)
                 PROVE  q[1] < s[i] /\ s[i] \in Packet
    OBVIOUS
  <2>2. s[i] = q[1 + i] /\ 1 + i \in 1 .. Len(q) /\ s[i] \in Packet
    BY <1>3, <2>1
  <2>3. 1 \in 1 .. Len(q) /\ 1 < 1 + i
    BY <1>1, <2>1
  <2>4. q[1] < q[1 + i]
    BY <2>2, <2>3 DEF QueueInv, Sorted
  <2>5. QED
    BY <2>2, <2>4
<1>8. \A i \in 1 .. Len(b) : b[i] <= n
  <2>1. q[1] <= n
    BY <1>1 DEF QueueInv
  <2>2. QED
    BY <1>5, <1>6, <2>1 DEF QueueInv
<1>9. PassedOnce(s, b)
  <2>1. SUFFICES ASSUME NEW i \in 1 .. Len(s), NEW j \in 1 .. Len(b), NEW k \in 1 .. Len(b),
                        b[j] > s[i], b[k] > s[i]
                 PROVE  j = k
    BY DEF PassedOnce
  <2>2. ~(q[1] > s[i])
    BY <1>1, <1>7 DEF Packet
  <2>3. j # Len(a) + 1 /\ k # Len(a) + 1
    BY <1>5, <2>1, <2>2
  <2>4. QED
    BY <1>4, <1>5, <1>6, <2>1, <2>3 DEF QueueInv, PassedOnce
<1>10. ~r => AllBefore(b, s)
  BY <1>4, <1>5, <1>6, <1>7 DEF QueueInv, AllBefore
<1>11. Overtaken(b)
  <2>1. SUFFICES ASSUME NEW i \in 1 .. Len(b), NEW j \in 1 .. Len(b), NEW k \in 1 .. Len(b),
                        i < k, j < k, b[i] > b[k], b[j] > b[k]
                 PROVE  i = j
    BY DEF Overtaken
  <2>2. i \in 1 .. Len(a) /\ j \in 1 .. Len(a)
    BY <1>5, <2>1
  <2>3. CASE k \in 1 .. Len(a)
    BY <1>5, <2>1, <2>2, <2>3 DEF QueueInv, Overtaken
  <2>4. CASE k = Len(a) + 1
    <3>1. a[i] > q[1] /\ a[j] > q[1]
      BY <1>5, <2>1, <2>2, <2>4
    <3>2. 1 \in 1 .. Len(q)
      BY <1>1
    <3>3. QED
      BY <2>2, <3>1, <3>2 DEF QueueInv, PassedOnce
  <2>5. QED
    BY <1>6, <2>3, <2>4
<1>12. QED
  BY <1>2, <1>4, <1>5, <1>8, <1>9, <1>10, <1>11 DEF QueueInv, b

(* It may be put back, or dropped.                                         *)
LEMMA HeadKeptKeeps ==
  ASSUME NEW q, NEW a, NEW n, NEW r, QueueInv(q, a, n, r), q # <<>>
  PROVE  QueueInv(Unshifted(Tail(q), Head(q)), a, n, r)
<1>1. q \in Seq(Packet) /\ Len(q) \in Nat /\ 2 \in 1 .. Len(q) + 1
  BY DEF QueueInv
<1>2. Tail(q) = SubSeq(q, 2, Len(q)) /\ <<Head(q)>> \o Tail(q) = q
  BY <1>1
<1>3. QueueInv(Tail(q), a, n, r)
  BY <1>1, <1>2, SuffixKeeps
<1>4. QED
  BY <1>2, <1>3 DEF Unshifted

(* A packet may be appended on its arrival if all before it come before    *)
(* those in the queue; new packets go to the queue from then on.           *)
LEMMA FirstKeeps ==
  ASSUME NEW q, NEW a, NEW n, QueueInv(q, a, n, FALSE), n < MaxPacket
  PROVE  QueueInv(q, Append(a, n + 1), n + 1, TRUE)
<1> DEFINE b == Append(a, n + 1)
<1>1. /\ q \in Seq(Packet) /\ a \in Seq(Packet) /\ n \in Nat
      /\ n + 1 \in Packet /\ n + 1 \in 0 .. MaxPacket
  BY PlayerAssumption DEF QueueInv, Packet
<1>2. /\ b \in Seq(Packet) /\ Len(a) \in Nat /\ Len(b) = Len(a) + 1
      /\ \A i \in 1 .. Len(a) : b[i] = a[i]
      /\ b[Len(a) + 1] = n + 1
  BY <1>1, AppendAt
<1> HIDE DEF b
<1>3. \A i \in 1 .. Len(b) : i \in 1 .. Len(a) \/ i = Len(a) + 1
  BY <1>2
<1>4. \A i \in 1 .. Len(q) : q[i] \in Packet /\ q[i] <= n + 1
  <2>1. \A i \in 1 .. Len(q) : q[i] \in Packet /\ q[i] <= n
    BY <1>1 DEF QueueInv
  <2>2. QED
    BY <1>1, <2>1 DEF Packet
<1>5. \A i \in 1 .. Len(a) : a[i] \in Packet /\ a[i] < n + 1
  <2>1. \A i \in 1 .. Len(a) : a[i] \in Packet /\ a[i] <= n
    BY <1>1 DEF QueueInv
  <2>2. QED
    BY <1>1, <2>1 DEF Packet
<1>6. \A i \in 1 .. Len(b) : b[i] <= n + 1
  BY <1>1, <1>2, <1>3, <1>5 DEF Packet
<1>7. PassedOnce(q, b)
  <2>1. SUFFICES ASSUME NEW i \in 1 .. Len(q), NEW j \in 1 .. Len(b),
                        b[j] > q[i]
                 PROVE  j = Len(a) + 1
    BY DEF PassedOnce
  <2>2. CASE j \in 1 .. Len(a)
    <3>1. a[j] < q[i]
      BY <2>2 DEF QueueInv, AllBefore
    <3>2. QED
      BY <1>2, <1>4, <1>5, <2>1, <2>2, <3>1 DEF Packet
  <2>3. QED
    BY <1>3, <2>2
<1>8. Overtaken(b)
  <2>1. SUFFICES ASSUME NEW i \in 1 .. Len(b), NEW j \in 1 .. Len(b), NEW k \in 1 .. Len(b),
                        i < k, j < k, b[i] > b[k], b[j] > b[k]
                 PROVE  i = j
    BY DEF Overtaken
  <2>2. i \in 1 .. Len(a) /\ j \in 1 .. Len(a)
    BY <1>2, <2>1
  <2>3. k # Len(a) + 1
    BY <1>1, <1>2, <1>5, <2>1, <2>2 DEF Packet
  <2>4. QED
    BY <1>2, <1>3, <2>1, <2>2, <2>3 DEF QueueInv, Overtaken
<1>9. Sorted(q)
  BY DEF QueueInv
<1>10. QED
  BY <1>1, <1>2, <1>4, <1>6, <1>7, <1>8, <1>9 DEF QueueInv, b

(* With nothing in the queue it does not matter where new packets go.      *)
LEMMA EmptyKeeps ==
  ASSUME NEW a, NEW n, NEW r, NEW s, QueueInv(<<>>, a, n, r)
  PROVE  QueueInv(<<>>, a, n, s)
BY DEF QueueInv, AllBefore

-----------------------------------------------------------------------------
(* Steps.                                                                  *)

(* pushPacket: the first of the queue is appended or put back.             *)
LEMMA PushPacketStep ==
  ASSUME NEW q, NEW n, NEW r, QueueInv(q, appended, n, r), q # <<>>,
         PacketPushed(q) \/ PacketKept(q)
  PROVE  QueueInv(queue', appended', n, r)
<1>1. CASE PacketPushed(q)
  BY <1>1, HeadAppendedKeeps DEF PacketPushed, Appends
<1>2. CASE PacketKept(q)
  BY <1>2, HeadKeptKeeps DEF PacketKept, Refuses
<1>3. QED
  BY <1>1, <1>2

(* A refused append: the buffer was busy, missing, or it threw.             *)
LEMMA RefusesThrows ==
  Refuses => /\ threw' \in BOOLEAN
             /\ source_buffer = "idle" => threw'
             /\ threw => threw'
             /\ appended' = appended
BY Zenon DEF Refuses

(* A removal that waited is made by an idle buffer only.                   *)
LEMMA NextRemovalStep ==
  NextRemoval => \/ source_buffer' = source_buffer
                 \/ source_buffer = "idle" /\ source_buffer' = "remove"
BY DEF NextRemoval

TypeInv ==
  /\ source_buffer \in {"none", "idle", "append", "remove"}
  /\ ends \in Nat
  /\ ready \in BOOLEAN /\ threw \in BOOLEAN /\ disturbed \in BOOLEAN
  /\ queue \in Seq(Packet)

OrderInv == QueueInv(queue, appended, arrived, ready)

(* Types are kept.                                                         *)
LEMMA TypeStep == TypeInv /\ OrderInv' /\ [Next]_vars => TypeInv'
<1> SUFFICES ASSUME TypeInv, OrderInv', [Next]_vars PROVE TypeInv'
  OBVIOUS
<1>0. queue' \in Seq(Packet)
  BY DEF OrderInv, QueueInv
<1> USE DEF TypeInv
<1>1. CASE UNCHANGED vars
  BY <1>1 DEF vars, bufferVars
<1>2. CASE Next
  <2>1. disturbed' \in BOOLEAN
    BY <1>2 DEF Next, Step
  <2>2. CASE Sdp
    BY <1>0, <2>1, <2>2 DEF Sdp
  <2>3. CASE ReadPacket
    <3>0. ends' = ends
      BY <2>3 DEF ReadPacket
    <3>1. CASE FirstPacket(arrived + 1)
      BY <1>0, <2>1, <3>0, <3>1 DEF FirstPacket, Appends
    <3>2. CASE ~ready /\ UNCHANGED ready /\ PacketPushed(Pushed(queue, arrived + 1))
      BY <1>0, <2>1, <3>0, <3>2 DEF PacketPushed, Appends
    <3>3. CASE ~ready /\ UNCHANGED ready /\ PacketKept(Pushed(queue, arrived + 1))
            /\ UNCHANGED source_buffer
      BY <1>0, <2>1, <3>0, <3>3 DEF PacketKept, Refuses
    <3>4. CASE QueuedPacket(arrived + 1)
      BY <1>0, <2>1, <3>0, <3>4 DEF QueuedPacket
    <3>5. QED
      BY <2>3, <3>1, <3>2, <3>3, <3>4 DEF ReadPacket, RefusedPacket
  <2>4. CASE AppendDone
    BY <1>0, <2>1, <2>4 DEF AppendDone
  <2>5. CASE RemoveDone
    BY <1>0, <2>1, <2>5 DEF RemoveDone
  <2>6. CASE UpdateEnd
    <3>0. ends' \in Nat
      BY <2>6 DEF UpdateEnd
    <3>1. CASE NothingQueued
      BY <1>0, <2>1, <3>0, <3>1, NextRemovalStep DEF NothingQueued
    <3>2. CASE PacketPushed(queue) /\ UNCHANGED ready
      BY <1>0, <2>1, <3>0, <3>2 DEF PacketPushed, Appends
    <3>3. CASE PacketKept(queue) /\ UNCHANGED ready /\ NextRemoval
      BY <1>0, <2>1, <3>0, <3>3, NextRemovalStep, RefusesThrows DEF PacketKept
    <3>4. QED
      BY <2>6, <3>1, <3>2, <3>3 DEF UpdateEnd
  <2>7. CASE ClearBuffer
    BY <1>0, <2>1, <2>7 DEF ClearBuffer
  <2>8. QED
    BY <1>2, <2>2, <2>3, <2>4, <2>5, <2>6, <2>7 DEF Next, Step
<1>3. QED
  BY <1>1, <1>2

(* The order of the queue is kept.                                         *)
LEMMA OrderStep == TypeInv /\ OrderInv /\ [Next]_vars => OrderInv'
<1> SUFFICES ASSUME TypeInv, OrderInv, [Next]_vars PROVE OrderInv'
  OBVIOUS
<1>1. CASE UNCHANGED <<queue, appended, arrived, ready>>
  BY <1>1 DEF OrderInv
<1>2. CASE ReadPacket
  <2>0. arrived < MaxPacket /\ arrived' = arrived + 1
    BY <1>2 DEF ReadPacket
  <2>1. CASE FirstPacket(arrived + 1)
    <3>1. ready = FALSE /\ ready' = TRUE
      BY <2>1 DEF FirstPacket, TypeInv
    <3>2. QED
      BY <2>0, <2>1, <3>1, FirstKeeps DEF OrderInv, FirstPacket, Appends
  <2>2. CASE RefusedPacket(arrived + 1)
    <3>1. /\ QueueInv(Pushed(queue, arrived + 1), appended, arrived + 1, ready)
          /\ Pushed(queue, arrived + 1) # <<>>
      BY <2>0, PushedKeeps DEF OrderInv
    <3>2. \/ PacketPushed(Pushed(queue, arrived + 1))
          \/ PacketKept(Pushed(queue, arrived + 1))
      BY <2>2 DEF RefusedPacket
    <3>3. QueueInv(queue', appended', arrived + 1, ready)
      BY <3>1, <3>2, PushPacketStep
    <3>4. QED
      BY <2>0, <2>2, <3>3 DEF OrderInv, RefusedPacket
  <2>3. CASE QueuedPacket(arrived + 1)
    BY <2>0, <2>3, PushedKeeps DEF OrderInv, QueuedPacket
  <2>4. QED
    BY <1>2, <2>1, <2>2, <2>3 DEF ReadPacket
<1>3. CASE UpdateEnd
  <2>1. CASE NothingQueued
    BY <1>3, <2>1, EmptyKeeps DEF OrderInv, UpdateEnd, NothingQueued
  <2>2. CASE queue # <<>> /\ (PacketPushed(queue) \/ PacketKept(queue)) /\ UNCHANGED ready
    BY <1>3, <2>2, PushPacketStep DEF OrderInv, UpdateEnd
  <2>3. QED
    BY <1>3, <2>1, <2>2 DEF UpdateEnd
<1>4. QED
  BY <1>1, <1>2, <1>3 DEF Next, Step, Sdp, AppendDone, RemoveDone, ClearBuffer,
                          vars, bufferVars

(* Nothing waits before the first packet arrives.                          *)
LEMMA NothingArrived == OrderInv /\ arrived = 0 => queue = <<>>
<1> SUFFICES ASSUME OrderInv, arrived = 0 PROVE queue = <<>>
  OBVIOUS
<1>1. queue \in Seq(Packet) /\ \A i \in 1 .. Len(queue) : queue[i] <= 0
  BY DEF OrderInv, QueueInv
<1>2. \A i \in 1 .. Len(queue) : queue[i] \in Packet
  BY <1>1
<1>3. \A i \in 1 .. Len(queue) : FALSE
  BY <1>1, <1>2 DEF Packet
<1>4. Len(queue) = 0
  BY <1>1, <1>3
<1>5. QED
  BY <1>1, <1>4

(* Packets that wait for the event of an append or a removal, or for one   *)
(* that threw.                                                             *)
StuckInv ==
  /\ (source_buffer = "idle" /\ ends = 0 /\ (ready \/ queue # <<>>)) => threw
  /\ source_buffer = "none" => ~ready /\ ends = 0 /\ appended = <<>>

(* A wait without an event to come begins with an append that threw.       *)
LEMMA StuckStep == TypeInv /\ OrderInv /\ StuckInv /\ [Next]_vars => StuckInv'
<1> SUFFICES ASSUME TypeInv, OrderInv, StuckInv, [Next]_vars PROVE StuckInv'
  OBVIOUS
<1> USE DEF TypeInv, StuckInv
<1>1. CASE UNCHANGED vars
  BY <1>1 DEF vars, bufferVars
<1>2. CASE Sdp
  <2>1. arrived = 0 /\ queue' = queue /\ ready' = ready
    BY <1>2 DEF Sdp
  <2>2. queue = <<>>
    BY <2>1, NothingArrived
  <2>3. ~ready
    BY <1>2 DEF Sdp
  <2>4. QED
    BY <1>2, <2>1, <2>2, <2>3 DEF Sdp
<1>3. CASE ReadPacket
  <2>0. ends' = ends
    BY <1>3 DEF ReadPacket
  <2>1. CASE FirstPacket(arrived + 1)
    BY <2>0, <2>1 DEF FirstPacket, Appends
  <2>2. CASE ~ready /\ UNCHANGED ready /\ PacketPushed(Pushed(queue, arrived + 1))
    BY <2>0, <2>2 DEF PacketPushed, Appends
  <2>3. CASE ~ready /\ UNCHANGED ready /\ PacketKept(Pushed(queue, arrived + 1))
          /\ UNCHANGED source_buffer
    BY <2>0, <2>3 DEF PacketKept, Refuses
  <2>4. CASE QueuedPacket(arrived + 1)
    BY <2>0, <2>4 DEF QueuedPacket
  <2>5. QED
    BY <1>3, <2>1, <2>2, <2>3, <2>4 DEF ReadPacket, RefusedPacket
<1>4. CASE AppendDone
  BY <1>4 DEF AppendDone
<1>5. CASE RemoveDone
  BY <1>5 DEF RemoveDone
<1>6. CASE UpdateEnd
  <2>0. ends > 0 /\ ends' = ends - 1
    BY <1>6 DEF UpdateEnd
  <2>1. CASE NothingQueued
    BY <2>0, <2>1, NextRemovalStep DEF NothingQueued
  <2>2. CASE queue # <<>> /\ PacketPushed(queue) /\ UNCHANGED ready
    BY <2>0, <2>2 DEF PacketPushed, Appends
  <2>3. CASE queue # <<>> /\ PacketKept(queue) /\ UNCHANGED ready /\ NextRemoval
    BY <2>0, <2>3, NextRemovalStep, RefusesThrows DEF PacketKept
  <2>4. QED
    BY <1>6, <2>1, <2>2, <2>3 DEF UpdateEnd
<1>7. CASE ClearBuffer
  BY <1>7 DEF ClearBuffer
<1>8. QED
  BY <1>1, <1>2, <1>3, <1>4, <1>5, <1>6, <1>7 DEF Next, Step

-----------------------------------------------------------------------------
(* While nothing throws and nothing is removed, the flag says whether the  *)
(* buffer is at work, and the queue comes after what was appended.         *)

CalmFlags ==
  /\ source_buffer # "remove"
  /\ source_buffer # "none" =>
       /\ ready <=> (source_buffer = "append" \/ ends > 0)
       /\ ends <= 1
       /\ source_buffer = "append" => ends = 0
       /\ queue # <<>> => ready

CalmOrder == QueueInv(queue, appended, arrived, FALSE) /\ Sorted(appended)

CalmInv == ~disturbed => CalmFlags /\ CalmOrder

(* A step that leaves it undisturbed.                                      *)
LEMMA CalmNext ==
  Next /\ ~disturbed' => /\ Step
                         /\ ~disturbed /\ ~threw' /\ ~FirstThrew
                         /\ source_buffer' # "remove"
BY Zenon DEF Next

(* An append that is refused then leaves a buffer that was not idle.       *)
LEMMA CalmRefuses == Refuses /\ ~threw' => source_buffer # "idle"
BY Zenon DEF Refuses

(* The flag stays right as long as nothing is disturbed.                   *)
LEMMA CalmFlagsStep ==
  TypeInv /\ OrderInv /\ StuckInv /\ CalmFlags /\ Next /\ ~disturbed' => CalmFlags'
<1> SUFFICES ASSUME TypeInv, OrderInv, StuckInv, CalmFlags, Next, ~disturbed'
             PROVE  CalmFlags'
  OBVIOUS
<1> USE DEF TypeInv, CalmFlags
<1>0. Step /\ ~threw' /\ ~FirstThrew /\ source_buffer' # "remove"
  BY CalmNext
<1>1. CASE Sdp
  <2>1. queue' = <<>> /\ ~ready' /\ ends' = 0
    BY <1>1, NothingArrived DEF Sdp, StuckInv
  <2>2. QED
    BY <1>1, <2>1 DEF Sdp
<1>2. CASE ReadPacket
  <2>0. ends' = ends /\ arrived' # arrived
    <3>1. arrived' = arrived + 1 /\ arrived \in Nat
      BY <1>2 DEF ReadPacket, OrderInv, QueueInv
    <3>2. QED
      BY <1>2, <3>1 DEF ReadPacket
  <2>1. CASE FirstPacket(arrived + 1)
    BY <2>0, <2>1 DEF FirstPacket, Appends
  <2>2. CASE RefusedPacket(arrived + 1)
    <3>1. source_buffer # "idle"
      BY <1>0, <2>0, <2>2 DEF FirstThrew, RefusedPacket
    <3>2. UNCHANGED <<ready, source_buffer>>
      BY <2>2, <3>1 DEF RefusedPacket, PacketPushed, Appends
    <3>3. ~ready
      BY <2>2 DEF RefusedPacket
    <3>4. source_buffer = "none"
      BY <3>1, <3>3
    <3>5. QED
      BY <3>2, <3>4
  <2>3. CASE QueuedPacket(arrived + 1)
    BY <2>0, <2>3 DEF QueuedPacket
  <2>4. QED
    BY <1>2, <2>1, <2>2, <2>3 DEF ReadPacket
<1>3. CASE AppendDone
  BY <1>3 DEF AppendDone
<1>4. CASE RemoveDone
  BY <1>4 DEF RemoveDone
<1>5. CASE UpdateEnd
  <2>0. ends > 0 /\ ends' = ends - 1
    BY <1>5 DEF UpdateEnd
  <2>1. source_buffer = "idle" /\ ends' = 0
    BY <2>0 DEF StuckInv
  <2>2. CASE NothingQueued
    <3>1. source_buffer' = source_buffer
      BY <1>0, <2>2, NextRemovalStep DEF NothingQueued
    <3>2. QED
      BY <2>1, <2>2, <3>1 DEF NothingQueued
  <2>3. CASE queue # <<>> /\ PacketPushed(queue) /\ UNCHANGED ready
    BY <2>0, <2>1, <2>3 DEF PacketPushed, Appends
  <2>4. CASE PacketKept(queue)
    BY <1>0, <2>1, <2>4, CalmRefuses DEF PacketKept
  <2>5. QED
    BY <1>5, <2>2, <2>3, <2>4 DEF UpdateEnd
<1>6. CASE ClearBuffer
  BY <1>0, <1>6 DEF ClearBuffer
<1>7. QED
  BY <1>0, <1>1, <1>2, <1>3, <1>4, <1>5, <1>6 DEF Step

(* What comes after all others may be appended.                            *)
LEMMA AppendSorted ==
  ASSUME NEW a \in Seq(Packet), NEW x \in Packet, Sorted(a),
         \A i \in 1 .. Len(a) : a[i] < x
  PROVE  Sorted(Append(a, x))
<1> DEFINE b == Append(a, x)
<1>1. /\ Len(a) \in Nat /\ Len(b) = Len(a) + 1
      /\ \A i \in 1 .. Len(a) : b[i] = a[i]
      /\ b[Len(a) + 1] = x
  BY AppendAt
<1> HIDE DEF b
<1>2. SUFFICES ASSUME NEW i \in 1 .. Len(b), NEW j \in 1 .. Len(b), i < j
               PROVE  b[i] < b[j]
  BY DEF Sorted, b
<1>3. i \in 1 .. Len(a) /\ (j \in 1 .. Len(a) \/ j = Len(a) + 1)
  BY <1>1, <1>2
<1>4. QED
  BY <1>1, <1>2, <1>3 DEF Sorted

(* So may the first of a queue that comes after all that was appended.     *)
LEMMA HeadSorted ==
  ASSUME NEW q, NEW a, NEW n, QueueInv(q, a, n, FALSE), Sorted(a), q # <<>>
  PROVE  Sorted(Append(a, Head(q)))
<1>1. q \in Seq(Packet) /\ a \in Seq(Packet)
  BY DEF QueueInv
<1>2. Head(q) = q[1] /\ Head(q) \in Packet /\ 1 \in 1 .. Len(q)
  BY <1>1
<1>3. \A i \in 1 .. Len(a) : a[i] < Head(q)
  BY <1>2 DEF QueueInv, AllBefore
<1>4. QED
  BY <1>1, <1>2, <1>3, AppendSorted

(* The order stays right as long as nothing is disturbed.                  *)
LEMMA CalmOrderStep ==
  TypeInv /\ StuckInv /\ CalmFlags /\ CalmOrder /\ Next /\ ~disturbed' => CalmOrder'
<1> SUFFICES ASSUME TypeInv, StuckInv, CalmFlags, CalmOrder, Next, ~disturbed'
             PROVE  CalmOrder'
  OBVIOUS
<1>0. Step /\ ~threw' /\ ~FirstThrew /\ source_buffer' # "remove"
  BY CalmNext
<1>1. CASE UNCHANGED <<queue, appended, arrived>>
  BY <1>1 DEF CalmOrder
<1>2. CASE ReadPacket
  <2>0. arrived < MaxPacket /\ arrived' = arrived + 1
    BY <1>2 DEF ReadPacket
  <2>1. CASE FirstPacket(arrived + 1)
    <3>1. queue = <<>> /\ queue' = <<>>
      BY <2>1 DEF FirstPacket, Appends, CalmFlags
    <3>2. QueueInv(<<>>, Append(appended, arrived + 1), arrived + 1, FALSE)
      BY <2>0, <3>1, FirstKeeps, EmptyKeeps DEF CalmOrder
    <3>3. Sorted(Append(appended, arrived + 1))
      <4>1. appended \in Seq(Packet) /\ arrived \in Nat /\ arrived + 1 \in Packet
        BY <2>0, PlayerAssumption DEF CalmOrder, QueueInv, Packet
      <4>2. \A i \in 1 .. Len(appended) : appended[i] \in Packet /\ appended[i] <= arrived
        BY <4>1 DEF CalmOrder, QueueInv
      <4>3. \A i \in 1 .. Len(appended) : appended[i] < arrived + 1
        BY <4>1, <4>2 DEF Packet
      <4>4. QED
        BY <4>1, <4>3, AppendSorted DEF CalmOrder
    <3>4. QED
      BY <2>0, <2>1, <3>1, <3>2, <3>3 DEF CalmOrder, FirstPacket, Appends
  <2>2. CASE RefusedPacket(arrived + 1)
    <3> DEFINE p == Pushed(queue, arrived + 1)
    <3>1. QueueInv(p, appended, arrived + 1, FALSE) /\ p # <<>>
      BY <2>0, PushedKeeps DEF CalmOrder
    <3>2. PacketPushed(p) \/ PacketKept(p)
      BY <2>2 DEF RefusedPacket
    <3> HIDE DEF p
    <3>3. QueueInv(queue', appended', arrived + 1, FALSE)
      BY <3>1, <3>2, PushPacketStep
    <3>4. CASE PacketPushed(p)
      BY <2>0, <3>1, <3>3, <3>4, HeadSorted DEF CalmOrder, PacketPushed, Appends
    <3>5. CASE PacketKept(p)
      BY <2>0, <3>3, <3>5 DEF CalmOrder, PacketKept, Refuses
    <3>6. QED
      BY <3>2, <3>4, <3>5
  <2>3. CASE QueuedPacket(arrived + 1)
    BY <2>0, <2>3, PushedKeeps DEF CalmOrder, QueuedPacket
  <2>4. QED
    BY <1>2, <2>1, <2>2, <2>3 DEF ReadPacket
<1>3. CASE UpdateEnd
  <2>1. CASE NothingQueued
    BY <1>3, <2>1 DEF CalmOrder, UpdateEnd, NothingQueued
  <2>2. CASE queue # <<>> /\ PacketPushed(queue)
    <3>1. QueueInv(queue', appended', arrived', FALSE)
      BY <1>3, <2>2, PushPacketStep DEF CalmOrder, UpdateEnd
    <3>2. QED
      BY <2>2, <3>1, HeadSorted DEF CalmOrder, PacketPushed, Appends
  <2>3. CASE queue # <<>> /\ PacketKept(queue)
    <3>1. QueueInv(queue', appended', arrived', FALSE)
      BY <1>3, <2>3, PushPacketStep DEF CalmOrder, UpdateEnd
    <3>2. QED
      BY <2>3, <3>1 DEF CalmOrder, PacketKept, Refuses
  <2>4. QED
    BY <1>3, <2>1, <2>2, <2>3 DEF UpdateEnd
<1>4. QED
  BY <1>0, <1>1, <1>2, <1>3 DEF Step, Sdp, AppendDone, RemoveDone, ClearBuffer

(* Both, for every step.                                                   *)
LEMMA CalmStep ==
  TypeInv /\ OrderInv /\ StuckInv /\ CalmInv /\ [Next]_vars => CalmInv'
<1> SUFFICES ASSUME TypeInv, OrderInv, StuckInv, CalmInv, [Next]_vars, ~disturbed'
             PROVE  CalmFlags' /\ CalmOrder'
  BY DEF CalmInv
<1>1. CASE UNCHANGED vars
  BY <1>1 DEF vars, bufferVars, CalmInv, CalmFlags, CalmOrder
<1>2. CASE Next
  BY <1>2, CalmNext, CalmFlagsStep, CalmOrderStep DEF CalmInv
<1>3. QED
  BY <1>1, <1>2

-----------------------------------------------------------------------------
(* The length of the queue, and what leaves it.                            *)

LenInv == Len(queue) <= MAX_QUEUE_LENGTH + 1

(* Cutting takes the first packet of a queue that is longer than the       *)
(* maximum.                                                                *)
LEMMA NewestAt ==
  ASSUME NEW q \in Seq(Packet), Len(q) <= MAX_QUEUE_LENGTH + 1
  PROVE  LET w == Newest(q, MAX_QUEUE_LENGTH)
         IN  /\ w \in Seq(Packet)
             /\ Len(w) <= MAX_QUEUE_LENGTH
             /\ \A i \in 1 .. Len(q) :
                  In(q[i], w) \/ (i = 1 /\ Len(q) > MAX_QUEUE_LENGTH)
<1> DEFINE m == IF Len(q) > MAX_QUEUE_LENGTH THEN 2 ELSE 1
           w == SubSeq(q, m, Len(q))
<1>1. Len(q) \in Nat /\ MAX_QUEUE_LENGTH \in Nat \ {0}
  BY PlayerAssumption
<1>2. m \in 1 .. Len(q) + 1 /\ m \in {1, 2} /\ Len(q) - m + 1 <= MAX_QUEUE_LENGTH
  BY <1>1
<1>3. Newest(q, MAX_QUEUE_LENGTH) = w
  <2>1. m = IF Len(q) > MAX_QUEUE_LENGTH THEN Len(q) - MAX_QUEUE_LENGTH + 1 ELSE 1
    BY <1>1
  <2> HIDE DEF m
  <2>2. QED
    BY <2>1 DEF Newest
<1>4. m = 2 => Len(q) > MAX_QUEUE_LENGTH
  OBVIOUS
<1> HIDE DEF m
<1>5. /\ w \in Seq(Packet) /\ Len(w) = Len(q) - m + 1
      /\ \A i \in 1 .. Len(q) - m + 1 : w[i] = q[m - 1 + i]
  BY <1>2, SuffixAt
<1> HIDE DEF w
<1>6. ASSUME NEW i \in 1 .. Len(q), i >= m
      PROVE  In(q[i], w)
  <2>1. i - m + 1 \in 1 .. Len(w) /\ m - 1 + (i - m + 1) = i
    BY <1>1, <1>2, <1>5, <1>6
  <2>2. w[i - m + 1] = q[i]
    BY <1>5, <2>1
  <2>3. QED
    BY <2>1, <2>2 DEF In
<1>7. \A i \in 1 .. Len(q) : i >= m \/ (i = 1 /\ m = 2)
  BY <1>1, <1>2
<1>8. QED
  BY <1>2, <1>3, <1>4, <1>5, <1>6, <1>7

(* A packet that is pushed leaves the others where they are, but for the   *)
(* first of a queue that is too long.                                      *)
LEMMA PushedAt ==
  ASSUME NEW q \in Seq(Packet), NEW x \in Packet, Len(q) <= MAX_QUEUE_LENGTH + 1
  PROVE  /\ Pushed(q, x) \in Seq(Packet)
         /\ Len(Pushed(q, x)) <= MAX_QUEUE_LENGTH + 1
         /\ \A i \in 1 .. Len(q) :
              In(q[i], Pushed(q, x)) \/ (i = 1 /\ Len(q) > MAX_QUEUE_LENGTH)
<1> DEFINE w == Newest(q, MAX_QUEUE_LENGTH)
<1>1. /\ w \in Seq(Packet) /\ Len(w) <= MAX_QUEUE_LENGTH
      /\ \A i \in 1 .. Len(q) : In(q[i], w) \/ (i = 1 /\ Len(q) > MAX_QUEUE_LENGTH)
  BY NewestAt
<1> HIDE DEF w
<1>2. /\ Append(w, x) \in Seq(Packet)
      /\ Len(w) \in Nat /\ Len(Append(w, x)) = Len(w) + 1
      /\ \A i \in 1 .. Len(w) : Append(w, x)[i] = w[i]
  BY <1>1, AppendAt
<1>3. Len(Append(w, x)) <= MAX_QUEUE_LENGTH + 1
  BY <1>1, <1>2, PlayerAssumption
<1>4. \A y : In(y, w) => In(y, Append(w, x))
  <2>1. 1 .. Len(w) \subseteq 1 .. Len(Append(w, x))
    BY <1>2
  <2>2. QED
    BY <1>2, <2>1 DEF In
<1>5. QED
  BY <1>1, <1>2, <1>3, <1>4 DEF Pushed, w

(* pushPacket keeps every packet: in the queue or among those appended.    *)
LEMMA PushPacketLoses ==
  ASSUME NEW q \in Seq(Packet), appended \in Seq(Packet), q # <<>>,
         Len(q) <= MAX_QUEUE_LENGTH + 1, PacketPushed(q) \/ PacketKept(q)
  PROVE  /\ Len(queue') <= MAX_QUEUE_LENGTH + 1
         /\ \A i \in 1 .. Len(q) : In(q[i], queue') \/ In(q[i], appended')
<1>1. /\ Len(q) \in Nat /\ Len(q) >= 1 /\ MAX_QUEUE_LENGTH \in Nat
      /\ Head(q) = q[1] /\ q[1] \in Packet
      /\ Len(Tail(q)) = Len(q) - 1
      /\ \A i \in 2 .. Len(q) : Tail(q)[i - 1] = q[i]
      /\ <<Head(q)>> \o Tail(q) = q
  BY PlayerAssumption
<1>2. CASE PacketKept(q)
  <2>1. queue' = q
    <3>1. ~(Len(Tail(q)) > MAX_QUEUE_LENGTH)
      BY <1>1
    <3>2. Unshifted(Tail(q), Head(q)) = q
      BY <1>1, <3>1, Zenon DEF Unshifted
    <3>3. QED
      BY <1>2, <3>2 DEF PacketKept
  <2>2. QED
    BY <2>1 DEF In
<1>3. CASE PacketPushed(q)
  <2>1. queue' = Tail(q) /\ appended' = Append(appended, q[1])
    BY <1>1, <1>3 DEF PacketPushed, Appends
  <2>2. In(q[1], appended')
    <3>1. Len(appended') \in Nat /\ Len(appended') >= 1 /\ appended'[Len(appended')] = q[1]
      BY <1>1, <2>1
    <3>2. QED
      BY <3>1 DEF In
  <2>3. ASSUME NEW i \in 2 .. Len(q)
        PROVE  In(q[i], queue')
    <3>1. i - 1 \in 1 .. Len(queue') /\ queue'[i - 1] = q[i]
      BY <1>1, <2>1
    <3>2. QED
      BY <3>1 DEF In
  <2>4. \A i \in 1 .. Len(q) : i = 1 \/ i \in 2 .. Len(q)
    BY <1>1
  <2>5. Len(queue') <= MAX_QUEUE_LENGTH + 1
    BY <1>1, <2>1
  <2>6. QED
    BY <2>2, <2>3, <2>4, <2>5
<1>4. QED
  BY <1>2, <1>3

(* What a step may drop, by where it stood.                                *)
Drops ==
  /\ Len(queue') <= MAX_QUEUE_LENGTH + 1
  /\ \A i \in 1 .. Len(queue) :
       \/ In(queue[i], queue') \/ In(queue[i], appended')
       \/ i = 1 /\ Len(queue) > MAX_QUEUE_LENGTH

(* Every step drops that at most.                                          *)
LEMMA DropsStep == OrderInv /\ LenInv /\ [Next]_vars => Drops
<1> SUFFICES ASSUME OrderInv, LenInv, [Next]_vars PROVE Drops
  OBVIOUS
<1>0. queue \in Seq(Packet) /\ appended \in Seq(Packet) /\ arrived \in Nat
  BY DEF OrderInv, QueueInv
<1>1. CASE queue' = queue
  BY <1>1 DEF Drops, LenInv, In
<1>2. CASE ReadPacket
  <2> DEFINE p == Pushed(queue, arrived + 1)
  <2>0. arrived + 1 \in Packet
    BY <1>0, <1>2, PlayerAssumption DEF ReadPacket, Packet
  <2>1. /\ p \in Seq(Packet) /\ Len(p) <= MAX_QUEUE_LENGTH + 1
        /\ \A i \in 1 .. Len(queue) :
             In(queue[i], p) \/ (i = 1 /\ Len(queue) > MAX_QUEUE_LENGTH)
    BY <1>0, <2>0, PushedAt DEF LenInv
  <2>2. p # <<>>
    BY <1>2, PushedKeeps DEF OrderInv, ReadPacket
  <2> HIDE DEF p
  <2>3. CASE FirstPacket(arrived + 1)
    BY <1>1, <2>3 DEF FirstPacket
  <2>4. CASE PacketPushed(p) \/ PacketKept(p)
    <3>1. /\ Len(queue') <= MAX_QUEUE_LENGTH + 1
          /\ \A i \in 1 .. Len(p) : In(p[i], queue') \/ In(p[i], appended')
      BY <1>0, <2>1, <2>2, <2>4, PushPacketLoses
    <3>2. \A y : In(y, p) => In(y, queue') \/ In(y, appended')
      BY <3>1 DEF In
    <3>3. QED
      BY <2>1, <3>1, <3>2 DEF Drops
  <2>5. CASE QueuedPacket(arrived + 1)
    BY <2>1, <2>5 DEF QueuedPacket, Drops, p
  <2>6. QED
    BY <1>2, <2>3, <2>4, <2>5 DEF ReadPacket, RefusedPacket, p
<1>3. CASE UpdateEnd
  <2>1. CASE NothingQueued
    BY <1>1, <2>1 DEF NothingQueued
  <2>2. CASE queue # <<>> /\ (PacketPushed(queue) \/ PacketKept(queue))
    BY <1>0, <2>2, PushPacketLoses DEF Drops, LenInv
  <2>3. QED
    BY <1>3, <2>1, <2>2 DEF UpdateEnd
<1>4. QED
  BY <1>1, <1>2, <1>3 DEF Next, Step, Sdp, AppendDone, RemoveDone, ClearBuffer,
                          vars, bufferVars

-----------------------------------------------------------------------------
(* What the buffer holds, and what is taken from it.                       *)

(* A cut that leaves the last BUFFER_MAX_DURATION of what was appended.    *)
Spares(cut, done) == \A x \in cut : \E y \in done : y >= x + BUFFER_MAX_DURATION

Spared(cut) == Spares(cut, Done)

BufferTypes ==
  /\ broken \in BOOLEAN
  /\ appended \in Seq(Packet)
  /\ buffered \in SUBSET Packet
  /\ removing \in SUBSET Packet
  /\ clears \in Seq(SUBSET Packet)
  /\ (source_buffer = "append" \/ broken) => appended # <<>>
  /\ source_buffer = "append" => ~broken

(* What is in the buffer was appended; what is to be taken out lies that   *)
(* far behind something that was; and of what is no longer in it, so does  *)
(* every key frame before it.                                              *)
LostInv ==
  \A i, j \in Over :
    (i <= j /\ appended[i] \in Key /\ appended[i] <= appended[j] /\ appended[j] \notin buffered)
      => \E z \in Done : z >= appended[i] + BUFFER_MAX_DURATION

BufferInv ==
  /\ BufferTypes
  /\ buffered \subseteq Done
  /\ LostInv
  /\ Spared(removing)
  /\ \A i \in 1 .. Len(clears) : Spared(clears[i])

(* A set of natural numbers has a least element.                           *)
LEMMA Least ==
  ASSUME NEW T, T \subseteq Nat, T # {}
  PROVE  \E m \in T : \A k \in T : m <= k
<1> DEFINE R == {ss \in Nat \X Nat : ss[1] < ss[2]}
<1>1. IsWellFoundedOn(R, Nat)
  BY NatLessThanWellFounded DEF OpToRel
<1>2. PICK m \in T : \A k \in T : ~(<<k, m>> \in R)
  <2> HIDE DEF R
  <2>1. QED
    BY <1>1, WFMin
<1>3. ASSUME NEW k \in T PROVE m <= k
  <2>1. k \in Nat /\ m \in Nat /\ <<k, m>>[1] = k /\ <<k, m>>[2] = m
        /\ <<k, m>> \in Nat \X Nat
    OBVIOUS
  <2>2. ~(<<k, m>>[1] < <<k, m>>[2])
    BY <1>2, <2>1
  <2>3. QED
    BY <2>1, <2>2
<1>4. QED
  BY <1>3

(* A set of packets has a last one.                                        *)
LEMMA MaxPacketOf ==
  ASSUME NEW S \in SUBSET Packet, S # {}
  PROVE  Max(S) \in S /\ \A y \in S : Max(S) >= y
<1>1. MaxPacket \in Nat /\ \A x \in S : x \in Nat /\ MaxPacket - x \in Nat
  BY PlayerAssumption DEF Packet
<1> DEFINE T == {MaxPacket - x : x \in S}
<1>2. T \subseteq Nat /\ T # {}
  BY <1>1
<1>3. PICK m \in T : \A k \in T : m <= k
  <2> HIDE DEF T
  <2>1. QED
    BY <1>2, Least
<1>4. PICK x \in S : m = MaxPacket - x
  OBVIOUS
<1>5. ASSUME NEW y \in S PROVE x >= y
  <2>1. m <= MaxPacket - y
    BY <1>3
  <2>2. QED
    BY <1>1, <1>4, <2>1
<1>6. \E z \in S : \A y \in S : z >= y
  BY <1>5
<1>7. QED
  BY <1>6 DEF Max

(* The packets whose append is over are packets.                           *)
LEMMA DoneType ==
  ASSUME BufferTypes
  PROVE  /\ Done \in SUBSET Packet /\ Over \subseteq 1 .. Len(appended)
         /\ \A i \in Over : appended[i] \in Packet /\ appended[i] \in Nat
<1>1. appended \in Seq(Packet) /\ Len(appended) \in Nat /\ Packet \subseteq Nat
  BY PlayerAssumption DEF BufferTypes, Packet
<1>2. Over \subseteq 1 .. Len(appended)
  BY <1>1 DEF Over
<1>3. \A i \in Over : appended[i] \in Packet
  BY <1>1, <1>2
<1>4. QED
  BY <1>1, <1>2, <1>3 DEF Done

(* What is taken from a range lies far behind a packet that was appended.  *)
LEMMA OldSpares ==
  ASSUME buffered \subseteq Done, Done \in SUBSET Packet, NEW i \in buffered,
         NEW currentTime \in 0 .. Max(Done)
  PROVE  /\ Old(i, currentTime) \in SUBSET Packet
         /\ Spares(Old(i, currentTime), Done)
<1> DEFINE S == {j \in buffered : i .. j \subseteq buffered}
           end == RangeEnd(i)
<1>1. /\ MaxPacket \in Nat /\ BUFFER_MAX_DURATION \in Nat
      /\ i \in Nat /\ i >= 1
      /\ \A x \in Done : x \in Nat /\ x <= MaxPacket
  BY PlayerAssumption DEF Packet
<1>2. i \in S
  <2>1. i .. i \subseteq buffered
    BY <1>1
  <2>2. QED
    BY <2>1
<1>3. end \in S
  <2>1. S \in SUBSET Packet /\ S # {}
    BY <1>2
  <2>2. end = Max(S)
    BY DEF RangeEnd
  <2> HIDE DEF S, end
  <2>3. QED
    BY <2>1, <2>2, MaxPacketOf
<1>4. end \in buffered /\ end \in Nat /\ end <= MaxPacket
  BY <1>1, <1>3
<1>5. Max(Done) \in Done /\ Max(Done) \in Nat /\ currentTime \in Nat
      /\ currentTime <= Max(Done)
  <2>1. Max(Done) \in Done
    BY MaxPacketOf
  <2>2. Max(Done) \in Nat
    BY <1>1, <2>1, Zenon
  <2> HIDE DEF S, end
  <2>3. QED
    BY <2>1, <2>2
<1> DEFINE o == Old(i, currentTime)
<1>6. CASE end < currentTime - BUFFER_MAX_DURATION
  <2>1. o = i .. end
    BY <1>6 DEF Old
  <2> HIDE DEF o, end, S
  <2>2. o \in SUBSET Packet
    BY <1>1, <1>4, <2>1 DEF Packet
  <2>3. \A x \in o : Max(Done) >= x + BUFFER_MAX_DURATION
    BY <1>1, <1>4, <1>5, <1>6, <2>1
  <2>4. QED
    BY <1>5, <2>2, <2>3 DEF Spares, o
<1>7. CASE /\ ~(end < currentTime - BUFFER_MAX_DURATION)
           /\ end - (i - 1) > 2 * BUFFER_MAX_DURATION
  <2>1. o = i .. end - BUFFER_MAX_DURATION
    BY <1>7 DEF Old
  <2> HIDE DEF o, end, S
  <2>2. o \in SUBSET Packet
    BY <1>1, <1>4, <2>1 DEF Packet
  <2>3. \A x \in o : end >= x + BUFFER_MAX_DURATION
    BY <1>1, <1>4, <2>1
  <2>4. QED
    BY <1>4, <2>2, <2>3 DEF Spares, o
<1>8. CASE /\ ~(end < currentTime - BUFFER_MAX_DURATION)
           /\ ~(end - (i - 1) > 2 * BUFFER_MAX_DURATION)
  <2>1. o = {}
    BY <1>8 DEF Old
  <2>2. QED
    BY <2>1, Zenon DEF Spares
<1>9. QED
  BY <1>6, <1>7, <1>8

(* So does every removal the timer asks for.                               *)
LEMMA RemovalsSpare ==
  ASSUME buffered \subseteq Done, Done \in SUBSET Packet,
         NEW currentTime \in 0 .. Max(Done), NEW removals \in Removals(currentTime)
  PROVE  /\ removals \in Seq(SUBSET Packet)
         /\ \A k \in 1 .. Len(removals) : Spares(removals[k], Done)
<1> DEFINE cut == {i \in buffered : i - 1 \notin buffered /\ Old(i, currentTime) # {}}
           n == Cardinality(cut)
<1>1. n \in Nat
  <2>1. IsFiniteSet(Packet)
    BY PlayerAssumption, FS_Interval DEF Packet
  <2>2. cut \subseteq Packet
    OBVIOUS
  <2> HIDE DEF cut
  <2>3. QED
    BY <2>1, <2>2, FS_Subset, FS_CardinalityType
<1>2. PICK q \in [1 .. n -> cut] : removals = [k \in 1 .. Len(q) |-> Old(q[k], currentTime)]
  BY DEF Removals, Beginnings
<1>3. cut \subseteq buffered
  OBVIOUS
<1> HIDE DEF cut, n
<1>4. Len(q) = n /\ \A k \in 1 .. n : q[k] \in buffered
  BY <1>1, <1>2, <1>3
<1>5. \A k \in 1 .. n : /\ Old(q[k], currentTime) \in SUBSET Packet
                        /\ Spares(Old(q[k], currentTime), Done)
  BY <1>4, OldSpares
<1>6. removals = [k \in 1 .. n |-> Old(q[k], currentTime)]
  BY <1>2, <1>4
<1>7. removals \in [1 .. n -> SUBSET Packet]
  BY <1>5, <1>6
<1>8. removals \in Seq(SUBSET Packet) /\ Len(removals) = n
  BY <1>1, <1>7
<1>9. \A k \in 1 .. n : Spares(removals[k], Done)
  BY <1>5, <1>6
<1>10. QED
  BY <1>8, <1>9

(* Nothing that was appended is ever forgotten.                            *)
LEMMA SparesMore ==
  ASSUME NEW cut, NEW done, NEW more, Spares(cut, done), done \subseteq more
  PROVE  Spares(cut, more)
BY Zenon DEF Spares

(* The types of the buffer are kept.                                       *)
LEMMA BufferTypesStep == BufferInv /\ OrderInv' /\ [Next]_vars => BufferTypes'
<1> SUFFICES ASSUME BufferInv, BufferTypes, OrderInv', [Next]_vars PROVE BufferTypes'
  BY DEF BufferInv
<1>0. appended' \in Seq(Packet)
  BY DEF OrderInv, QueueInv
<1>1. CASE UNCHANGED vars
  BY <1>1 DEF BufferTypes, vars, bufferVars
<1>2. ASSUME NEW x, Appends(x), UNCHANGED <<broken, buffered, removing, clears>>
      PROVE  BufferTypes'
  <2>1. appended' # <<>>
    BY <1>2 DEF Appends, BufferTypes
  <2>2. QED
    BY <1>0, <1>2, <2>1 DEF Appends, BufferTypes
<1>3. CASE ReadPacket
  <2>1. CASE UNCHANGED <<source_buffer, appended>>
    BY <1>3, <2>1 DEF ReadPacket, BufferTypes
  <2>2. CASE \E x : Appends(x)
    BY <1>2, <1>3, <2>2 DEF ReadPacket
  <2>3. QED
    BY <1>3, <2>1, <2>2 DEF ReadPacket, FirstPacket, RefusedPacket, QueuedPacket,
                            PacketPushed, PacketKept, Refuses
<1>4. CASE AppendDone
  <2>1. appended # <<>> /\ appended \in Seq(Packet)
    BY <1>4 DEF AppendDone, BufferTypes
  <2>2. Last(appended) \in Packet
    BY <2>1 DEF Last
  <2>3. buffered' \in SUBSET Packet
    BY <1>4, <2>2 DEF AppendDone, BufferTypes
  <2>4. QED
    BY <1>4, <2>1, <2>3 DEF AppendDone, BufferTypes
<1>5. CASE NextRemoval /\ UNCHANGED <<broken, buffered, appended>>
  <2>1. CASE UNCHANGED <<source_buffer, removing>> /\ clears' = <<>>
    BY <1>5, <2>1 DEF BufferTypes
  <2>2. CASE UNCHANGED <<source_buffer, removing, clears>>
    BY <1>5, <2>2 DEF BufferTypes
  <2>3. CASE /\ ~broken /\ clears # <<>> /\ source_buffer' = "remove"
             /\ removing' = Head(clears) /\ clears' = Tail(clears)
    BY <1>5, <2>3 DEF BufferTypes
  <2>4. QED
    BY <1>5, <2>1, <2>2, <2>3 DEF NextRemoval
<1>6. CASE UpdateEnd
  <2>1. CASE NextRemoval /\ UNCHANGED appended
    BY <1>5, <1>6, <2>1 DEF UpdateEnd
  <2>2. CASE PacketPushed(queue) /\ UNCHANGED <<removing, clears>>
    BY <1>2, <1>6, <2>2 DEF UpdateEnd, PacketPushed
  <2>3. QED
    BY <1>6, <2>1, <2>2 DEF UpdateEnd, NothingQueued, PacketKept, Refuses
<1>7. CASE ClearBuffer
  <2>1. PICK currentTime \in 0 .. Max(Done) : \E removals \in Removals(currentTime) :
          /\ removals # <<>>
          /\ \/ /\ source_buffer' = "remove" /\ removing' = Head(removals)
                /\ clears' = clears \o Tail(removals)
             \/ /\ clears' = clears \o removals
                /\ UNCHANGED <<source_buffer, removing>>
    BY <1>7 DEF ClearBuffer
  <2>2. PICK removals \in Removals(currentTime) :
          /\ removals # <<>>
          /\ \/ /\ source_buffer' = "remove" /\ removing' = Head(removals)
                /\ clears' = clears \o Tail(removals)
             \/ /\ clears' = clears \o removals
                /\ UNCHANGED <<source_buffer, removing>>
    BY <2>1
  <2>3. removals \in Seq(SUBSET Packet)
    BY RemovalsSpare, DoneType DEF BufferInv
  <2>4. clears' \in Seq(SUBSET Packet) /\ removing' \in SUBSET Packet
    <3>1. Head(removals) \in SUBSET Packet /\ Tail(removals) \in Seq(SUBSET Packet)
      BY <2>2, <2>3
    <3>2. clears \in Seq(SUBSET Packet) /\ removing \in SUBSET Packet
      BY DEF BufferTypes
    <3>3. /\ clears \o removals \in Seq(SUBSET Packet)
          /\ clears \o Tail(removals) \in Seq(SUBSET Packet)
      BY <2>3, <3>1, <3>2
    <3>4. QED
      BY <2>2, <3>1, <3>2, <3>3, Zenon
  <2>5. ~broken /\ UNCHANGED <<broken, buffered, appended>>
    BY <1>7 DEF ClearBuffer
  <2>6. source_buffer' = source_buffer \/ source_buffer' = "remove"
    BY <2>2
  <2>7. QED
    BY <2>4, <2>5, <2>6 DEF BufferTypes
<1>8. CASE Sdp
  BY <1>8 DEF Sdp, BufferTypes
<1>9. CASE RemoveDone
  BY <1>9 DEF RemoveDone, BufferTypes
<1>10. QED
  BY <1>1, <1>3, <1>4, <1>6, <1>7, <1>8, <1>9 DEF Next, Step

(* Nothing is done or undone by a step but an append that ends.            *)
SameDone ==
  Over' = Over /\ Done' = Done /\ \A i \in Over : appended'[i] = appended[i]

LEMMA SameDoneIf ==
  ASSUME UNCHANGED <<appended, broken>>, source_buffer = "append" <=> source_buffer' = "append"
  PROVE  SameDone
BY Zenon DEF SameDone, Over, Done

LEMMA DoneAppends ==
  ASSUME BufferTypes, NEW x, Appends(x), UNCHANGED broken
  PROVE  SameDone
<1>1. appended \in Seq(Packet) /\ source_buffer = "idle" /\ ~broken
      /\ appended' = Append(appended, x) /\ source_buffer' = "append" /\ ~broken'
  BY DEF Appends, BufferTypes
<1>2. Len(appended) \in Nat /\ Len(appended') = Len(appended) + 1
      /\ \A i \in 1 .. Len(appended) : appended'[i] = appended[i]
  BY <1>1
<1>3. Len(appended') - 1 = Len(appended) /\ Len(appended) - 0 = Len(appended)
  BY <1>2
<1>4. Over = 1 .. Len(appended) /\ Over' = 1 .. Len(appended)
  BY <1>1, <1>3 DEF Over
<1>5. Done' = Done
  BY <1>2, <1>4 DEF Done
<1>6. QED
  BY <1>2, <1>4, <1>5 DEF SameDone

LEMMA DoneGrows ==
  ASSUME BufferTypes, AppendDone
  PROVE  \/ SameDone /\ buffered' = buffered
         \/ LET n == Len(appended) IN
            /\ Over' = Over \cup {n} /\ \A i \in Over : i < n
            /\ appended' = appended /\ appended[n] \in Packet
            /\ Done' = Done \cup {appended[n]} /\ buffered' = buffered \cup {appended[n]}
<1>1. appended \in Seq(Packet) /\ appended # <<>> /\ source_buffer = "append" /\ ~broken
      /\ appended' = appended /\ source_buffer' = "idle"
  BY DEF AppendDone, BufferTypes
<1>2. Len(appended) \in Nat /\ Len(appended) >= 1 /\ Len(appended) - 0 = Len(appended)
      /\ 1 .. Len(appended) = (1 .. Len(appended) - 1) \cup {Len(appended)}
      /\ \A i \in 1 .. Len(appended) - 1 : i < Len(appended)
      /\ appended[Len(appended)] \in Packet
  BY <1>1
<1>3. Over = 1 .. Len(appended) - 1
  BY <1>1 DEF Over
<1>4. CASE broken' /\ buffered' = buffered
  <2>1. Over' = Over
    BY <1>1, <1>3, <1>4 DEF Over
  <2>2. QED
    BY <1>1, <1>4, <2>1 DEF SameDone, Done
<1>5. CASE broken' = broken /\ buffered' = buffered \cup {Last(appended)}
  <2>1. Over' = 1 .. Len(appended)
    BY <1>1, <1>2, <1>5 DEF Over
  <2>2. Last(appended) = appended[Len(appended)]
    BY DEF Last
  <2>3. Done' = Done \cup {appended[Len(appended)]}
    BY <1>1, <1>2, <1>3, <2>1 DEF Done
  <2>4. QED
    BY <1>1, <1>2, <1>3, <1>5, <2>1, <2>2, <2>3
<1>6. QED
  BY <1>4, <1>5 DEF AppendDone

(* As long as nothing is taken from the buffer and no append ends, it is   *)
(* enough to look at the removals a step adds.                             *)
LEMMA BufferKept ==
  ASSUME BufferInv, BufferTypes', SameDone, UNCHANGED buffered,
         Spared(removing'), \A i \in 1 .. Len(clears') : Spared(clears'[i])
  PROVE  BufferInv'
<1>1. LostInv'
  BY DEF BufferInv, LostInv, SameDone
<1>2. (Spared(removing))' /\ (\A i \in 1 .. Len(clears) : Spared(clears[i]))'
  BY Zenon DEF Spared, SameDone
<1>3. QED
  BY <1>1, <1>2 DEF BufferInv, SameDone

(* What is in front of a sequence, and what comes after it.                *)
LEMMA HeadTail ==
  ASSUME NEW S, NEW s \in Seq(S), s # <<>>
  PROVE  /\ Head(s) = s[1] /\ 1 \in 1 .. Len(s)
         /\ Tail(s) \in Seq(S)
         /\ \A i \in 1 .. Len(Tail(s)) : Tail(s)[i] = s[i + 1] /\ i + 1 \in 1 .. Len(s)
OBVIOUS

LEMMA ConcatEach ==
  ASSUME NEW S, NEW s \in Seq(S), NEW t \in Seq(S), NEW k \in 1 .. Len(s \o t)
  PROVE  (\E i \in 1 .. Len(s) : (s \o t)[k] = s[i])
           \/ (\E j \in 1 .. Len(t) : (s \o t)[k] = t[j])
<1>1. /\ Len(s) \in Nat /\ Len(t) \in Nat /\ Len(s \o t) = Len(s) + Len(t)
      /\ \A i \in 1 .. Len(s) + Len(t) :
           (s \o t)[i] = IF i <= Len(s) THEN s[i] ELSE t[i - Len(s)]
  OBVIOUS
<1>2. CASE k <= Len(s)
  BY <1>1, <1>2
<1>3. CASE ~(k <= Len(s))
  <2>1. k - Len(s) \in 1 .. Len(t) /\ (s \o t)[k] = t[k - Len(s)]
    BY <1>1, <1>3
  <2>2. QED
    BY <2>1
<1>4. QED
  BY <1>2, <1>3

(* The next removal is one of those that waited.                           *)
LEMMA NextRemovalSpares ==
  ASSUME BufferInv, BufferTypes', NextRemoval, UNCHANGED <<broken, buffered, appended>>
  PROVE  BufferInv'
<1>1. SameDone
  BY NextRemovalStep, SameDoneIf
<1>2. Spared(removing') /\ \A i \in 1 .. Len(clears') : Spared(clears'[i])
  <2>1. CASE UNCHANGED removing /\ clears' = <<>>
    BY <2>1 DEF BufferInv
  <2>2. CASE UNCHANGED <<removing, clears>>
    BY <2>2 DEF BufferInv
  <2>3. CASE clears # <<>> /\ removing' = Head(clears) /\ clears' = Tail(clears)
    <3>1. clears \in Seq(SUBSET Packet)
      BY DEF BufferInv, BufferTypes
    <3>2. /\ Head(clears) = clears[1] /\ 1 \in 1 .. Len(clears)
          /\ \A i \in 1 .. Len(Tail(clears)) :
               Tail(clears)[i] = clears[i + 1] /\ i + 1 \in 1 .. Len(clears)
      BY <2>3, <3>1, HeadTail
    <3>3. QED
      BY <2>3, <3>2, Zenon DEF BufferInv
  <2>4. QED
    BY <2>1, <2>2, <2>3 DEF NextRemoval
<1>3. QED
  BY <1>1, <1>2, BufferKept

(* The removals the timer adds spare what is in the buffer, and so what    *)
(* was appended.                                                           *)
LEMMA ClearBufferSpares ==
  ASSUME BufferInv, BufferTypes', ClearBuffer
  PROVE  BufferInv'
<1>1. PICK currentTime \in 0 .. Max(Done) : \E removals \in Removals(currentTime) :
        /\ removals # <<>>
        /\ \/ /\ source_buffer = "idle" /\ source_buffer' = "remove"
              /\ removing' = Head(removals)
              /\ clears' = clears \o Tail(removals)
           \/ /\ clears' = clears \o removals
              /\ UNCHANGED <<source_buffer, removing>>
  BY DEF ClearBuffer
<1>2. PICK removals \in Removals(currentTime) :
        /\ removals # <<>>
        /\ \/ /\ source_buffer = "idle" /\ source_buffer' = "remove"
              /\ removing' = Head(removals)
              /\ clears' = clears \o Tail(removals)
           \/ /\ clears' = clears \o removals
              /\ UNCHANGED <<source_buffer, removing>>
  BY <1>1
<1>3. clears \in Seq(SUBSET Packet) /\ buffered \subseteq Done /\ Done \in SUBSET Packet
  BY DoneType DEF BufferInv, BufferTypes
<1>4. /\ removals \in Seq(SUBSET Packet)
      /\ \A k \in 1 .. Len(removals) : Spared(removals[k])
  BY <1>3, RemovalsSpare, Zenon DEF Spared
<1>5. \A i \in 1 .. Len(clears) : Spared(clears[i])
  BY DEF BufferInv
<1>6. UNCHANGED <<broken, buffered, appended>>
  BY DEF ClearBuffer
<1>7. SameDone
  BY <1>2, <1>6, SameDoneIf
<1>8. Spared(removing') /\ \A i \in 1 .. Len(clears') : Spared(clears'[i])
  <2>1. CASE clears' = clears \o removals /\ UNCHANGED removing
    <3>1. \A i \in 1 .. Len(clears') : Spared(clears'[i])
      <4>1. ASSUME NEW i \in 1 .. Len(clears \o removals)
            PROVE  Spared((clears \o removals)[i])
        <5>1. \/ \E k \in 1 .. Len(clears) : (clears \o removals)[i] = clears[k]
              \/ \E k \in 1 .. Len(removals) : (clears \o removals)[i] = removals[k]
          BY <1>3, <1>4, ConcatEach
        <5>2. QED
          BY <1>4, <1>5, <5>1, Zenon
      <4>2. QED
        BY <2>1, <4>1, Zenon
    <3>2. QED
      BY <2>1, <3>1 DEF BufferInv
  <2>2. CASE removing' = Head(removals) /\ clears' = clears \o Tail(removals)
    <3>1. /\ Head(removals) = removals[1] /\ 1 \in 1 .. Len(removals)
          /\ Tail(removals) \in Seq(SUBSET Packet)
          /\ \A i \in 1 .. Len(Tail(removals)) :
               /\ Tail(removals)[i] = removals[i + 1]
               /\ i + 1 \in 1 .. Len(removals)
      BY <1>2, <1>4, HeadTail
    <3>2. PICK t \in Seq(SUBSET Packet) :
            t = Tail(removals) /\ \A i \in 1 .. Len(t) : Spared(t[i])
      BY <1>4, <3>1, Zenon
    <3>3. ASSUME NEW i \in 1 .. Len(clears \o t)
          PROVE  Spared((clears \o t)[i])
      <4>1. \/ \E k \in 1 .. Len(clears) : (clears \o t)[i] = clears[k]
            \/ \E k \in 1 .. Len(t) : (clears \o t)[i] = t[k]
        BY <1>3, ConcatEach
      <4>2. QED
        BY <1>5, <3>2, <4>1, Zenon
    <3>4. \A i \in 1 .. Len(clears') : Spared(clears'[i])
      BY <2>2, <3>2, <3>3, Zenon
    <3>5. QED
      BY <1>4, <2>2, <3>1, <3>4, Zenon
  <2>3. QED
    BY <1>2, <2>1, <2>2
<1>9. QED
  BY <1>6, <1>7, <1>8, BufferKept

(* A removal that goes on to the next key frame takes no packet that has a *)
(* recent key frame before it: it would have ended there.                  *)
LEMMA RemoveDoneSpares ==
  ASSUME BufferInv, BufferTypes', RemoveDone
  PROVE  BufferInv'
<1>1. SameDone
  BY SameDoneIf DEF RemoveDone
<1>2. buffered' = buffered \ Removed /\ removing' = {} /\ clears' = clears
  BY DEF RemoveDone
<1>3. /\ BUFFER_MAX_DURATION \in Nat /\ Done \in SUBSET Packet
      /\ \A z \in Done : z \in Nat
      /\ removing \in SUBSET Packet /\ \A r \in removing : r \in Nat
      /\ \A i \in Over : appended[i] \in Nat
  BY PlayerAssumption, DoneType DEF BufferInv, BufferTypes, Packet
<1>4. ASSUME NEW i \in Over, NEW j \in Over, i <= j, appended[i] \in Key,
             appended[i] <= appended[j], appended[j] \notin buffered'
      PROVE  \E z \in Done : z >= appended[i] + BUFFER_MAX_DURATION
  <2>1. CASE appended[j] \notin buffered
    BY <1>4, <2>1 DEF BufferInv, LostInv
  <2>2. CASE appended[i] \notin buffered
    <3>1. i <= i /\ appended[i] <= appended[i]
      BY <1>3, DoneType DEF BufferInv
    <3>2. QED
      BY <1>4, <2>2, <3>1 DEF BufferInv, LostInv
  <2>3. CASE appended[i] \in buffered /\ appended[j] \in Removed
    <3>1. PICK r \in removing : ~(r < appended[i])
      BY <1>3, <1>4, <2>3 DEF Removed
    <3>2. PICK z \in Done : z >= r + BUFFER_MAX_DURATION
      BY DEF BufferInv, Spared, Spares
    <3>3. QED
      BY <1>3, <3>1, <3>2
  <2>4. QED
    BY <1>2, <1>4, <2>1, <2>2, <2>3
<1>5. LostInv'
  BY <1>1, <1>4 DEF LostInv, SameDone
<1>6. buffered' \subseteq Done'
  BY <1>1, <1>2 DEF BufferInv, SameDone
<1>7. (\A i \in 1 .. Len(clears) : Spared(clears[i]))'
  BY <1>1, <1>2, Zenon DEF BufferInv, Spared, SameDone
<1>8. Spared(removing)'
  BY <1>2, Zenon DEF Spared, Spares
<1>9. QED
  BY <1>5, <1>6, <1>7, <1>8 DEF BufferInv

(* An append that ends makes its packet the last, in the buffer.           *)
LEMMA AppendDoneSpares ==
  ASSUME BufferInv, BufferTypes', AppendDone
  PROVE  BufferInv'
<1> DEFINE n == Len(appended)
<1>1. UNCHANGED <<removing, clears>>
  BY DEF AppendDone
<1>2. CASE SameDone /\ buffered' = buffered
  BY <1>1, <1>2, BufferKept, Zenon DEF BufferInv
<1>3. CASE /\ Over' = Over \cup {n} /\ \A i \in Over : i < n
           /\ appended' = appended /\ appended[n] \in Packet
           /\ Done' = Done \cup {appended[n]} /\ buffered' = buffered \cup {appended[n]}
  <2>1. n \in Nat /\ \A i \in Over : i \in Nat
    BY DoneType DEF BufferInv, BufferTypes
  <2> HIDE DEF n
  <2>2. ASSUME NEW i \in Over', NEW j \in Over', i <= j, appended[i] \in Key,
               appended[i] <= appended[j], appended[j] \notin buffered'
        PROVE  \E z \in Done' : z >= appended[i] + BUFFER_MAX_DURATION
    <3>1. j # n
      BY <1>3, <2>2
    <3>2. i \in Over /\ j \in Over
      BY <1>3, <2>1, <2>2, <3>1
    <3>3. QED
      BY <1>3, <2>2, <3>2 DEF BufferInv, LostInv
  <2>3. LostInv'
    BY <1>3, <2>2 DEF LostInv
  <2>4. Spares(removing', Done') /\ \A i \in 1 .. Len(clears') : Spares(clears'[i], Done')
    <3>1. Done \subseteq Done'
      BY <1>3
    <3>2. QED
      BY <1>1, <3>1, SparesMore, Zenon DEF BufferInv, Spared
  <2>5. buffered' \subseteq Done'
    BY <1>3 DEF BufferInv
  <2>6. QED
    BY <2>3, <2>4, <2>5 DEF BufferInv, Spared
<1>4. QED
  BY <1>2, <1>3, DoneGrows DEF BufferInv

(* Every step leaves the last of the video alone.                          *)
LEMMA BufferStep == BufferInv /\ OrderInv' /\ [Next]_vars => BufferInv'
<1> SUFFICES ASSUME BufferInv, OrderInv', [Next]_vars PROVE BufferInv'
  OBVIOUS
<1>0. BufferTypes /\ BufferTypes'
  BY BufferTypesStep DEF BufferInv
<1>1. CASE UNCHANGED <<buffered, removing, clears>> /\ SameDone
  BY <1>0, <1>1, BufferKept, Zenon DEF BufferInv
<1>2. CASE UNCHANGED vars
  BY <1>1, <1>2, SameDoneIf DEF vars, bufferVars
<1>3. CASE Sdp
  BY <1>1, <1>3, SameDoneIf DEF Sdp
<1>4. CASE ReadPacket
  <2>1. CASE \E x : Appends(x)
    BY <1>0, <1>1, <1>4, <2>1, DoneAppends DEF ReadPacket
  <2>2. CASE UNCHANGED <<source_buffer, appended>>
    BY <1>1, <1>4, <2>2, SameDoneIf DEF ReadPacket
  <2>3. QED
    BY <1>4, <2>1, <2>2 DEF ReadPacket, FirstPacket, RefusedPacket, QueuedPacket,
                            PacketPushed, PacketKept, Refuses
<1>5. CASE AppendDone
  BY <1>0, <1>5, AppendDoneSpares
<1>6. CASE RemoveDone
  BY <1>0, <1>6, RemoveDoneSpares
<1>7. CASE UpdateEnd
  <2>1. CASE NextRemoval /\ UNCHANGED appended
    BY <1>0, <1>7, <2>1, NextRemovalSpares DEF UpdateEnd
  <2>2. CASE PacketPushed(queue) /\ UNCHANGED <<removing, clears>>
    BY <1>0, <1>1, <1>7, <2>2, DoneAppends DEF UpdateEnd, PacketPushed
  <2>3. QED
    BY <1>7, <2>1, <2>2 DEF UpdateEnd, NothingQueued, PacketKept, Refuses
<1>8. CASE ClearBuffer
  BY <1>0, <1>8, ClearBufferSpares
<1>9. QED
  BY <1>2, <1>3, <1>4, <1>5, <1>6, <1>7, <1>8 DEF Next, Step

-----------------------------------------------------------------------------
(* Theorems.                                                               *)

IInv == TypeInv /\ OrderInv /\ StuckInv /\ CalmInv /\ LenInv /\ BufferInv

(* The invariant holds at first,                                           *)
LEMMA Initially == Init => IInv
<1> SUFFICES ASSUME Init PROVE IInv
  OBVIOUS
<1>1. /\ queue = <<>> /\ appended = <<>> /\ arrived = 0 /\ ready = FALSE
      /\ Len(queue) = 0 /\ Len(appended) = 0
      /\ 0 \in 0 .. MaxPacket
  BY PlayerAssumption DEF Init
<1>2. TypeInv /\ StuckInv
  <2>1. queue \in Seq(Packet)
    BY <1>1
  <2>2. TypeInv
    BY <2>1 DEF Init, TypeInv
  <2>3. StuckInv
    BY <1>1 DEF Init, StuckInv
  <2>4. QED
    BY <2>2, <2>3
<1>3. OrderInv
  BY <1>1 DEF OrderInv, QueueInv, Sorted, PassedOnce, AllBefore, Overtaken
<1>4. CalmFlags
  BY <1>1 DEF Init, CalmFlags
<1>5. CalmOrder
  <2>1. Sorted(appended)
    BY <1>1 DEF Sorted
  <2>2. QueueInv(queue, appended, arrived, FALSE)
    BY <1>1, <1>3, EmptyKeeps DEF OrderInv
  <2>3. QED
    BY <2>1, <2>2 DEF CalmOrder
<1>6. LenInv
  BY <1>1, PlayerAssumption DEF LenInv
<1>7. BufferInv
  <2>1. buffered = {} /\ removing = {} /\ clears = <<>> /\ source_buffer = "none"
        /\ broken = FALSE
    BY DEF Init
  <2>2. BufferTypes
    <3>1. appended \in Seq(Packet) /\ clears \in Seq(SUBSET Packet)
      BY <1>1, <2>1
    <3>2. QED
      BY <2>1, <3>1, Zenon DEF BufferTypes
  <2>3. Len(clears) = 0 /\ Len(appended) - 0 = 0
    BY <1>1, <2>1
  <2>4. Over = {}
    BY <1>1, <2>1, <2>3 DEF Over
  <2>5. QED
    BY <2>1, <2>2, <2>3, <2>4 DEF BufferInv, LostInv, Spared, Spares
<1>8. QED
  BY <1>2, <1>3, <1>4, <1>5, <1>6, <1>7 DEF IInv, CalmInv

(* every step keeps it,                                                    *)
LEMMA Inductive == IInv /\ [Next]_vars => IInv'
BY TypeStep, OrderStep, StuckStep, CalmStep, DropsStep, BufferStep DEF IInv, Drops, LenInv

(* and so every execution of the player satisfies it.                      *)
THEOREM Invariant == Spec => []IInv
BY Initially, Inductive, PTL DEF Spec

(* Packets reach the source buffer in the order of their arrival as long   *)
(* as no append throws and nothing is removed (readPacket, pushPacket);    *)
(* and no packet is passed by twice whatever throws and however often the  *)
(* buffer is cleared.                                                      *)
THEOREM InOrder == Spec => []AppendedInOrder
<1>1. IInv => OrderedUnlessDisturbed
  BY DEF IInv, CalmInv, CalmOrder, Sorted, OrderedUnlessDisturbed
<1>2. IInv => OvertakenOnce
  BY DEF IInv, OrderInv, QueueInv, Overtaken, OvertakenOnce
<1>3. IInv => AppendedInOrder
  BY <1>1, <1>2 DEF AppendedInOrder
<1>4. QED
  BY <1>3, Invariant, PTL

(* Packets wait beside an idle buffer, with no event to come, only after   *)
(* an append that threw.                                                   *)
THEOREM StuckThrew == Spec => []StuckOnlyAfterThrow
<1>1. IInv => StuckOnlyAfterThrow
  BY DEF IInv, StuckInv, StuckOnlyAfterThrow
<1>2. QED
  BY <1>1, Invariant, PTL

(* Between the queue and the source buffer no packet gets lost but the     *)
(* oldest of a queue that is too long.                                     *)
THEOREM OldestDropped == Spec => OnlyOldestDropped
<1> DEFINE A == \A x \in Packet :
                  (In(x, queue) /\ ~In(x, queue') /\ ~In(x, appended')) =>
                     /\ Len(queue) > MAX_QUEUE_LENGTH
                     /\ \A i \in 1 .. Len(queue) : x <= queue[i]
<1>1. IInv /\ [Next]_vars => A
  <2> SUFFICES ASSUME IInv, [Next]_vars,
                      NEW x \in Packet,
                      In(x, queue), ~In(x, queue'), ~In(x, appended')
               PROVE  /\ Len(queue) > MAX_QUEUE_LENGTH
                      /\ \A i \in 1 .. Len(queue) : x <= queue[i]
    OBVIOUS
  <2>1. queue \in Seq(Packet) /\ Sorted(queue)
    BY DEF IInv, OrderInv, QueueInv
  <2>2. 1 \in 1 .. Len(queue) /\ x = queue[1] /\ Len(queue) > MAX_QUEUE_LENGTH
    BY DropsStep DEF IInv, Drops, In
  <2>3. \A i \in 1 .. Len(queue) : i = 1 \/ 1 < i
    BY <2>1
  <2>4. \A i \in 1 .. Len(queue) : i = 1 \/ queue[1] < queue[i]
    BY <2>2, <2>3, <2>1 DEF Sorted
  <2>5. \A i \in 1 .. Len(queue) : queue[i] \in Packet
    BY <2>1
  <2>6. QED
    BY <2>2, <2>4, <2>5 DEF Packet
<1>2. IInv /\ [Next]_vars => [A]_vars
  BY <1>1
<1> HIDE DEF A
<1>3. Spec => [][A]_vars
  BY <1>2, Invariant, PTL DEF Spec
<1>4. QED
  BY <1>3 DEF OnlyOldestDropped, A

(* However long a removal is put off, whatever was appended or removed     *)
(* meanwhile and however far the browser extends it, it leaves a packet    *)
(* alone that was appended after a key frame of the last                   *)
(* BUFFER_MAX_DURATION (clearBuffer, remove_source_buffer,                 *)
(* _next_turn_clear).                                                      *)
THEOREM LatestStays == Spec => []LatestKept
<1>1. IInv => LatestKept
  <2>1. SUFFICES ASSUME BufferInv, NEW i \in Over, NEW j \in Over, i <= j,
                        appended[i] \in Key, appended[i] <= appended[j],
                        \A z \in Done : z < appended[i] + BUFFER_MAX_DURATION
                 PROVE  appended[j] \in buffered
    BY DEF IInv, LatestKept
  <2>2. ASSUME appended[j] \notin buffered PROVE FALSE
    <3>1. PICK z \in Done : z >= appended[i] + BUFFER_MAX_DURATION
      BY <2>1, <2>2 DEF BufferInv, LostInv
    <3>2. z \in Nat /\ appended[i] \in Nat /\ BUFFER_MAX_DURATION \in Nat
      BY <2>1, DoneType, PlayerAssumption DEF BufferInv, Packet
    <3>3. z < appended[i] + BUFFER_MAX_DURATION
      BY <2>1
    <3>4. QED
      BY <3>1, <3>2, <3>3
  <2>3. QED
    BY <2>2
<1>2. QED
  BY <1>1, Invariant, PTL

(* Every variable keeps its type; the queue in particular is never longer  *)
(* than its maximum and one (push_packet).                                 *)
THEOREM TypeCorrect == Spec => []TypeOK
<1>1. IInv => TypeOK
  <2>1. SUFFICES ASSUME TypeInv, OrderInv, LenInv, BufferTypes
                 PROVE  TypeOK
    BY DEF IInv, BufferInv
  <2>2. arrived \in 0 .. MaxPacket
    BY <2>1 DEF OrderInv, QueueInv
  <2>3. QED
    BY <2>1, <2>2, Zenon DEF TypeInv, LenInv, BufferTypes, TypeOK
<1>2. QED
  BY <1>1, Invariant, PTL
=============================================================================
