-------------------------- MODULE VideoTable_proofs --------------------------
(***************************************************************************)
(* Proofs about VideoTable, for any requests, names and bounds: the keys   *)
(* of the table, what is deleted of what was read, what a settings request *)
(* has brought about, and why requests that run into one another do not    *)
(* all give up.                                                            *)
(*                                                                         *)
(* The last rests on an order in time.  Let madeSince[q] be the requests   *)
(* that put names into the table since the last lookup of q.  If one of    *)
(* them, p, is itself between a lookup and its answer, then p looked after *)
(* it wrote, thus after q did, and madeSince[p] is part of madeSince[q].   *)
(***************************************************************************)
EXTENDS VideoTable, WellFoundedInduction, TLAPS

-----------------------------------------------------------------------------
(* What a settings request read, and where it is.                          *)

Types ==
  /\ stage \in [Request -> Stage]
  /\ list \in [Request -> BoundedSeq(Name, MaxList)]
  /\ at \in [Request -> 0 .. MaxList + 1]
  /\ del \in [Request -> SUBSET Id]
  /\ seen \in [Request -> SUBSET Row]
  /\ removed \in [Request -> SUBSET Name]
  /\ alone \in [Request -> BOOLEAN]
  /\ madeSince \in [Request -> SUBSET Request]
  /\ errors \in 0 .. MaxErrors

(* A settings request has come to one of its list.                         *)
Place ==
  \A q \in Request :
    /\ stage[q] = "new" => at[q] = 0
    /\ stage[q] = "run" => at[q] > 0
    /\ stage[q] \in {"update", "create"} => at[q] \in 1 .. Len(list[q])

(* Of the rows that were read, those not listed are gone or to be deleted. *)
Read ==
  \A q \in Request :
    /\ \A r \in seen[q] : r.id < nextId
    /\ (IsSettings(q) /\ stage[q] # "failed") =>
         \A r \in seen[q] : r.name \notin Listed(q) => r.id \in del[q] \/ r.id \notin Ids(streams)

(* A list has at most MaxList streams.                                     *)
LEMMA Lists ==
  ASSUME NEW s \in BoundedSeq(Name, MaxList)
  PROVE  s \in Seq(Name) /\ Len(s) \in 0 .. MaxList /\ ToSet(s) \subseteq Name
<1>1. PICK m \in 0 .. MaxList : s \in [1 .. m -> Name]
  BY DEF BoundedSeq, SeqOf
<1>2. s \in Seq(Name) /\ Len(s) = m
  BY <1>1, VideoAssumption
<1>3. QED
  BY <1>1, <1>2 DEF ToSet

(* A statement that inserts a row keeps the keys.                          *)
LEMMA Inserts ==
  ASSUME TableOK, NEW q, NEW n \in Name, InsertRow(q, n)
  PROVE  TableOK' /\ nextId' > nextId
<1>1. n \notin Names(streams) /\ nextId <= MaxRow /\ nextId \in Id
  BY VideoAssumption DEF InsertRow, TableOK, Id
<1>2. /\ streams' = streams \cup {[id |-> nextId, name |-> n]}
      /\ nextId' = nextId + 1
  BY DEF InsertRow, Write
<1>3. [id |-> nextId, name |-> n] \in Row
  BY <1>1 DEF Row
<1>4. \A r \in streams : r.id # nextId /\ r.name # n /\ r.id < nextId + 1
  BY <1>1 DEF TableOK, Names, RowsOK, Row, Id
<1>5. RowsOK(streams)'
  BY <1>2, <1>3, <1>4 DEF TableOK, RowsOK
<1>6. nextId' \in 1 .. MaxRow + 1 /\ nextId' > nextId
  BY <1>1, <1>2, VideoAssumption DEF Id
<1>7. QED
  BY <1>2, <1>4, <1>5, <1>6 DEF TableOK, Id

(* Deleting rows keeps them, and puts no name into the table.              *)
LEMMA Deletes ==
  ASSUME TableOK, NEW q, NEW which, DeleteRows(q, which)
  PROVE  /\ TableOK' /\ nextId' = nextId
         /\ streams' = streams \ which
         /\ Names(streams') \ Names(streams) = {}
BY DEF TableOK, RowsOK, DeleteRows, Write, Names

(* Renaming a row keeps them, and the ids.                                 *)
LEMMA Renames ==
  ASSUME TableOK, NEW q \in Request, NEW i \in Id, NEW n \in Name, PatchVideos(q, i, n)
  PROVE  TableOK' /\ nextId' = nextId /\ Ids(streams') = Ids(streams)
<1> DEFINE old == {r \in streams : r.id = i}
           rows == (streams \ old) \cup {[r EXCEPT !.name = n] : r \in old}
<1>1. CASE UNCHANGED table
  BY <1>1 DEF table, TableOK, RowsOK
<1>2. CASE old = {} /\ streams' = rows /\ UNCHANGED nextId
  <2>1. streams' = streams
    BY <1>2
  <2> QED
    BY <1>2, <2>1 DEF TableOK, RowsOK
<1>3. CASE n \notin Names(streams \ old) /\ streams' = rows /\ UNCHANGED nextId
  <2>1. \A r \in old : /\ [r EXCEPT !.name = n] \in Row
                       /\ [r EXCEPT !.name = n].id = i
                       /\ [r EXCEPT !.name = n].name = n
    BY DEF TableOK, RowsOK, Row
  <2>2. \A r, s \in old : r = s
    BY DEF TableOK, RowsOK
  <2>3. \A r \in streams \ old : r.id # i /\ r.name # n /\ r \in Row
    BY <1>3 DEF Names, TableOK, RowsOK
  <2>4. RowsOK(rows)
    BY <2>1, <2>2, <2>3 DEF TableOK, RowsOK
  <2>5. \A r \in rows : r.id < nextId
    BY <2>1 DEF TableOK
  <2>6. Ids(rows) = Ids(streams)
    BY <2>1 DEF Ids
  <2>7. QED
    BY <1>3, <2>4, <2>5, <2>6 DEF TableOK
<1>4. QED
  BY <1>1, <1>2, <1>3 DEF PatchVideos, Write, Taken, StatementFails, Unwritten

-----------------------------------------------------------------------------
(* Types, and the place in the list.                                       *)

TypeInv == TableOK /\ Types /\ Place

(* What is remembered of the others' statements has its type.              *)
LEMMA Writes ==
  ASSUME TypeInv, NEW q \in Request, NEW rows, Write(q, rows)
  PROVE  /\ removed' \in [Request -> SUBSET Name]
         /\ alone' \in [Request -> BOOLEAN]
         /\ madeSince' \in [Request -> SUBSET Request]
         /\ errors' = errors
<1> DEFINE others == {p \in Request \ {q} : IsSettings(p)}
<1>1. Names(streams) \subseteq Name
  BY DEF TypeInv, TableOK, RowsOK, Names, Row
<1>2. removed' \in [Request -> SUBSET Name]
  BY <1>1 DEF TypeInv, Types, Write
<1>3. alone' = [p \in Request |-> alone[p] /\ (p \in others => rows = streams)]
  BY DEF Write
<1>4. \A p \in Request : (alone[p] /\ (p \in others => rows = streams)) \in BOOLEAN
  OBVIOUS
<1>5. alone' \in [Request -> BOOLEAN]
  BY <1>3, <1>4
<1>6. madeSince' \in [Request -> SUBSET Request] /\ errors' = errors
  BY DEF TypeInv, Types, Write
<1>7. QED
  BY <1>2, <1>5, <1>6

(* A failing statement keeps the table and all that is remembered of it.   *)
LEMMA Fails ==
  ASSUME TypeInv, NEW q \in Request, Unwritten, UNCHANGED errors \/ StatementFails(q)
  PROVE  /\ TableOK' /\ UNCHANGED <<removed, alone, madeSince>>
         /\ errors' \in 0 .. MaxErrors
BY VideoAssumption DEF TypeInv, TableOK, RowsOK, Types, Unwritten, table, StatementFails

(* Every step keeps the types and the place.                               *)
LEMMA TypeStep == TypeInv /\ [Next]_vars => TypeInv'
<1> SUFFICES ASSUME TypeInv, [Next]_vars PROVE TypeInv'
  OBVIOUS
<1> USE VideoAssumption
<1>1. ASSUME NEW q \in Request, NEW n \in Name, AddVideos(q, n) PROVE TypeInv'
  <2>1. UNCHANGED <<list, at, del, seen>> /\ stage' \in [Request -> Stage]
    BY <1>1 DEF AddVideos, settings, Goto, Taken, StatementFails, TypeInv, Types, Stage
  <2>2. Place'
    BY <1>1, <2>1 DEF AddVideos, Goto, Taken, StatementFails, TypeInv, Types, Place
  <2>3. CASE InsertRow(q, n)
    BY <2>1, <2>2, <2>3, Inserts, Writes DEF TypeInv, Types, InsertRow
  <2>4. CASE Taken(q, n) \/ StatementFails(q)
    BY <2>1, <2>2, <2>4, Fails DEF TypeInv, Types, Taken, StatementFails
  <2>5. QED
    BY <1>1, <2>3, <2>4 DEF AddVideos
<1>2. ASSUME NEW q \in Request, NEW i \in Id, NEW n \in Name, PatchVideos(q, i, n)
      PROVE  TypeInv'
  <2>1. UNCHANGED <<list, at, del, seen>> /\ stage' \in [Request -> Stage]
    BY <1>2 DEF PatchVideos, settings, Goto, Taken, StatementFails, TypeInv, Types, Stage
  <2>2. Place'
    BY <1>2, <2>1 DEF PatchVideos, Goto, Taken, StatementFails, TypeInv, Types, Place
  <2>3. TableOK'
    BY <1>2, Renames DEF TypeInv
  <2>4. CASE \E rows : Write(q, rows)
    BY <2>1, <2>2, <2>3, <2>4, Writes DEF TypeInv, Types
  <2>5. CASE Taken(q, n) \/ StatementFails(q)
    BY <2>1, <2>2, <2>5, Fails DEF TypeInv, Types, Taken, StatementFails
  <2>6. QED
    BY <1>2, <2>4, <2>5 DEF PatchVideos
<1>3. ASSUME NEW q \in Request, NEW i \in Id \cup {0}, NEW n \in Name \cup {""}, DelVideos(q, i, n)
      PROVE  TypeInv'
  <2>1. UNCHANGED <<list, at, del, seen>> /\ stage' \in [Request -> Stage]
    BY <1>3 DEF DelVideos, settings, Goto, StatementFails, TypeInv, Types, Stage
  <2>2. Place'
    BY <1>3, <2>1 DEF DelVideos, Goto, StatementFails, TypeInv, Types, Place
  <2>3. CASE \E which : DeleteRows(q, which)
    BY <2>1, <2>2, <2>3, Deletes, Writes DEF TypeInv, Types, DeleteRows
  <2>4. CASE StatementFails(q)
    BY <2>1, <2>2, <2>4, Fails DEF TypeInv, Types, StatementFails
  <2>5. QED
    BY <1>3, <2>3, <2>4 DEF DelVideos
<1>4. ASSUME NEW q \in Request, NEW names \in BoundedSeq(Name, MaxList), SettingsVideos(q, names)
      PROVE  TypeInv'
  <2>1. Ids({r \in streams : r.name \notin ToSet(names)}) \subseteq Id /\ streams \subseteq Row
    BY DEF TypeInv, TableOK, RowsOK, Ids, Row
  <2>2. TableOK' /\ UNCHANGED <<removed, alone, madeSince>> /\ errors' \in 0 .. MaxErrors
    BY <1>4, Fails DEF SettingsVideos, table, history, StatementFails, TypeInv, TableOK, RowsOK,
      Types
  <2>3. /\ stage' \in [Request -> Stage] /\ del' \in [Request -> SUBSET Id]
        /\ seen' \in [Request -> SUBSET Row]
    BY <1>4, <2>1 DEF SettingsVideos, StatementFails, Goto, TypeInv, Types, Stage
  <2>4. list' \in [Request -> BoundedSeq(Name, MaxList)] /\ at' \in [Request -> 0 .. MaxList + 1]
    BY <1>4 DEF SettingsVideos, TypeInv, Types
  <2>5. Place'
    BY <1>4 DEF SettingsVideos, StatementFails, Goto, TypeInv, Types, Place
  <2>6. QED
    BY <2>2, <2>3, <2>4, <2>5 DEF TypeInv, Types
<1>5. ASSUME NEW q \in Request, DeleteVideo(q) PROVE TypeInv'
  <2>1. /\ UNCHANGED <<list, at, seen>> /\ stage' \in [Request -> Stage]
        /\ del' \in [Request -> SUBSET Id]
    BY <1>5 DEF DeleteVideo, Goto, StatementFails, TypeInv, Types, Stage
  <2>2. Place'
    BY <1>5, <2>1 DEF DeleteVideo, Goto, StatementFails, TypeInv, Types, Place
  <2>3. CASE \E which : DeleteRows(q, which)
    BY <2>1, <2>2, <2>3, Deletes, Writes DEF TypeInv, Types, DeleteRows
  <2>4. CASE StatementFails(q)
    BY <2>1, <2>2, <2>4, Fails DEF TypeInv, Types, StatementFails
  <2>5. QED
    BY <1>5, <2>3, <2>4 DEF DeleteVideo
<1>6. ASSUME NEW q \in Request, Lookup(q) PROVE TypeInv'
  <2>1. /\ UNCHANGED <<list, at, del, seen, removed, alone>> /\ TableOK'
        /\ stage' \in [Request -> Stage] /\ madeSince' \in [Request -> SUBSET Request]
        /\ errors' \in 0 .. MaxErrors
    <3>1. UNCHANGED <<streams, nextId, list, at, del, seen, removed, alone>>
      BY <1>6 DEF Lookup, table, settings
    <3>2. TableOK'
      BY <3>1 DEF TypeInv, TableOK, RowsOK
    <3>3. stage' \in [Request -> Stage]
      BY <1>6 DEF Lookup, Goto, TypeInv, Types, Stage
    <3>4. madeSince' \in [Request -> SUBSET Request] /\ errors' \in 0 .. MaxErrors
      BY <1>6 DEF Lookup, TypeInv, Types
    <3>5. QED
      BY <3>1, <3>2, <3>3, <3>4
  <2>2. list[q] \in Seq(Name) /\ Len(list[q]) \in Nat /\ at[q] \in Nat
    BY Lists DEF TypeInv, Types
  <2>3. Place'
    BY <1>6, <2>1, <2>2 DEF Lookup, Goto, TypeInv, Types, Place
  <2>4. QED
    BY <2>1, <2>3 DEF TypeInv, Types
<1>7. ASSUME NEW q \in Request, UpdateVideo(q) PROVE TypeInv'
  <2>1. at[q] + 1 \in 0 .. MaxList + 1 /\ at[q] + 1 > 0
    <3>1. Len(list[q]) \in 0 .. MaxList /\ at[q] \in 1 .. Len(list[q])
      BY <1>7, Lists DEF UpdateVideo, TypeInv, Types, Place
    <3>2. QED
      BY <3>1
  <2>2. /\ UNCHANGED <<list, del, seen>> /\ stage' \in [Request -> Stage]
        /\ at' \in [Request -> 0 .. MaxList + 1]
    BY <1>7, <2>1 DEF UpdateVideo, Goto, StatementFails, TypeInv, Types, Stage
  <2>3. Place'
    BY <1>7, <2>1, <2>2 DEF UpdateVideo, Goto, StatementFails, TypeInv, Types, Place
  <2>4. QED
    BY <1>7, <2>2, <2>3, Fails DEF UpdateVideo, StatementFails, TypeInv, Types
<1>8. ASSUME NEW q \in Request, CreateVideo(q) PROVE TypeInv'
  <2>1. at[q] + 1 \in 0 .. MaxList + 1 /\ at[q] + 1 > 0 /\ list[q][at[q]] \in Name
    <3>1. /\ Len(list[q]) \in 0 .. MaxList /\ list[q] \in Seq(Name)
          /\ at[q] \in 1 .. Len(list[q])
      BY <1>8, Lists DEF CreateVideo, TypeInv, Types, Place
    <3>2. QED
      BY <3>1
  <2>2. /\ UNCHANGED <<list, del, seen>> /\ stage' \in [Request -> Stage]
        /\ at' \in [Request -> 0 .. MaxList + 1]
    BY <1>8, <2>1 DEF CreateVideo, Goto, Taken, StatementFails, TypeInv, Types, Stage
  <2>3. Place'
    BY <1>8, <2>1, <2>2 DEF CreateVideo, Goto, Taken, StatementFails, TypeInv, Types, Place
  <2>4. CASE InsertRow(q, list[q][at[q]])
    BY <2>1, <2>2, <2>3, <2>4, Inserts, Writes DEF TypeInv, Types, InsertRow
  <2>5. CASE Taken(q, list[q][at[q]]) \/ StatementFails(q)
    BY <2>2, <2>3, <2>5, Fails DEF TypeInv, Types, Taken, StatementFails
  <2>6. QED
    BY <1>8, <2>4, <2>5 DEF CreateVideo
<1>9. ASSUME NEW q \in Request, SettingsDone(q) PROVE TypeInv'
  BY <1>9 DEF SettingsDone, Goto, table, settings, history, TypeInv, TableOK, RowsOK, Types, Place,
    Stage
<1>10. CASE UNCHANGED vars
  BY <1>10 DEF vars, table, settings, history, TypeInv, TableOK, RowsOK, Types, Place
<1>11. QED
  BY <1>1, <1>2, <1>3, <1>4, <1>5, <1>6, <1>7, <1>8, <1>9, <1>10 DEF Next

(* An id that is not in the table and was given out does not come back.    *)
LEMMA IdsStep ==
  ASSUME TypeInv, [Next]_vars
  PROVE  /\ nextId \in Nat /\ nextId' \in Nat /\ nextId' >= nextId
         /\ \A i \in Ids(streams') : i \in Ids(streams) \/ i >= nextId
<1> DEFINE Kept == /\ nextId' \in Nat /\ nextId' >= nextId
                   /\ \A i \in Ids(streams') : i \in Ids(streams) \/ i >= nextId
<1>1. nextId \in Nat
  BY VideoAssumption DEF TypeInv, TableOK
<1>2. ASSUME NEW q, NEW n, InsertRow(q, n) PROVE Kept
  BY <1>1, <1>2 DEF InsertRow, Write, Ids
<1>3. ASSUME NEW q, NEW which, DeleteRows(q, which) PROVE Kept
  BY <1>1, <1>3 DEF DeleteRows, Write, Ids
<1>4. ASSUME NEW q \in Request, NEW i \in Id, NEW n \in Name, PatchVideos(q, i, n) PROVE Kept
  BY <1>1, <1>4, Renames DEF TypeInv
<1>5. CASE UNCHANGED table
  BY <1>1, <1>5 DEF table
<1>6. QED
  <2>1. ASSUME NEW q \in Request, NEW n \in Name, AddVideos(q, n) PROVE Kept
    BY <1>2, <1>5, <2>1 DEF AddVideos, Taken, StatementFails, Unwritten
  <2>2. ASSUME NEW q \in Request, NEW i, NEW n, DelVideos(q, i, n) PROVE Kept
    BY <1>3, <1>5, <2>2 DEF DelVideos, StatementFails, Unwritten
  <2>3. ASSUME NEW q \in Request, NEW names, SettingsVideos(q, names) PROVE Kept
    BY <1>5, <2>3 DEF SettingsVideos, StatementFails, Unwritten
  <2>4. ASSUME NEW q \in Request, DeleteVideo(q) PROVE Kept
    BY <1>3, <1>5, <2>4 DEF DeleteVideo, StatementFails, Unwritten
  <2>5. ASSUME NEW q \in Request, Lookup(q) \/ UpdateVideo(q) \/ SettingsDone(q) PROVE Kept
    BY <1>5, <2>5 DEF Lookup, UpdateVideo, SettingsDone, StatementFails, Unwritten
  <2>6. ASSUME NEW q \in Request, CreateVideo(q) PROVE Kept
    BY <1>2, <1>5, <2>6 DEF CreateVideo, Taken, StatementFails, Unwritten
  <2>7. QED
    BY <1>1, <1>4, <1>5, <2>1, <2>2, <2>3, <2>4, <2>5, <2>6 DEF Next, vars

(* What was read and not listed stays gone or to be deleted.               *)
LEMMA ReadStep ==
  ASSUME TypeInv, Read, [Next]_vars
  PROVE  Read'
<1> DEFINE Gone(p) == (IsSettings(p) /\ stage[p] # "failed") =>
             \A r \in seen[p] : r.name \notin Listed(p) => r.id \in del[p] \/ r.id \notin Ids(streams)
<1>1. /\ nextId \in Nat /\ nextId' \in Nat /\ nextId' >= nextId
      /\ \A i \in Ids(streams') : i \in Ids(streams) \/ i >= nextId
  BY IdsStep
<1>2. \A p \in Request : \A r \in seen[p] : r.id \in Nat /\ r.id < nextId
  BY DEF Read, TypeInv, Types, Row, Id
<1>3. ASSUME NEW p \in Request, UNCHANGED <<at[p], list[p], seen[p], del[p]>>,
             stage'[p] # "failed" => stage[p] # "failed"
      PROVE  Gone(p)' /\ \A r \in seen'[p] : r.id < nextId'
  BY <1>1, <1>2, <1>3 DEF Read, IsSettings, Listed
<1>4. ASSUME NEW q \in Request, UNCHANGED <<list, at, del, seen>>, stage' = stage \/ \E s : Goto(q, s),
             stage[q] # "failed"
      PROVE  Read'
  BY <1>3, <1>4 DEF Goto, Read, TypeInv, Types
<1>5. ASSUME NEW q \in Request, NEW names \in BoundedSeq(Name, MaxList), SettingsVideos(q, names)
      PROVE  Read'
  <2>1. ASSUME NEW p \in Request \ {q} PROVE Gone(p)' /\ \A r \in seen'[p] : r.id < nextId'
    BY <1>3, <1>5 DEF SettingsVideos, StatementFails, Goto, TypeInv, Types
  <2>2. CASE StatementFails(q) /\ UNCHANGED <<del, seen>>
    <3>1. stage'[q] = "failed" /\ seen'[q] = seen[q]
      BY <2>2 DEF StatementFails, Goto, TypeInv, Types
    <3>2. QED
      BY <1>1, <1>2, <2>1, <3>1 DEF Read
  <2>3. CASE ~(StatementFails(q) /\ UNCHANGED <<del, seen>>)
    <3>1. /\ seen'[q] = streams /\ streams' = streams /\ nextId' = nextId /\ list'[q] = names
          /\ del'[q] = Ids({r \in streams : r.name \notin ToSet(names)})
      BY <1>5, <2>3 DEF SettingsVideos, table, TypeInv, Types
    <3>2. Gone(q)' /\ \A r \in seen'[q] : r.id < nextId'
      BY <3>1 DEF Ids, Listed, TypeInv, TableOK
    <3>3. QED
      BY <2>1, <3>2 DEF Read
  <2>4. QED
    BY <1>5, <2>2, <2>3 DEF SettingsVideos
<1>6. ASSUME NEW q \in Request, DeleteVideo(q) PROVE Read'
  <2>1. CASE StatementFails(q) /\ UNCHANGED del
    BY <1>4, <1>6, <2>1 DEF DeleteVideo, StatementFails
  <2>2. CASE ~(StatementFails(q) /\ UNCHANGED del)
    <3> DEFINE i == Min(del[q])
    <3>1. /\ streams' = streams \ {r \in streams : r.id = i}
          /\ UNCHANGED <<stage, list, at, seen>>
          /\ del' = [del EXCEPT ![q] = @ \ {i}]
      BY <1>6, <2>2 DEF DeleteVideo, DeleteRows, Write
    <3> HIDE DEF i
    <3>2. ASSUME NEW p \in Request \ {q} PROVE Gone(p)' /\ \A r \in seen'[p] : r.id < nextId'
      BY <1>3, <3>1 DEF TypeInv, Types
    <3>3. \A j \in del[q] : j \in del'[q] \/ j \notin Ids(streams')
      BY <3>1 DEF Ids, TypeInv, Types
    <3>4. Gone(q)' /\ \A r \in seen'[q] : r.id < nextId'
      BY <1>1, <1>2, <3>1, <3>3 DEF Read, IsSettings, Listed
    <3>5. QED
      BY <3>2, <3>4 DEF Read
  <2>3. QED
    BY <1>6, <2>1, <2>2 DEF DeleteVideo
<1>7. ASSUME NEW q \in Request, UpdateVideo(q) \/ CreateVideo(q) PROVE Read'
  <2>1. /\ UNCHANGED <<list, del, seen>> /\ \A p \in Request \ {q} : at'[p] = at[p]
        /\ IsSettings(q) /\ stage[q] # "failed" /\ \E s : Goto(q, s)
    BY <1>7 DEF UpdateVideo, CreateVideo, Taken, StatementFails, Place, IsSettings, TypeInv, Types
  <2>2. ASSUME NEW p \in Request \ {q} PROVE Gone(p)' /\ \A r \in seen'[p] : r.id < nextId'
    BY <1>3, <2>1 DEF Goto, TypeInv, Types
  <2>3. Gone(q)' /\ \A r \in seen'[q] : r.id < nextId'
    BY <1>1, <1>2, <2>1 DEF Read, Listed
  <2>4. QED
    BY <2>2, <2>3 DEF Read
<1>8. CASE UNCHANGED vars
  BY <1>1, <1>8 DEF vars, table, settings, Read, IsSettings, Listed, Ids
<1>9. QED
  <2>1. ASSUME NEW q \in Request, NEW n \in Name, AddVideos(q, n) PROVE Read'
    BY <1>4, <2>1 DEF AddVideos, Taken, StatementFails, settings
  <2>2. ASSUME NEW q \in Request, NEW i, NEW n, PatchVideos(q, i, n) \/ DelVideos(q, i, n)
        PROVE  Read'
    BY <1>4, <2>2 DEF PatchVideos, DelVideos, Taken, StatementFails, settings
  <2>3. ASSUME NEW q \in Request, Lookup(q) \/ SettingsDone(q) PROVE Read'
    BY <1>4, <2>3 DEF Lookup, SettingsDone, settings
  <2>4. QED
    BY <1>5, <1>6, <1>7, <1>8, <2>1, <2>2, <2>3 DEF Next

-----------------------------------------------------------------------------
(* The order of the lookups.                                               *)

Wrote(p) == stage[p] = "ok" \/ (IsSettings(p) /\ stage[p] # "new")

(* It found nothing, and has not been able to create the row so far.       *)
Looked(p) == IsSettings(p) /\ stage[p] \in {"create", "failed"}

Writers == \A q \in Request : \A p \in madeSince[q] : Wrote(p) /\ p # q

(* Somebody made the row that is missing no more.                          *)
Overtaken ==
  \A q \in Request : (stage[q] = "create" /\ list[q][at[q]] \in Names(streams)) => madeSince[q] # {}

LookedLater ==
  \A q \in Request : \A p \in madeSince[q] :
    (Looked(q) /\ Looked(p)) => madeSince[p] \subseteq madeSince[q]

Order == Writers /\ (errors = 0 => Overtaken /\ LookedLater) /\ NotAllFail

(* A statement that succeeds, by a request that goes on or is done.        *)
LEMMA OrderWrite ==
  ASSUME TypeInv, TypeInv', Order, NEW q \in Request, Write(q, streams'),
         \A p \in Request \ {q} : stage'[p] = stage[p] /\ at'[p] = at[p],
         list' = list, Wrote(q)', stage'[q] \in {"run", "ok"}
  PROVE  Order'
<1>1. /\ errors' = errors
      /\ \A p \in Request : /\ madeSince[p] \subseteq madeSince'[p]
                            /\ madeSince'[p] \subseteq madeSince[p] \cup {q}
                            /\ q \in madeSince'[p] => q \in madeSince[p] \/ p # q
  BY DEF Write, TypeInv, Types
<1>2. \A p \in Request \ {q} : (Looked(p) /\ q \in madeSince'[p] /\ q \notin madeSince[p]) =>
        \A r \in Request \ {q} : Looked(r) => q \in madeSince'[r]
  BY DEF Write, Looked, TypeInv, Types
<1>3. Writers'
  BY <1>1 DEF Order, Writers, Wrote, IsSettings, TypeInv, Types
<1>4. ASSUME errors = 0 PROVE Overtaken'
  <2> SUFFICES ASSUME NEW p \in Request, stage'[p] = "create", list'[p][at'[p]] \in Names(streams')
               PROVE  madeSince'[p] # {}
    BY DEF Overtaken
  <2>1. p # q /\ stage[p] = "create" /\ IsSettings(p) /\ list'[p][at'[p]] = list[p][at[p]]
    BY Lists DEF TypeInv, Types, Place, IsSettings
  <2>2. CASE list[p][at[p]] \in Names(streams)
    BY <1>1, <1>4, <2>1, <2>2 DEF Order, Overtaken
  <2>3. CASE list[p][at[p]] \notin Names(streams)
    BY <2>1, <2>3 DEF Write
  <2>4. QED
    BY <2>2, <2>3
<1>5. ASSUME errors = 0 PROVE LookedLater'
  <2> SUFFICES ASSUME NEW r \in Request, NEW p \in madeSince'[r], Looked(r)', Looked(p)',
                      NEW x \in madeSince'[p]
               PROVE  x \in madeSince'[r]
    BY DEF LookedLater
  <2>1. p # q /\ r # q /\ p \in Request
    BY <1>1 DEF Looked, TypeInv, Types
  <2>2. Looked(r) /\ Looked(p) /\ p \in madeSince[r]
    BY <1>1, <2>1 DEF Looked, IsSettings
  <2>3. madeSince[p] \subseteq madeSince[r]
    BY <1>5, <2>2 DEF Order, LookedLater
  <2>4. QED
    BY <1>1, <1>2, <2>1, <2>2, <2>3
<1>6. NotAllFail'
  <2> SUFFICES ASSUME errors = 0, NEW r \in Request, IsSettings(r)', stage'[r] = "failed"
               PROVE  \E p \in madeSince'[r] : stage'[p] # "failed"
    BY <1>1 DEF NotAllFail
  <2>1. PICK p \in madeSince[r] : stage[p] # "failed"
    BY DEF Order, NotAllFail, IsSettings
  <2>2. QED
    BY <1>1, <2>1 DEF TypeInv, Types
<1>7. QED
  BY <1>1, <1>3, <1>4, <1>5, <1>6 DEF Order

(* A request goes on, or is done, without writing.                         *)
LEMMA OrderQuiet ==
  ASSUME TypeInv, TypeInv', Order, NEW q \in Request,
         streams' = streams, errors' = errors, madeSince' = madeSince,
         \A p \in Request \ {q} : stage'[p] = stage[p] /\ UNCHANGED <<at[p], list[p]>>,
         \/ stage'[q] \in {"run", "ok"} /\ stage[q] # "failed" /\ Wrote(q)'
         \/ stage[q] = "new" /\ stage'[q] = "failed" /\ ~IsSettings(q)'
  PROVE  Order'
<1>1. \A p \in Request : (Looked(p)' => Looked(p)) /\ (Looked(p)' => p # q)
  BY DEF Looked, IsSettings
<1>2. stage[q] = "new" => \A p \in Request : q \notin madeSince[p]
  BY DEF Order, Writers, Wrote
<1>3. Writers'
  BY <1>2 DEF Order, Writers, Wrote, IsSettings, TypeInv, Types
<1>4. ASSUME errors = 0 PROVE Overtaken'
  BY <1>4 DEF Order, Overtaken
<1>5. ASSUME errors = 0 PROVE LookedLater'
  BY <1>1, <1>5 DEF Order, LookedLater, TypeInv, Types
<1>6. NotAllFail'
  BY <1>2 DEF Order, NotAllFail, IsSettings, TypeInv, Types
<1>7. QED
  BY <1>3, <1>4, <1>5, <1>6 DEF Order

(* A request gives up since another made its row.  If that one gave up as  *)
(* well, somebody who did not came before it, and after the lookup of the  *)
(* first.                                                                  *)
LEMMA OrderTaken ==
  ASSUME TypeInv, Order, NEW q \in Request, stage[q] = "create", list[q][at[q]] \in Names(streams),
         Goto(q, "failed"), UNCHANGED <<streams, errors, madeSince, at, list>>
  PROVE  Order'
<1>1. IsSettings(q) /\ Looked(q) /\ stage'[q] = "failed"
      /\ \A p \in Request \ {q} : stage'[p] = stage[p]
  BY DEF TypeInv, Types, Place, Looked, IsSettings, Goto
<1>2. Writers' /\ \A p \in Request : Looked(p)' = Looked(p)
  <2>1. \A p \in Request : IsSettings(p)' = IsSettings(p)
    BY DEF IsSettings
  <2>2. \A p \in Request : Wrote(p) => Wrote(p)'
    BY <1>1, <2>1 DEF Wrote
  <2>3. Writers'
    BY <2>2 DEF Order, Writers, TypeInv, Types
  <2>4. \A p \in Request : Looked(p)' <=> Looked(p)
    BY <1>1, <2>1 DEF Looked
  <2>5. QED
    BY <2>3, <2>4 DEF Looked
<1>3. ASSUME errors = 0 PROVE Overtaken'
  BY <1>1, <1>3 DEF Order, Overtaken
<1>4. ASSUME errors = 0 PROVE LookedLater'
  BY <1>2, <1>4 DEF Order, LookedLater, TypeInv, Types
<1>5. NotAllFail'
  <2> SUFFICES ASSUME errors = 0, NEW r \in Request, IsSettings(r)', stage'[r] = "failed"
               PROVE  \E p \in madeSince[r] : stage'[p] # "failed"
    BY DEF NotAllFail
  <2>1. \A p \in Request : madeSince[p] \subseteq Request /\ q \notin madeSince[q]
    BY DEF TypeInv, Types, Order, Writers
  <2>2. PICK v \in madeSince[q] : v # q /\ Wrote(v)
    BY DEF Order, Overtaken, Writers
  <2>3. PICK w \in madeSince[q] : stage[w] # "failed"
    <3>1. CASE stage[v] # "failed"
      BY <3>1
    <3>2. CASE stage[v] = "failed"
      <4>1. Looked(v)
        BY <2>2, <3>2 DEF Wrote, Looked
      <4>2. madeSince[v] \subseteq madeSince[q]
        BY <1>1, <2>1, <2>2, <4>1 DEF Order, LookedLater
      <4>3. QED
        BY <2>1, <3>2, <4>1, <4>2 DEF Order, NotAllFail, Looked
    <3>3. QED
      BY <3>1, <3>2
  <2>4. w # q /\ stage'[w] # "failed"
    BY <1>1, <2>1, <2>3
  <2>5. CASE r = q
    BY <2>4, <2>5
  <2>6. CASE r # q
    <3>1. stage[r] = "failed" /\ IsSettings(r) /\ Looked(r)
      BY <1>1, <2>6 DEF IsSettings, Looked
    <3>2. PICK u \in madeSince[r] : stage[u] # "failed"
      BY <3>1 DEF Order, NotAllFail
    <3>3. CASE u = q
      BY <1>1, <2>4, <3>1, <3>3 DEF Order, LookedLater
    <3>4. CASE u # q
      BY <1>1, <2>1, <3>2, <3>4
    <3>5. QED
      BY <3>3, <3>4
  <2>7. QED
    BY <2>5, <2>6
<1>6. QED
  BY <1>2, <1>3, <1>4, <1>5 DEF Order

(* A lookup: the request comes after all that wrote.                       *)
LEMMA OrderLookup ==
  ASSUME TypeInv, TypeInv', Order, NEW q \in Request, Lookup(q)
  PROVE  Order'
<1>1. /\ UNCHANGED <<streams, at, list>> /\ stage[q] = "run" /\ errors' \in {errors, errors + 1}
      /\ stage'[q] \in {"update", "create"} /\ \A p \in Request \ {q} : stage'[p] = stage[p]
      /\ madeSince'[q] = {} /\ \A p \in Request \ {q} : madeSince'[p] = madeSince[p]
      /\ errors' = errors => (stage'[q] = "create" => list[q][at[q]] \notin Names(streams))
  BY DEF Lookup, Goto, table, settings, TypeInv, Types
<1>2. IsSettings(q) /\ \A p \in Request : IsSettings(p)' = IsSettings(p)
  BY <1>1 DEF TypeInv, Place, IsSettings
<1>3. \A p \in Request : Wrote(p) => Wrote(p)'
  BY <1>1, <1>2 DEF Wrote
<1>4. Writers'
  BY <1>1, <1>3 DEF Order, Writers, TypeInv, Types
<1>5. errors' = 0 => errors = 0 /\ errors' = errors
  BY <1>1 DEF TypeInv, Types
<1>6. ASSUME errors' = 0 PROVE Overtaken'
  BY <1>1, <1>5, <1>6 DEF Order, Overtaken
<1>7. ASSUME errors' = 0 PROVE LookedLater'
  <2> SUFFICES ASSUME NEW r \in Request, NEW p \in madeSince'[r], Looked(r)', Looked(p)'
               PROVE  madeSince'[p] \subseteq madeSince'[r]
    BY DEF LookedLater
  <2>1. r # q /\ p \in Request /\ p \in madeSince[r]
    BY <1>1 DEF TypeInv, Types
  <2>2. CASE p = q
    BY <1>1, <2>2
  <2>3. CASE p # q
    BY <1>1, <1>2, <1>5, <1>7, <2>1, <2>3 DEF Looked, Order, LookedLater
  <2>4. QED
    BY <2>2, <2>3
<1>8. NotAllFail'
  BY <1>1, <1>2, <1>5 DEF Order, NotAllFail, TypeInv, Types
<1>9. QED
  BY <1>4, <1>6, <1>7, <1>8 DEF Order

(* After a failure of the database nothing is claimed of who gives up.     *)
LEMMA OrderError ==
  ASSUME TypeInv, Order, NEW q \in Request, StatementFails(q),
         stage[q] \notin {"ok", "failed"},
         \A p \in Request : at'[p] = at[p] \/ at'[p] > 0
  PROVE  Order'
<1>1. /\ errors' > 0 /\ madeSince' = madeSince /\ stage'[q] = "failed"
      /\ \A p \in Request \ {q} : stage'[p] = stage[p]
  BY DEF StatementFails, Unwritten, Goto, TypeInv, Types
<1>2. \A p \in Request : Wrote(p) => Wrote(p)'
  BY <1>1 DEF Wrote, IsSettings
<1>3. Writers'
  BY <1>1, <1>2 DEF Order, Writers, TypeInv, Types
<1>4. QED
  BY <1>1, <1>3 DEF Order, NotAllFail

(* Every step keeps the order.                                             *)
LEMMA OrderStep ==
  ASSUME TypeInv, Order, [Next]_vars
  PROVE  Order'
<1>0. TypeInv'
  BY TypeStep
<1>1. ASSUME NEW q \in Request, NEW n \in Name, AddVideos(q, n) PROVE Order'
  <2>1. /\ UNCHANGED <<list, at>> /\ stage[q] = "new" /\ at[q] = 0
        /\ \A p \in Request \ {q} : stage'[p] = stage[p]
    BY <1>1 DEF AddVideos, settings, Taken, StatementFails, Goto, TypeInv, Types, Place
  <2>2. CASE InsertRow(q, n) /\ Goto(q, "ok")
    <3>1. stage'[q] = "ok" /\ Write(q, streams')
      BY <2>2 DEF Goto, InsertRow, Write, TypeInv, Types
    <3>2. QED
      BY <1>0, <2>1, <3>1, OrderWrite DEF Wrote
  <2>3. CASE Taken(q, n)
    <3>1. UNCHANGED <<streams, errors, madeSince>> /\ stage'[q] = "failed"
      BY <2>3 DEF Taken, Unwritten, table, Goto, TypeInv, Types
    <3>2. QED
      BY <1>0, <2>1, <3>1, OrderQuiet DEF IsSettings
  <2>4. QED
    BY <1>1, <2>1, <2>2, <2>3, OrderError DEF AddVideos
<1>2. ASSUME NEW q \in Request, NEW i \in Id, NEW n \in Name, PatchVideos(q, i, n) PROVE Order'
  <2>1. /\ UNCHANGED <<list, at>> /\ stage[q] = "new" /\ at[q] = 0
        /\ \A p \in Request \ {q} : stage'[p] = stage[p]
    BY <1>2 DEF PatchVideos, settings, Taken, StatementFails, Goto, TypeInv, Types, Place
  <2>2. CASE Goto(q, "ok") /\ \E rows : Write(q, rows)
    <3>1. stage'[q] = "ok" /\ Write(q, streams')
      BY <2>2 DEF Goto, Write, TypeInv, Types
    <3>2. QED
      BY <1>0, <2>1, <3>1, OrderWrite DEF Wrote
  <2>3. CASE Taken(q, n)
    <3>1. UNCHANGED <<streams, errors, madeSince>> /\ stage'[q] = "failed"
      BY <2>3 DEF Taken, Unwritten, table, Goto, TypeInv, Types
    <3>2. QED
      BY <1>0, <2>1, <3>1, OrderQuiet DEF IsSettings
  <2>4. QED
    BY <1>2, <2>1, <2>2, <2>3, OrderError DEF PatchVideos
<1>3. ASSUME NEW q \in Request, NEW i, NEW n, DelVideos(q, i, n) PROVE Order'
  <2>1. /\ UNCHANGED <<list, at>> /\ stage[q] = "new"
        /\ \A p \in Request \ {q} : stage'[p] = stage[p]
    BY <1>3 DEF DelVideos, settings, StatementFails, Goto, TypeInv, Types
  <2>2. CASE Goto(q, "ok") /\ \E which : DeleteRows(q, which)
    <3>1. stage'[q] = "ok" /\ Write(q, streams')
      BY <2>2 DEF Goto, DeleteRows, Write, TypeInv, Types
    <3>2. QED
      BY <1>0, <2>1, <3>1, OrderWrite DEF Wrote
  <2>3. QED
    BY <1>3, <2>1, <2>2, OrderError DEF DelVideos
<1>4. ASSUME NEW q \in Request, NEW names, SettingsVideos(q, names) PROVE Order'
  <2>1. /\ stage[q] = "new" /\ at'[q] = 1
        /\ \A p \in Request \ {q} : UNCHANGED <<at[p], list[p]>> /\ stage'[p] = stage[p]
    BY <1>4 DEF SettingsVideos, StatementFails, Goto, TypeInv, Types
  <2>2. CASE Goto(q, "run") /\ UNCHANGED <<table, history>>
    <3>1. stage'[q] = "run" /\ UNCHANGED <<streams, errors, madeSince>>
      BY <2>2 DEF Goto, table, history, TypeInv, Types
    <3>2. QED
      BY <1>0, <2>1, <3>1, OrderQuiet DEF Wrote, IsSettings
  <2>3. QED
    BY <1>4, <2>1, <2>2, OrderError DEF SettingsVideos
<1>5. ASSUME NEW q \in Request, DeleteVideo(q) PROVE Order'
  <2>1. UNCHANGED <<list, at>> /\ stage[q] = "run" /\ IsSettings(q)
    BY <1>5 DEF DeleteVideo, TypeInv, Place, IsSettings
  <2>2. CASE UNCHANGED stage /\ \E which : DeleteRows(q, which)
    <3>1. Write(q, streams')
      BY <2>2 DEF DeleteRows, Write
    <3>2. QED
      BY <1>0, <2>1, <2>2, <3>1, OrderWrite DEF Wrote, IsSettings
  <2>3. QED
    BY <1>5, <2>1, <2>2, OrderError DEF DeleteVideo
<1>6. ASSUME NEW q \in Request, Lookup(q) PROVE Order'
  BY <1>0, <1>6, OrderLookup
<1>7. ASSUME NEW q \in Request, UpdateVideo(q) PROVE Order'
  <2>1. UNCHANGED list /\ stage[q] = "update" /\ at[q] \in Nat /\ at[q] > 0
    BY <1>7, Lists, VideoAssumption DEF UpdateVideo, TypeInv, Types, Place
  <2>2. CASE Goto(q, "run") /\ at' = [at EXCEPT ![q] = @ + 1] /\ Unwritten /\ UNCHANGED errors
    <3>1. /\ stage'[q] = "run" /\ at'[q] > 0 /\ UNCHANGED <<streams, errors, madeSince>>
          /\ \A p \in Request \ {q} : at'[p] = at[p] /\ stage'[p] = stage[p]
      BY <2>1, <2>2 DEF Goto, Unwritten, table, TypeInv, Types
    <3>2. QED
      BY <1>0, <2>1, <3>1, OrderQuiet DEF Wrote, IsSettings
  <2>3. QED
    BY <1>7, <2>1, <2>2, OrderError DEF UpdateVideo
<1>8. ASSUME NEW q \in Request, CreateVideo(q) PROVE Order'
  <2>1. UNCHANGED list /\ stage[q] = "create" /\ at[q] \in Nat /\ at[q] > 0
    BY <1>8, Lists, VideoAssumption DEF CreateVideo, TypeInv, Types, Place
  <2>2. CASE InsertRow(q, list[q][at[q]]) /\ Goto(q, "run") /\ at' = [at EXCEPT ![q] = @ + 1]
    <3>1. /\ stage'[q] = "run" /\ at'[q] > 0 /\ Write(q, streams')
          /\ \A p \in Request \ {q} : at'[p] = at[p] /\ stage'[p] = stage[p]
      BY <2>1, <2>2 DEF Goto, InsertRow, Write, TypeInv, Types
    <3>2. QED
      BY <1>0, <2>1, <3>1, OrderWrite DEF Wrote, IsSettings
  <2>3. CASE Taken(q, list[q][at[q]]) /\ UNCHANGED at
    BY <2>1, <2>3, OrderTaken DEF Taken, Unwritten, table
  <2>4. QED
    BY <1>8, <2>1, <2>2, <2>3, OrderError DEF CreateVideo
<1>9. ASSUME NEW q \in Request, SettingsDone(q) PROVE Order'
  <2>1. /\ stage'[q] = "ok" /\ stage[q] = "run" /\ UNCHANGED <<streams, errors, madeSince, at, list>>
        /\ \A p \in Request \ {q} : stage'[p] = stage[p]
    BY <1>9 DEF SettingsDone, Goto, table, settings, history, TypeInv, Types
  <2>2. QED
    BY <1>0, <2>1, OrderQuiet DEF Wrote
<1>10. CASE UNCHANGED vars
  BY <1>10 DEF vars, table, settings, history, Order, Writers, Wrote, Overtaken, LookedLater, Looked,
    NotAllFail, IsSettings
<1>11. QED
  BY <1>1, <1>2, <1>3, <1>4, <1>5, <1>6, <1>7, <1>8, <1>9, <1>10 DEF Next

-----------------------------------------------------------------------------
(* What a settings request has brought about.                              *)

(* The names it has come past were there, or have been taken out by others *)
(* since.                                                                  *)
KeptOf(q) ==
  /\ at[q] = 0 => list[q] = <<>>
  /\ del[q] # {} => at[q] = 1 /\ stage[q] \in {"run", "failed"}
  /\ (stage[q] = "ok" /\ IsSettings(q)) => at[q] > Len(list[q])
  /\ stage[q] # "failed" =>
       \A i \in 1 .. Len(list[q]) :
         (i < at[q] \/ (i = at[q] /\ stage[q] = "update")) =>
            list[q][i] \in Names(streams) \cup removed[q]

(* If it is alone, and nothing fails, the rows it read and lists stay, and *)
(* beside the ones it has still to delete there are only rows it lists; so *)
(* it can create what it does not find.                                    *)
AloneOf(q) ==
  /\ alone[q] => removed[q] = {}
  /\ \A r \in seen[q] : r.id \in del[q] => r.name \notin Listed(q)
  /\ (IsSettings(q) /\ alone[q] /\ errors = 0) =>
       /\ stage[q] # "failed"
       /\ stage[q] = "create" => list[q][at[q]] \notin Names(streams)
       /\ \A r \in seen[q] : r.name \in Listed(q) => r \in streams
       /\ \A r \in streams : r.name \in Listed(q) \/ r.id \in del[q]

SetInv == \A q \in Request : KeptOf(q) /\ AloneOf(q)

(* The least of the ids.                                                   *)
LEMMA MinIn ==
  ASSUME NEW T \in SUBSET Id, T # {}
  PROVE  Min(T) \in T
<1> DEFINE R == {ss \in Nat \X Nat : ss[1] < ss[2]}
<1>1. IsWellFoundedOn(R, Nat)
  BY NatLessThanWellFounded DEF OpToRel
<1>2. T \subseteq Nat
  BY VideoAssumption DEF Id
<1>3. PICK m \in T : \A k \in T : ~(<<k, m>> \in R)
  <2> HIDE DEF R
  <2>1. QED
    BY <1>1, <1>2, WFMin
<1>4. ASSUME NEW k \in T PROVE m <= k
  <2>1. k \in Nat /\ m \in Nat /\ <<k, m>>[1] = k /\ <<k, m>>[2] = m
        /\ <<k, m>> \in Nat \X Nat
    BY <1>2
  <2>2. ~(<<k, m>>[1] < <<k, m>>[2])
    BY <1>3, <2>1
  <2>3. QED
    BY <2>1, <2>2
<1>5. \E x \in T : \A y \in T : x <= y
  BY <1>4
<1>6. QED
  BY <1>5 DEF Min

(* A place of the list holds one of the listed names.                      *)
LEMMA ListedAt ==
  ASSUME NEW q \in Request, NEW i \in 1 .. Len(list[q])
  PROVE  list[q][i] \in Listed(q)
BY DEF Listed, ToSet

(* Statements of another request: what they take out is remembered.        *)
LEMMA SetOthers ==
  ASSUME TypeInv, NEW q \in Request, NEW p \in Request \ {q}, KeptOf(p), AloneOf(p),
         UNCHANGED <<stage[p], list[p], at[p], del[p], seen[p]>>,
         errors' = 0 => errors = 0,
         Write(q, streams') \/ UNCHANGED <<streams, removed, alone>>
  PROVE  KeptOf(p)' /\ AloneOf(p)'
<1>1. CASE UNCHANGED <<streams, removed, alone>>
  BY <1>1 DEF KeptOf, AloneOf, IsSettings, Listed
<1>2. CASE Write(q, streams')
  <2>1. /\ removed'[p] = IF IsSettings(p)
                         THEN removed[p] \cup ((Names(streams) \ Names(streams')) \cap Listed(p))
                         ELSE removed[p]
        /\ alone'[p] = (alone[p] /\ (IsSettings(p) => streams' = streams))
    BY <1>2 DEF Write
  <2>2. CASE IsSettings(p)
    <3>1. \A i \in 1 .. Len(list[p]) :
            list[p][i] \in Names(streams) \cup removed[p] =>
              list[p][i] \in Names(streams') \cup removed'[p]
      BY <2>1, <2>2, ListedAt
    <3>2. KeptOf(p)'
      BY <3>1 DEF KeptOf, IsSettings
    <3>3. alone'[p] => alone[p] /\ streams' = streams
      BY <2>1, <2>2
    <3>4. alone'[p] => removed'[p] = removed[p]
      BY <2>1, <3>3
    <3>5. AloneOf(p)'
      BY <3>3, <3>4 DEF AloneOf, IsSettings, Listed
    <3>6. QED
      BY <3>2, <3>5
  <2>3. CASE ~IsSettings(p)
    <3>1. at[p] = 0
      BY <2>3 DEF IsSettings, TypeInv, Types
    <3>2. Len(list[p]) = 0
      BY <3>1 DEF KeptOf
    <3>3. removed'[p] = removed[p] /\ (alone'[p] => alone[p])
      BY <2>1, <2>3
    <3>4. KeptOf(p)'
      BY <2>3, <3>2 DEF KeptOf, IsSettings
    <3>5. AloneOf(p)'
      BY <2>3, <3>3 DEF AloneOf, IsSettings, Listed
    <3>6. QED
      BY <3>4, <3>5
  <2>4. QED
    BY <2>2, <2>3
<1>3. QED
  BY <1>1, <1>2

(* A request's own statement leaves alone what is remembered of others.    *)
LEMMA OwnWrite ==
  ASSUME TypeInv, NEW q \in Request, NEW rows, Write(q, rows)
  PROVE  removed'[q] = removed[q] /\ alone'[q] = alone[q] /\ streams' = rows /\ errors' = errors
BY DEF Write, TypeInv, Types

(* The statements of the requests that are not about settings.             *)
LEMMA SetSingle ==
  ASSUME TypeInv, SetInv, NEW q \in Request, stage[q] = "new", UNCHANGED settings,
         \E s : Goto(q, s), errors' = 0 => errors = 0,
         (\E rows : Write(q, rows)) \/ Unwritten
  PROVE  SetInv'
<1>1. Write(q, streams') \/ UNCHANGED <<streams, removed, alone>>
  BY DEF Write, Unwritten, table
<1>2. UNCHANGED <<list, at, del, seen>> /\ at[q] = 0
      /\ \A p \in Request \ {q} : stage'[p] = stage[p]
  BY DEF settings, Goto, TypeInv, Types, Place
<1>3. ASSUME NEW p \in Request \ {q} PROVE KeptOf(p)' /\ AloneOf(p)'
  BY <1>1, <1>2, SetOthers DEF SetInv
<1>4. removed'[q] = removed[q] /\ alone'[q] = alone[q]
  BY <1>1, OwnWrite
<1>5. ~IsSettings(q) /\ ~IsSettings(q)' /\ Len(list[q]) = 0 /\ KeptOf(q) /\ AloneOf(q)
  BY <1>2 DEF SetInv, KeptOf, IsSettings
<1>6. del[q] = {}
  BY <1>2, <1>5 DEF KeptOf
<1>7. KeptOf(q)'
  BY <1>2, <1>5, <1>6 DEF KeptOf
<1>8. AloneOf(q)'
  BY <1>2, <1>4, <1>5 DEF AloneOf, Listed
<1>9. QED
  BY <1>3, <1>7, <1>8 DEF SetInv

(* A statement that fails: nothing more is claimed.                        *)
LEMMA SetFails ==
  ASSUME TypeInv, SetInv, NEW q \in Request, StatementFails(q), stage[q] # "new",
         UNCHANGED <<list, at, del, seen>>
  PROVE  SetInv'
<1>1. /\ stage'[q] = "failed" /\ errors' # 0 /\ UNCHANGED <<streams, removed, alone>>
      /\ \A p \in Request \ {q} : stage'[p] = stage[p]
  BY DEF StatementFails, Goto, Unwritten, table, TypeInv, Types
<1>2. ASSUME NEW p \in Request \ {q} PROVE KeptOf(p)' /\ AloneOf(p)'
  BY <1>1, SetOthers DEF SetInv
<1>3. KeptOf(q) /\ AloneOf(q)
  BY DEF SetInv
<1>4. KeptOf(q)'
  BY <1>1, <1>3 DEF KeptOf, IsSettings
<1>5. AloneOf(q)'
  BY <1>1, <1>3 DEF AloneOf, Listed
<1>6. QED
  BY <1>2, <1>4, <1>5 DEF SetInv

(* The settings are read, and compared with the table.                     *)
LEMMA SetBegins ==
  ASSUME TypeInv, SetInv, NEW q \in Request, NEW names \in BoundedSeq(Name, MaxList),
         SettingsVideos(q, names)
  PROVE  SetInv'
<1>1. /\ stage[q] = "new" /\ at[q] = 0 /\ at'[q] = 1 /\ list'[q] = names
      /\ UNCHANGED <<streams, removed, alone>>
      /\ errors' = 0 => errors = 0
      /\ \A p \in Request \ {q} : UNCHANGED <<stage[p], list[p], at[p], del[p], seen[p]>>
  BY DEF SettingsVideos, StatementFails, Unwritten, table, history, Goto, TypeInv, Types, Place
<1>2. ASSUME NEW p \in Request \ {q} PROVE KeptOf(p)' /\ AloneOf(p)'
  BY <1>1, SetOthers DEF SetInv
<1>3. KeptOf(q) /\ AloneOf(q) /\ del[q] = {}
  BY <1>1 DEF SetInv, KeptOf
<1>4. CASE StatementFails(q) /\ UNCHANGED <<del, seen>>
  <2>1. stage'[q] = "failed" /\ errors' # 0
    BY <1>4 DEF StatementFails, Goto, TypeInv, Types
  <2>2. KeptOf(q)'
    BY <1>1, <1>3, <1>4, <2>1 DEF KeptOf
  <2>3. AloneOf(q)'
    BY <1>1, <1>3, <1>4, <2>1 DEF AloneOf
  <2>4. QED
    BY <1>2, <2>2, <2>3 DEF SetInv
<1>5. CASE /\ Goto(q, "run")
           /\ seen' = [seen EXCEPT ![q] = streams]
           /\ del' = [del EXCEPT ![q] = Ids({r \in streams : r.name \notin ToSet(names)})]
  <2>1. /\ stage'[q] = "run" /\ seen'[q] = streams
        /\ del'[q] = Ids({r \in streams : r.name \notin ToSet(names)})
        /\ Listed(q)' = ToSet(names)
    BY <1>1, <1>5 DEF Goto, Listed, TypeInv, Types
  <2>2. KeptOf(q)'
    <3>1. \A i \in 1 .. Len(names) : ~(i < 1)
      OBVIOUS
    <3>2. QED
      BY <1>1, <2>1, <3>1 DEF KeptOf
  <2>3. AloneOf(q)'
    <3>1. \A r \in streams : r.id \in del'[q] => r.name \notin Listed(q)'
      BY <2>1 DEF Ids, TypeInv, TableOK, RowsOK
    <3>2. \A r \in streams : r.name \in Listed(q)' \/ r.id \in del'[q]
      BY <2>1 DEF Ids
    <3>3. QED
      BY <1>1, <1>3, <2>1, <3>1, <3>2 DEF AloneOf
  <2>4. QED
    BY <1>2, <2>2, <2>3 DEF SetInv
<1>6. QED
  BY <1>4, <1>5 DEF SettingsVideos

(* An unlisted row goes; the request has not looked anything up yet.       *)
LEMMA SetDeletes ==
  ASSUME TypeInv, SetInv, NEW q \in Request, DeleteVideo(q)
  PROVE  SetInv'
<1>1. CASE StatementFails(q) /\ UNCHANGED del
  BY <1>1, SetFails DEF DeleteVideo
<1>2. CASE ~(StatementFails(q) /\ UNCHANGED del)
  <2> DEFINE i == Min(del[q])
  <2>1. i \in del[q]
    BY MinIn DEF DeleteVideo, TypeInv, Types
  <2>2. /\ Write(q, streams \ {r \in streams : r.id = i})
        /\ UNCHANGED <<stage, list, at, seen>>
        /\ del' = [del EXCEPT ![q] = @ \ {i}]
        /\ stage[q] = "run"
    BY <1>2 DEF DeleteVideo, DeleteRows
  <2> HIDE DEF i
  <2>3. /\ streams' = streams \ {r \in streams : r.id = i}
        /\ removed'[q] = removed[q] /\ alone'[q] = alone[q] /\ errors' = errors
    BY <2>2, OwnWrite
  <2>4. del'[q] = del[q] \ {i} /\ \A p \in Request \ {q} : del'[p] = del[p]
    BY <2>2 DEF TypeInv, Types
  <2>5. ASSUME NEW p \in Request \ {q} PROVE KeptOf(p)' /\ AloneOf(p)'
    BY <2>2, <2>3, <2>4, SetOthers DEF SetInv
  <2>6. KeptOf(q) /\ AloneOf(q) /\ at[q] = 1
    BY <2>1 DEF SetInv, KeptOf
  <2>7. KeptOf(q)'
    <3>1. \A j \in 1 .. Len(list[q]) : ~(j < 1)
      OBVIOUS
    <3>2. QED
      BY <2>2, <2>4, <2>6, <3>1 DEF KeptOf
  <2>8. AloneOf(q)'
    BY <2>1, <2>2, <2>3, <2>4, <2>6 DEF AloneOf, IsSettings, Listed
  <2>9. QED
    BY <2>5, <2>7, <2>8 DEF SetInv
<1>3. QED
  BY <1>1, <1>2

(* A name is looked up.                                                    *)
LEMMA SetLookup ==
  ASSUME TypeInv, SetInv, NEW q \in Request, Lookup(q)
  PROVE  SetInv'
<1>1. /\ UNCHANGED <<streams, removed, alone, list, at, del, seen>>
      /\ stage[q] = "run" /\ del[q] = {} /\ at[q] <= Len(list[q])
      /\ errors' = 0 => errors = 0
      /\ stage'[q] = "update" \/ stage'[q] = "create"
      /\ stage'[q] = "update" => list[q][at[q]] \in Names(streams)
      /\ (stage'[q] = "create" /\ errors' = 0) => list[q][at[q]] \notin Names(streams)
      /\ \A p \in Request \ {q} : stage'[p] = stage[p]
  BY DEF Lookup, Goto, table, settings, TypeInv, Types
<1>2. ASSUME NEW p \in Request \ {q} PROVE KeptOf(p)' /\ AloneOf(p)'
  BY <1>1, SetOthers DEF SetInv
<1>3. KeptOf(q) /\ AloneOf(q)
  BY DEF SetInv
<1>4. KeptOf(q)'
  BY <1>1, <1>3 DEF KeptOf, IsSettings
<1>5. AloneOf(q)'
  BY <1>1, <1>3 DEF AloneOf, IsSettings, Listed
<1>6. QED
  BY <1>2, <1>4, <1>5 DEF SetInv

(* Its row is updated, if it is still there.                               *)
LEMMA SetUpdates ==
  ASSUME TypeInv, SetInv, NEW q \in Request, UpdateVideo(q)
  PROVE  SetInv'
<1>1. CASE StatementFails(q) /\ UNCHANGED at
  BY <1>1, SetFails DEF UpdateVideo
<1>2. CASE Goto(q, "run") /\ at' = [at EXCEPT ![q] = @ + 1] /\ Unwritten /\ UNCHANGED errors
  <2>1. /\ stage[q] = "update" /\ stage'[q] = "run" /\ at'[q] = at[q] + 1
        /\ UNCHANGED <<streams, removed, alone, errors, list, del, seen>>
        /\ \A p \in Request \ {q} : stage'[p] = stage[p] /\ at'[p] = at[p]
        /\ at[q] \in 1 .. Len(list[q])
    BY <1>2 DEF UpdateVideo, Goto, Unwritten, table, TypeInv, Types, Place
  <2>2. ASSUME NEW p \in Request \ {q} PROVE KeptOf(p)' /\ AloneOf(p)'
    BY <2>1, SetOthers DEF SetInv
  <2>3. KeptOf(q) /\ AloneOf(q) /\ del[q] = {}
    BY <2>1 DEF SetInv, KeptOf
  <2>4. Len(list[q]) \in Nat /\ at[q] \in Nat
    BY Lists, VideoAssumption DEF TypeInv, Types
  <2>5. \A i \in 1 .. Len(list[q]) : i < at[q] + 1 => i < at[q] \/ i = at[q]
    BY <2>4
  <2>6. at[q] + 1 # 0
    BY <2>4
  <2>7. KeptOf(q)'
    BY <2>1, <2>3, <2>5, <2>6 DEF KeptOf
  <2>8. IsSettings(q)
    BY <2>1, <2>4 DEF IsSettings
  <2>9. AloneOf(q)'
    BY <2>1, <2>3, <2>8 DEF AloneOf, Listed
  <2>10. QED
    BY <2>2, <2>7, <2>9 DEF SetInv
<1>3. QED
  BY <1>1, <1>2 DEF UpdateVideo

(* Its row is created, unless another did so.                              *)
LEMMA SetCreates ==
  ASSUME TypeInv, SetInv, NEW q \in Request, CreateVideo(q)
  PROVE  SetInv'
<1> DEFINE n == list[q][at[q]]
<1>1. /\ stage[q] = "create" /\ UNCHANGED <<list, del, seen>>
      /\ Len(list[q]) \in Nat /\ at[q] \in Nat /\ at[q] \in 1 .. Len(list[q])
      /\ IsSettings(q)
  BY Lists, VideoAssumption DEF CreateVideo, TypeInv, Types, Place, IsSettings
<1>2. KeptOf(q) /\ AloneOf(q) /\ del[q] = {} /\ n \in Listed(q)
  BY <1>1, ListedAt DEF SetInv, KeptOf
<1>3. CASE StatementFails(q) /\ UNCHANGED at
  BY <1>1, <1>3, SetFails
<1>4. CASE Taken(q, n) /\ UNCHANGED at
  <2>1. /\ stage'[q] = "failed" /\ n \in Names(streams)
        /\ UNCHANGED <<streams, removed, alone, errors>>
        /\ \A p \in Request \ {q} : stage'[p] = stage[p]
    BY <1>4 DEF Taken, Goto, Unwritten, table, TypeInv, Types
  <2>2. ASSUME NEW p \in Request \ {q} PROVE KeptOf(p)' /\ AloneOf(p)'
    BY <1>1, <1>4, <2>1, SetOthers DEF SetInv
  <2>3. KeptOf(q)'
    BY <1>1, <1>2, <1>4, <2>1 DEF KeptOf
  <2>4. ~(alone[q] /\ errors = 0)
    BY <1>1, <1>2, <2>1 DEF AloneOf
  <2>5. AloneOf(q)'
    BY <1>1, <1>2, <1>4, <2>1, <2>4 DEF AloneOf, Listed
  <2>6. QED
    BY <2>2, <2>3, <2>5 DEF SetInv
<1>5. CASE InsertRow(q, n) /\ Goto(q, "run") /\ at' = [at EXCEPT ![q] = @ + 1]
  <2> DEFINE new == [id |-> nextId, name |-> n]
  <2>1. Write(q, streams \cup {new})
    BY <1>5 DEF InsertRow
  <2>2. /\ streams' = streams \cup {new}
        /\ removed'[q] = removed[q] /\ alone'[q] = alone[q] /\ errors' = errors
    BY <2>1, OwnWrite
  <2>3. new.name = n
    OBVIOUS
  <2> HIDE DEF new
  <2>4. /\ stage'[q] = "run" /\ at'[q] = at[q] + 1
        /\ \A p \in Request \ {q} : stage'[p] = stage[p] /\ at'[p] = at[p]
    BY <1>5 DEF Goto, TypeInv, Types
  <2>5. ASSUME NEW p \in Request \ {q} PROVE KeptOf(p)' /\ AloneOf(p)'
    BY <1>1, <2>1, <2>2, <2>4, SetOthers DEF SetInv
  <2>6. Names(streams) \subseteq Names(streams') /\ n \in Names(streams')
    BY <2>2, <2>3 DEF Names
  <2>7. \A i \in 1 .. Len(list[q]) : i < at[q] + 1 => i < at[q] \/ i = at[q]
    BY <1>1
  <2>8. at[q] + 1 # 0
    BY <1>1
  <2>9. KeptOf(q)'
    BY <1>1, <1>2, <2>2, <2>4, <2>6, <2>7, <2>8 DEF KeptOf
  <2>10. AloneOf(q)'
    BY <1>1, <1>2, <2>2, <2>3, <2>4 DEF AloneOf, Listed
  <2>11. QED
    BY <2>5, <2>9, <2>10 DEF SetInv
<1>6. QED
  BY <1>3, <1>4, <1>5 DEF CreateVideo

(* It is done when it has come past the last.                              *)
LEMMA SetDone ==
  ASSUME TypeInv, SetInv, NEW q \in Request, SettingsDone(q)
  PROVE  SetInv'
<1>1. /\ UNCHANGED <<streams, removed, alone, errors, list, at, del, seen>>
      /\ stage[q] = "run" /\ stage'[q] = "ok" /\ del[q] = {} /\ at[q] > Len(list[q])
      /\ \A p \in Request \ {q} : stage'[p] = stage[p]
  BY DEF SettingsDone, Goto, table, settings, history, TypeInv, Types
<1>2. ASSUME NEW p \in Request \ {q} PROVE KeptOf(p)' /\ AloneOf(p)'
  BY <1>1, SetOthers DEF SetInv
<1>3. KeptOf(q) /\ AloneOf(q)
  BY DEF SetInv
<1>4. KeptOf(q)'
  BY <1>1, <1>3 DEF KeptOf, IsSettings
<1>5. AloneOf(q)'
  BY <1>1, <1>3 DEF AloneOf, IsSettings, Listed
<1>6. QED
  BY <1>2, <1>4, <1>5 DEF SetInv

(* Every step keeps what the settings have brought about.                  *)
LEMMA SetStep ==
  ASSUME TypeInv, SetInv, [Next]_vars
  PROVE  SetInv'
<1>1. ASSUME NEW q, StatementFails(q) PROVE Unwritten /\ (errors' = 0 => errors = 0) /\ Goto(q, "failed")
  BY <1>1 DEF StatementFails, TypeInv, Types
<1>2. ASSUME NEW q, NEW n, Taken(q, n) PROVE Unwritten /\ errors' = errors /\ Goto(q, "failed")
  BY <1>2 DEF Taken
<1>3. ASSUME NEW q, NEW rows, Write(q, rows) PROVE errors' = errors
  BY <1>3 DEF Write
<1>4. ASSUME NEW q \in Request, NEW n \in Name, AddVideos(q, n) PROVE SetInv'
  <2>1. /\ stage[q] = "new" /\ UNCHANGED settings /\ \E s : Goto(q, s)
        /\ errors' = 0 => errors = 0
        /\ (\E rows : Write(q, rows)) \/ Unwritten
    BY <1>1, <1>2, <1>3, <1>4 DEF AddVideos, InsertRow
  <2>2. QED
    BY <2>1, SetSingle
<1>5. ASSUME NEW q \in Request, NEW i \in Id, NEW n \in Name, PatchVideos(q, i, n) PROVE SetInv'
  <2>1. /\ stage[q] = "new" /\ UNCHANGED settings /\ \E s : Goto(q, s)
        /\ errors' = 0 => errors = 0
        /\ (\E rows : Write(q, rows)) \/ Unwritten
    BY <1>1, <1>2, <1>3, <1>5 DEF PatchVideos
  <2>2. QED
    BY <2>1, SetSingle
<1>6. ASSUME NEW q \in Request, NEW i, NEW n, DelVideos(q, i, n) PROVE SetInv'
  <2>1. /\ stage[q] = "new" /\ UNCHANGED settings /\ \E s : Goto(q, s)
        /\ errors' = 0 => errors = 0
        /\ (\E rows : Write(q, rows)) \/ Unwritten
    BY <1>1, <1>3, <1>6 DEF DelVideos, DeleteRows
  <2>2. QED
    BY <2>1, SetSingle
<1>7. CASE UNCHANGED vars
  BY <1>7 DEF vars, table, settings, history, SetInv, KeptOf, AloneOf, IsSettings, Listed
<1>8. QED
  BY <1>4, <1>5, <1>6, <1>7, SetBegins, SetDeletes, SetLookup, SetUpdates, SetCreates, SetDone
     DEF Next

-----------------------------------------------------------------------------
(* Theorems.                                                               *)

IInv == TypeInv /\ Read /\ Order /\ SetInv

(* The invariant holds of the table and the requests before any was made.  *)
LEMMA InitInv == Init => IInv
<1> SUFFICES ASSUME Init PROVE IInv
  OBVIOUS
<1>1. TableOK
  BY DEF Init
<1>2. <<>> \in BoundedSeq(Name, MaxList)
  <2>1. <<>> \in [1 .. 0 -> Name]
    OBVIOUS
  <2>2. QED
    BY <2>1, VideoAssumption DEF BoundedSeq, SeqOf
<1>3. Types
  BY <1>2, VideoAssumption DEF Init, Types, Stage
<1>4. Place /\ Read /\ Order
  BY DEF Init, Place, Read, Order, Writers, Overtaken, LookedLater, Looked, NotAllFail, IsSettings
<1>5. SetInv
  BY DEF Init, SetInv, KeptOf, AloneOf, IsSettings
<1>6. QED
  BY <1>1, <1>3, <1>4, <1>5 DEF IInv, TypeInv

(* The invariant is inductive.                                             *)
LEMMA Inductive == Spec => []IInv
<1>1. IInv /\ [Next]_vars => IInv'
  BY TypeStep, ReadStep, OrderStep, SetStep DEF IInv
<1>2. QED
  BY InitInv, <1>1, PTL DEF Spec

(* The types, the unique names and ids of the rows, and the ids given out. *)
THEOREM TypeCorrect == Spec => []TypeOK
<1>1. IInv => TypeOK
  BY DEF IInv, TypeInv, TypeOK, Types
<1>2. QED
  BY <1>1, Inductive, PTL

(* When a settings request has deleted what it had to, the rows it read    *)
(* and does not list are gone for ever, whatever the others did to them.   *)
THEOREM DeletesUnlisted == Spec => []UnlistedGone
<1>1. IInv => UnlistedGone
  BY DEF IInv, Read, UnlistedGone
<1>2. QED
  BY <1>1, Inductive, PTL

(* Of the settings requests that run into one another, however many there  *)
(* are, one goes on: a chain of requests that give up, each overtaken by   *)
(* the next, ends with one that does not.                                  *)
THEOREM OneGoesOn == Spec => []NotAllFail
<1>1. IInv => NotAllFail
  BY DEF IInv, Order
<1>2. QED
  BY <1>1, Inductive, PTL

(* What a settings request that succeeded lists is in the table or was     *)
(* taken out by another since; and one that is alone, while no statement   *)
(* fails, does succeed, leaves what it lists and nothing else, and keeps   *)
(* the rows, hence the ids, of what was there already.                     *)
THEOREM SettingsDoHold == Spec => []SettingsHold
<1>1. ASSUME IInv, NEW q \in Request, stage[q] = "ok"
      PROVE  Listed(q) \subseteq Names(streams) \cup removed[q]
  <2>1. KeptOf(q) /\ at[q] \in Nat /\ Len(list[q]) \in Nat
    BY <1>1, Lists, VideoAssumption DEF IInv, SetInv, TypeInv, Types
  <2>2. \A i \in 1 .. Len(list[q]) : i < at[q]
    <3>1. CASE IsSettings(q)
      BY <1>1, <2>1, <3>1 DEF KeptOf
    <3>2. CASE ~IsSettings(q)
      BY <2>1, <3>2 DEF KeptOf, IsSettings
    <3>3. QED
      BY <3>1, <3>2
  <2>3. QED
    BY <1>1, <2>1, <2>2 DEF KeptOf, Listed, ToSet
<1>2. ASSUME IInv, NEW q \in Request, IsSettings(q), alone[q], errors = 0
      PROVE  /\ stage[q] # "failed"
             /\ stage[q] = "ok" => /\ Names(streams) = Listed(q)
                                   /\ \A r \in seen[q] : r.name \in Listed(q) => r \in streams
  <2>1. AloneOf(q) /\ KeptOf(q)
    BY <1>2 DEF IInv, SetInv
  <2>2. stage[q] = "ok" => Names(streams) = Listed(q)
    BY <1>1, <1>2, <2>1 DEF AloneOf, KeptOf, Names
  <2>3. QED
    BY <1>2, <2>1, <2>2 DEF AloneOf
<1>3. IInv => SettingsHold
  BY <1>1, <1>2 DEF SettingsHold
<1>4. QED
  BY <1>3, Inductive, PTL

=============================================================================
