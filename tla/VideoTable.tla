----------------------------- MODULE VideoTable -----------------------------
(***************************************************************************)
(* The requests on the table of video streams (controller/videos.go).      *)
(* They run concurrently, without a transaction: MySQL executes one        *)
(* statement at a time, and keeps the names unique.  A settings request    *)
(* is a series of statements, each chosen from what an earlier one found.  *)
(*                                                                         *)
(* A row is its id and its name: the address and the position play no part *)
(* in what the requests do.  Names differ by more than the case of letters *)
(* (the table's collation ignores it, diffVideosList does not).            *)
(***************************************************************************)
EXTENDS Integers, Sequences, FiniteSets, SequencesExt, FiniteSetsExt

CONSTANTS
  Request,    \* the requests, each made at most once
  Name,       \* names of streams
  MaxList,    \* bound: streams in a list of settings
  MaxRow,     \* bound: rows that are ever made
  MaxErrors   \* bound: statements that fail for no reason of the table's

ASSUME VideoAssumption ==
  /\ MaxList \in Nat
  /\ MaxRow \in Nat
  /\ MaxErrors \in Nat

VARIABLES
  streams,    \* the rows of the table
  nextId,     \* auto_increment
  stage,      \* where each request is, or how it was answered
  list,       \* the names a settings request asks for
  at,         \* the one it has come to; 0 for the other requests
  del,        \* the ids it has still to delete
  seen,       \* history: the rows it was computed from
  removed,    \* history: the listed names others took from the table since
  alone,      \* history: whether no other request wrote since
  madeSince,  \* history: who put a name into the table since its last lookup
  errors      \* history: statements that failed for no reason of the table's

table == <<streams, nextId>>
settings == <<list, at, del, seen>>
history == <<removed, alone, madeSince, errors>>
vars == <<table, stage, settings, history>>

Id == 1 .. MaxRow
Row == [id : Id, name : Name]
Stage == {"new", "run", "update", "create", "ok", "failed"}

Ids(rows) == {r.id : r \in rows}
Names(rows) == {r.name : r \in rows}

RowsOK(rows) ==
  /\ rows \in SUBSET Row
  /\ \A r, s \in rows : r # s => r.id # s.id /\ r.name # s.name

TableOK == RowsOK(streams) /\ nextId \in 1 .. MaxRow + 1 /\ \A r \in streams : r.id < nextId

TypeOK ==
  /\ TableOK
  /\ stage \in [Request -> Stage]
  /\ list \in [Request -> BoundedSeq(Name, MaxList)]
  /\ at \in [Request -> 0 .. MaxList + 1]
  /\ del \in [Request -> SUBSET Id]
  /\ seen \in [Request -> SUBSET Row]
  /\ removed \in [Request -> SUBSET Name]
  /\ alone \in [Request -> BOOLEAN]
  /\ madeSince \in [Request -> SUBSET Request]
  /\ errors \in 0 .. MaxErrors

(* A table with some of the names, nothing deleted so far.                 *)
Init ==
  /\ TableOK /\ Ids(streams) = 1 .. nextId - 1
  /\ stage = [q \in Request |-> "new"]
  /\ list = [q \in Request |-> <<>>]
  /\ at = [q \in Request |-> 0]
  /\ del = [q \in Request |-> {}]
  /\ seen = [q \in Request |-> {}]
  /\ removed = [q \in Request |-> {}]
  /\ alone = [q \in Request |-> TRUE]
  /\ madeSince = [q \in Request |-> {}]
  /\ errors = 0

Goto(q, s) == stage' = [stage EXCEPT ![q] = s]

-----------------------------------------------------------------------------
(* Statements.  The history of the others is kept with them.               *)

IsSettings(q) == at[q] > 0
Listed(q) == ToSet(list[q])

(* The table becomes rows by a statement of q.                             *)
Write(q, rows) ==
  LET others == {p \in Request \ {q} : IsSettings(p)}
      gone == Names(streams) \ Names(rows)
      made == Names(rows) \ Names(streams)
  IN  /\ streams' = rows
      /\ removed' = [p \in Request |->
           IF p \in others THEN removed[p] \cup (gone \cap Listed(p)) ELSE removed[p]]
      /\ alone' = [p \in Request |-> alone[p] /\ (p \in others => rows = streams)]
      /\ madeSince' = [p \in Request |->
           IF p \in others /\ made # {} /\ stage[p] \in {"create", "failed"}
           THEN madeSince[p] \cup {q} ELSE madeSince[p]]
      /\ UNCHANGED errors

InsertRow(q, n) ==
  /\ n \notin Names(streams) /\ nextId <= MaxRow
  /\ Write(q, streams \cup {[id |-> nextId, name |-> n]})
  /\ nextId' = nextId + 1

DeleteRows(q, which) ==
  /\ Write(q, streams \ which)
  /\ UNCHANGED nextId

(* A statement that fails, because the name is taken or for other reasons. *)
Unwritten == UNCHANGED <<table, removed, alone, madeSince>>

(* It is answered as failed.                                               *)
Taken(q, n) == n \in Names(streams) /\ Goto(q, "failed") /\ Unwritten /\ UNCHANGED errors

StatementFails(q) == Goto(q, "failed") /\ Unwritten /\ errors < MaxErrors /\ errors' = errors + 1

-----------------------------------------------------------------------------
(* Requests of one statement.                                              *)

AddVideos(q, n) ==
  /\ stage[q] = "new"
  /\ \/ InsertRow(q, n) /\ Goto(q, "ok")
     \/ Taken(q, n)
     \/ StatementFails(q)
  /\ UNCHANGED settings

(* PatchVideos: nothing is changed, and that is not an error, if there is  *)
(* no such row, whoever has the name.                                      *)
PatchVideos(q, i, n) ==
  LET old == {r \in streams : r.id = i}
  IN  /\ stage[q] = "new"
      /\ \/ /\ old # {} => n \notin Names(streams \ old)
            /\ Write(q, (streams \ old) \cup {[r EXCEPT !.name = n] : r \in old})
            /\ Goto(q, "ok")
            /\ UNCHANGED nextId
         \/ old # {} /\ Taken(q, n) /\ n \notin Names(old)
         \/ StatementFails(q)
      /\ UNCHANGED settings

(* DelVideos: by id or by name.                                            *)
DelVideos(q, i, n) ==
  /\ stage[q] = "new"
  /\ \/ DeleteRows(q, {r \in streams : r.id = i \/ r.name = n}) /\ Goto(q, "ok")
     \/ StatementFails(q)
  /\ UNCHANGED settings

-----------------------------------------------------------------------------
(* SettingsVideos.                                                         *)

(* diffVideosList: the rows whose names are not listed.                    *)
SettingsVideos(q, names) ==
  /\ stage[q] = "new"
  /\ list' = [list EXCEPT ![q] = names]
  /\ at' = [at EXCEPT ![q] = 1]
  /\ \/ /\ Goto(q, "run")
        /\ seen' = [seen EXCEPT ![q] = streams]
        /\ del' = [del EXCEPT ![q] = Ids({r \in streams : r.name \notin ToSet(names)})]
        /\ UNCHANGED <<table, history>>
     \/ StatementFails(q) /\ UNCHANGED <<del, seen>>

(* They are deleted one by one, as they were read.                         *)
(* Mutant: by their names.                                                 *)
DeleteVideoByName(q) ==
  /\ stage[q] = "run" /\ del[q] # {}
  /\ LET i == Min(del[q])
         n == (CHOOSE r \in seen[q] : r.id = i).name
     IN  /\ DeleteRows(q, {r \in streams : r.name = n})
         /\ del' = [del EXCEPT ![q] = @ \ {i}]
  /\ UNCHANGED <<stage, list, at, seen>>

DeleteVideo(q) ==
  /\ stage[q] = "run" /\ del[q] # {}
  /\ \/ LET i == Min(del[q])
        IN  /\ DeleteRows(q, {r \in streams : r.id = i})
            /\ del' = [del EXCEPT ![q] = @ \ {i}]
            /\ UNCHANGED stage
     \/ StatementFails(q) /\ UNCHANGED del
  /\ UNCHANGED <<list, at, seen>>

(* Mutant: the row is created unless the table is empty.                   *)
LookupBlind(q) ==
  /\ stage[q] = "run" /\ del[q] = {} /\ at[q] <= Len(list[q])
  /\ Goto(q, IF streams = {} THEN "update" ELSE "create")
  /\ madeSince' = [madeSince EXCEPT ![q] = {}]
  /\ UNCHANGED <<table, settings, removed, alone, errors>>

(* Each listed name is looked up, and its row updated or created.  If the  *)
(* lookup fails the name counts as missing.                                *)
Lookup(q) ==
  /\ stage[q] = "run" /\ del[q] = {} /\ at[q] <= Len(list[q])
  /\ \/ /\ Goto(q, IF list[q][at[q]] \in Names(streams) THEN "update" ELSE "create")
        /\ UNCHANGED errors
     \/ Goto(q, "create") /\ errors < MaxErrors /\ errors' = errors + 1
  /\ madeSince' = [madeSince EXCEPT ![q] = {}]
  /\ UNCHANGED <<table, settings, removed, alone>>

(* The row may be gone by now: no row is updated, and that is not an error. *)
UpdateVideo(q) ==
  /\ stage[q] = "update"
  /\ \/ /\ Goto(q, "run")
        /\ at' = [at EXCEPT ![q] = @ + 1]
        /\ Unwritten /\ UNCHANGED errors
     \/ StatementFails(q) /\ UNCHANGED at
  /\ UNCHANGED <<list, del, seen>>

CreateVideo(q) ==
  /\ stage[q] = "create"
  /\ \/ /\ InsertRow(q, list[q][at[q]])
        /\ Goto(q, "run")
        /\ at' = [at EXCEPT ![q] = @ + 1]
     \/ Taken(q, list[q][at[q]]) /\ UNCHANGED at
     \/ StatementFails(q) /\ UNCHANGED at
  /\ UNCHANGED <<list, del, seen>>

(* Mutant: the last of the list is left out.                               *)
SettingsDoneEarly(q) ==
  /\ stage[q] = "run" /\ del[q] = {} /\ at[q] >= Len(list[q])
  /\ Goto(q, "ok")
  /\ UNCHANGED <<table, settings, history>>

SettingsDone(q) ==
  /\ stage[q] = "run" /\ del[q] = {} /\ at[q] > Len(list[q])
  /\ Goto(q, "ok")
  /\ UNCHANGED <<table, settings, history>>

-----------------------------------------------------------------------------

Next ==
  \E q \in Request :
    \/ \E n \in Name : AddVideos(q, n)
    \/ \E i \in Id, n \in Name : PatchVideos(q, i, n)
    \/ \E i \in Id \cup {0}, n \in Name \cup {""} : DelVideos(q, i, n)
    \/ \E names \in BoundedSeq(Name, MaxList) : SettingsVideos(q, names)
    \/ DeleteVideo(q)
    \/ Lookup(q)
    \/ UpdateVideo(q)
    \/ CreateVideo(q)
    \/ SettingsDone(q)

Spec == Init /\ [][Next]_vars

-----------------------------------------------------------------------------
(* Properties.                                                             *)

(* A settings request that gives up because a name is taken was overtaken  *)
(* by a request that put a name into the table after it had looked, and    *)
(* not all of those give up: of requests that run into one another one     *)
(* goes on, whatever they ask for.                                         *)
NotAllFail ==
  errors = 0 => \A q \in Request :
    (IsSettings(q) /\ stage[q] = "failed") =>
       \E p \in madeSince[q] : stage[p] # "failed"

(* The rows that were read and are not listed are gone when the others are *)
(* looked up, even if they were renamed meanwhile.                         *)
UnlistedGone ==
  \A q \in Request : (IsSettings(q) /\ stage[q] # "failed" /\ del[q] = {}) =>
    \A r \in seen[q] : r.name \notin Listed(q) => r.id \notin Ids(streams)

(* What a settings request answered with success lists is in the table,    *)
(* unless another took it out meanwhile: an update of a row that is gone   *)
(* counts as success.  Without another writer and failing statements it    *)
(* does succeed, whatever was in the table, leaves exactly what it lists,  *)
(* and keeps the ids.                                                      *)
SettingsHold ==
  \A q \in Request :
    /\ stage[q] = "ok" => Listed(q) \subseteq Names(streams) \cup removed[q]
    /\ (IsSettings(q) /\ alone[q] /\ errors = 0) =>
         /\ stage[q] # "failed"
         /\ stage[q] = "ok" => /\ Names(streams) = Listed(q)
                               /\ \A r \in seen[q] : r.name \in Listed(q) => r \in streams
=============================================================================
