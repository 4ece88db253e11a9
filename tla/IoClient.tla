------------------------------ MODULE IoClient ------------------------------
(***************************************************************************)
(* The client of the frames socket (client/src/my_socketio/io.ts): one     *)
(* WebSocket at a time, and a timer that replaces it when it has failed.   *)
(*                                                                         *)
(* retry is declared without a value: until the first connection is open   *)
(* ++retry is NaN, which no comparison holds of.                           *)
(***************************************************************************)
EXTENDS Integers

CONSTANTS
  Sockets,   \* the clients
  maxRetry   \* 5 in the worker

VARIABLES
  instance,  \* per client: its WebSocket, "none", "connecting" or "open"
  retry,     \* per client: NaN, or failures since a connection was open
  timer      \* per client: connect is due

ioVars == <<instance, retry, timer>>

NaN == -1

IoTypeOK ==
  /\ instance \in [Sockets -> {"none", "connecting", "open"}]
  /\ retry \in [Sockets -> {NaN} \cup Nat]
  /\ timer \in [Sockets -> BOOLEAN]

IoInit ==
  /\ instance = [s \in Sockets |-> "none"]
  /\ retry = [s \in Sockets |-> NaN]
  /\ timer = [s \in Sockets |-> FALSE]

Connect(s) ==
  /\ instance' = [instance EXCEPT ![s] = "connecting"]
  /\ timer' = [timer EXCEPT ![s] = FALSE]
  /\ UNCHANGED retry

OpenConnect(s) ==
  /\ instance[s] = "connecting"
  /\ instance' = [instance EXCEPT ![s] = "open"]
  /\ retry' = [retry EXCEPT ![s] = 0]
  /\ UNCHANGED timer

Retried(s) == IF retry[s] = NaN THEN NaN ELSE retry[s] + 1

(* Mutant: one attempt too few.                                            *)
RetriesOneLess(s) == Retried(s) # NaN /\ Retried(s) < maxRetry

Retries(s) == Retried(s) # NaN /\ Retried(s) <= maxRetry

(* errConnect, onerror and onclose: clear, then reconnect.  The events     *)
(* error and close of one failure do not both get there: onerror resumes   *)
(* at the microtask checkpoint before close is dispatched, and clear takes *)
(* its listener away.                                                      *)
Fails(s) ==
  /\ instance[s] # "none"
  /\ instance' = [instance EXCEPT ![s] = "none"]
  /\ retry' = [retry EXCEPT ![s] = Retried(s)]
  /\ timer' = [timer EXCEPT ![s] = Retries(s)]

(* The timer of reconnect.                                                 *)
Reconnect(s) == timer[s] /\ Connect(s)

(* The worker ends, and with it its sockets and timers; "terminate", which *)
(* would call disconnect, is posted just before and is not read any more.  *)
Gone(s) ==
  /\ instance' = [instance EXCEPT ![s] = "none"]
  /\ retry' = [retry EXCEPT ![s] = NaN]
  /\ timer' = [timer EXCEPT ![s] = FALSE]
=============================================================================
