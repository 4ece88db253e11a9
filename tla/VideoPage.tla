------------------------------ MODULE VideoPage -----------------------------
(***************************************************************************)
(* The life of the players of one <video> element                          *)
(* (client/src/components/Video/VideoForWS.vue and client/src/worker):     *)
(* a player is made by an idle callback, starts its worker when its media  *)
(* source opens, and is destroyed by the page, by its worker's message or  *)
(* by the watchdog of a video that stands still.                           *)
(*                                                                         *)
(* destroy is a chain of calls in one try: the first that throws ends it,  *)
(* and what comes after it is not released.                                *)
(***************************************************************************)
EXTENDS Integers

CONSTANTS
  Players,   \* the players the page makes; bound
  NoPlayer,
  MaxIdle,   \* bound: idle callbacks requested and not called yet
  MaxTime,   \* bound: positions of the video
  maxRetry   \* of the frames socket

ASSUME VideoPageAssumption ==
  /\ NoPlayer \notin Players
  /\ MaxIdle \in Nat \ {0} /\ MaxTime \in Nat \ {0} /\ maxRetry \in Nat

VARIABLES
  mounted,
  idle,          \* requestIdleCallback: how many are due
  videoStream,   \* the player the page knows
  lastTime,      \* of the watchdog
  src,           \* the <video>: whose object URL it has
  currentTime,   \* and its position
  made,          \* the players there have been
  media_source,  \* per player: "closed", "open", "ended" or "null"
  opening,       \* per player: sourceopen is due
  source_buffer, \* per player: there is one
  worker,        \* per player: "none", "running" or "null"
  clearing,      \* per player: the timer of its ClearManager runs
  queue,         \* per player: its queue is not null
  listening,     \* per player: auto_play is registered at document and window
  instance, retry, timer,  \* IoClient: the frames socket of each worker
  forgotten,     \* history: players whose place another one took undestroyed
  late,          \* history: players whose sourceopen came after destroy
  failures       \* history: per player, failures of its frames socket since
                 \* it was open

Io == INSTANCE IoClient WITH Sockets <- Players

pageVars   == <<mounted, idle, lastTime>>
videoVars  == <<src, currentTime>>
playerVars == <<media_source, opening, source_buffer, worker, clearing, queue,
                listening>>
ioVars     == <<instance, retry, timer, failures>>
historyVars == <<forgotten, late>>
vars == <<pageVars, videoStream, videoVars, made, playerVars, ioVars, historyVars>>

TypeOK ==
  /\ mounted \in BOOLEAN /\ idle \in 0 .. MaxIdle
  /\ videoStream \in Players \cup {NoPlayer}
  /\ src \in Players \cup {NoPlayer}
  /\ lastTime \in 0 .. MaxTime /\ currentTime \in 0 .. MaxTime
  /\ made \in SUBSET Players
  /\ media_source \in [Players -> {"closed", "open", "ended", "null"}]
  /\ opening \in [Players -> BOOLEAN]
  /\ source_buffer \in [Players -> BOOLEAN]
  /\ worker \in [Players -> {"none", "running", "null"}]
  /\ clearing \in [Players -> BOOLEAN]
  /\ queue \in [Players -> BOOLEAN]
  /\ listening \in [Players -> BOOLEAN]
  /\ Io!IoTypeOK
  /\ forgotten \in SUBSET Players /\ late \in SUBSET Players
  /\ failures \in [Players -> Nat]

(* onMounted: the first player is requested, the watchdog is set.          *)
Init ==
  /\ mounted = TRUE /\ idle = 1 /\ lastTime = 0
  /\ videoStream = NoPlayer /\ src = NoPlayer /\ currentTime = 0
  /\ made = {}
  /\ media_source = [p \in Players |-> "closed"]
  /\ opening = [p \in Players |-> FALSE]
  /\ source_buffer = [p \in Players |-> FALSE]
  /\ worker = [p \in Players |-> "none"]
  /\ clearing = [p \in Players |-> FALSE]
  /\ queue = [p \in Players |-> TRUE]
  /\ listening = [p \in Players |-> FALSE]
  /\ Io!IoInit
  /\ forgotten = {} /\ late = {}
  /\ failures = [p \in Players |-> 0]

Destroyed(p) == ~queue[p]

-----------------------------------------------------------------------------
(* The <video>: another src, or none, takes the media source away from it  *)
(* and starts it anew.                                                     *)

Source(p) ==
  /\ src' = p
  /\ currentTime' = 0

Detached(m) ==
  [p \in Players |-> IF p = src /\ m[p] # "null" THEN "closed" ELSE m[p]]

(* The load of the URL: the media source opens, and the event is due.      *)
Attach(p) ==
  /\ src = p /\ media_source[p] = "closed"
  /\ media_source' = [media_source EXCEPT ![p] = "open"]
  /\ opening' = [opening EXCEPT ![p] = TRUE]
  /\ UNCHANGED <<pageVars, videoStream, videoVars, made, source_buffer, worker,
                 clearing, queue, listening, ioVars, historyVars>>

(* The video goes on while there is something in the source buffer of the  *)
(* player it shows.  The frames of every worker whose player still has the *)
(* element may make it seek, those of a forgotten one, too.                *)
Seeks == \E p \in Players : worker[p] = "running" /\ media_source[p] # "null"

Play ==
  /\ src # NoPlayer /\ source_buffer[src]
  /\ \E now \in 0 .. MaxTime :
       /\ Seeks \/ now > currentTime
       /\ currentTime' = now
  /\ UNCHANGED <<pageVars, videoStream, src, made, playerVars, ioVars, historyVars>>

-----------------------------------------------------------------------------
(* destroy of a player, with all it changes.                               *)

(* Mutant: the video before the worker and the timer, in the same try.     *)
WorkerEndsLast(p) ==
  IF source_buffer[p] \/ media_source[p] = "null"
  THEN UNCHANGED <<worker, clearing, ioVars>>
  ELSE /\ worker' = [worker EXCEPT ![p] = IF @ = "running" THEN "null" ELSE @]
       /\ clearing' = [clearing EXCEPT ![p] = FALSE]
       /\ Io!Gone(p) /\ failures' = [failures EXCEPT ![p] = 0]

(* The worker is terminated and the ClearManager's timer cleared, if there *)
(* are any.                                                                *)
WorkerEnds(p) ==
  /\ worker' = [worker EXCEPT ![p] = IF @ = "running" THEN "null" ELSE @]
  /\ clearing' = [clearing EXCEPT ![p] = FALSE]
  /\ Io!Gone(p) /\ failures' = [failures EXCEPT ![p] = 0]

(* Mutant: the <video> is blanked before the stream is taken from it.      *)
VideoThrowsBlank(p) ==
  /\ source_buffer[p] \/ media_source[p] = "null"
  /\ Source(NoPlayer)
  /\ media_source' = Detached(media_source)
  /\ UNCHANGED listening

(* VideoManager.destroy.  With a source buffer it throws: endOfStream      *)
(* while an append is in progress, or else abort on a media source that is *)
(* not open any more.  Without media source it throws, too.                *)
VideoThrows(p) ==
  /\ source_buffer[p] \/ media_source[p] = "null"
  /\ \/ UNCHANGED media_source
     \/ /\ media_source[p] = "open"
        /\ media_source' = [media_source EXCEPT ![p] = "ended"]
  /\ UNCHANGED <<videoVars, listening>>

(* Mutant: the listeners at document and window are forgotten.             *)
VideoEndsListening(p) ==
  /\ ~source_buffer[p] /\ media_source[p] # "null"
  /\ Source(NoPlayer)
  /\ media_source' = [Detached(media_source) EXCEPT ![p] = "null"]
  /\ UNCHANGED listening

(* Otherwise it blanks the <video>, whoever's URL that has.                *)
VideoEnds(p) ==
  /\ ~source_buffer[p] /\ media_source[p] # "null"
  /\ Source(NoPlayer)
  /\ media_source' = [Detached(media_source) EXCEPT ![p] = "null"]
  /\ listening' = [listening EXCEPT ![p] = FALSE]

(* A second destroy throws at once: the instance of the worker is null.    *)
Destroy(p) ==
  IF worker[p] = "null"
  THEN UNCHANGED <<videoVars, playerVars, ioVars>>
  ELSE /\ WorkerEnds(p)
       /\ queue' = [queue EXCEPT ![p] = FALSE]
       /\ VideoThrows(p) \/ VideoEnds(p)
       /\ UNCHANGED <<opening, source_buffer>>

(* destroy of the page.                                                    *)
DestroyStream ==
  /\ IF videoStream = NoPlayer THEN UNCHANGED <<videoVars, playerVars, ioVars>>
                               ELSE Destroy(videoStream)
  /\ videoStream' = NoPlayer

-----------------------------------------------------------------------------
(* The page.                                                               *)

(* refresh: by the user, or by the watchdog.                               *)
Refresh ==
  /\ mounted /\ idle < MaxIdle
  /\ DestroyStream
  /\ idle' = idle + 1
  /\ UNCHANGED <<mounted, lastTime, made, historyVars>>

(* Mutant: the watchdog does not note where the video is.                  *)
WatchdogUnnoted ==
  currentTime = lastTime /\ Refresh

Watchdog ==
  \/ currentTime = lastTime /\ Refresh
  \/ /\ mounted /\ currentTime # lastTime
     /\ lastTime' = currentTime
     /\ UNCHANGED <<mounted, idle, videoStream, videoVars, made, playerVars, ioVars,
                    historyVars>>

Unmount ==
  /\ mounted /\ mounted' = FALSE
  /\ DestroyStream
  /\ UNCHANGED <<idle, lastTime, made, historyVars>>

(* The constructor: the URL is given to the <video>, and the player takes  *)
(* the place of the one the page knows, if another idle callback made one  *)
(* since the refresh.                                                      *)
Made(p) ==
  /\ made' = made \cup {p}
  /\ Source(p)
  /\ media_source' = Detached(media_source)
  /\ listening' = [listening EXCEPT ![p] = TRUE]
  /\ videoStream' = p
  /\ forgotten' = forgotten \cup ({videoStream} \ {NoPlayer})
  /\ UNCHANGED <<opening, source_buffer, worker, clearing, queue, ioVars, late>>

IdleCallback ==
  /\ idle > 0 /\ idle' = idle - 1
  /\ IF mounted
     THEN Players # made /\ Made(CHOOSE p \in Players \ made : TRUE)
     ELSE UNCHANGED <<videoStream, videoVars, made, playerVars, ioVars, historyVars>>
  /\ UNCHANGED <<mounted, lastTime>>

-----------------------------------------------------------------------------
(* The events of a player.                                                 *)

(* sourceopen, also when destroy came first: the worker and its sockets    *)
(* start, and so does the ClearManager.                                    *)
SourceOpen(p) ==
  /\ opening[p] /\ opening' = [opening EXCEPT ![p] = FALSE]
  /\ worker' = [worker EXCEPT ![p] = "running"]
  /\ clearing' = [clearing EXCEPT ![p] = TRUE]
  /\ Io!Connect(p) /\ UNCHANGED failures
  /\ late' = IF Destroyed(p) THEN late \cup {p} ELSE late
  /\ UNCHANGED <<pageVars, videoStream, videoVars, made, media_source, source_buffer,
                 queue, listening, forgotten>>

(* The message "sdp": addSourceBuffer throws unless the source is open.    *)
Sdp(p) ==
  /\ worker[p] = "running" /\ media_source[p] = "open" /\ ~source_buffer[p]
  /\ source_buffer' = [source_buffer EXCEPT ![p] = TRUE]
  /\ UNCHANGED <<pageVars, videoStream, videoVars, made, media_source, opening, worker,
                 clearing, queue, listening, ioVars, historyVars>>

(* The message "error" or "close" of the stream's socket.                  *)
StreamEnds(p) ==
  /\ worker[p] = "running"
  /\ Destroy(p)
  /\ UNCHANGED <<pageVars, videoStream, made, historyVars>>

(* The frames socket.                                                      *)
IoOpens(p) ==
  /\ worker[p] = "running" /\ Io!OpenConnect(p)
  /\ failures' = [failures EXCEPT ![p] = 0]

IoFails(p) ==
  /\ worker[p] = "running" /\ Io!Fails(p)
  /\ failures' = [failures EXCEPT ![p] = @ + 1]

IoReconnects(p) ==
  /\ worker[p] = "running" /\ Io!Reconnect(p)
  /\ UNCHANGED failures

FramesSocket(p) ==
  /\ IoOpens(p) \/ IoFails(p) \/ IoReconnects(p)
  /\ UNCHANGED <<pageVars, videoStream, videoVars, made, playerVars, historyVars>>

-----------------------------------------------------------------------------

PlayerNext(p) ==
  \/ Attach(p) \/ SourceOpen(p) \/ Sdp(p) \/ StreamEnds(p)
  \/ FramesSocket(p)

Next ==
  \/ Refresh \/ Watchdog \/ Unmount \/ IdleCallback \/ Play
  \/ \E p \in Players : PlayerNext(p)

Spec == Init /\ [][Next]_vars

(* The interval fires and idle callbacks are called.  Nothing is assumed   *)
(* of the server, the sockets or the user.                                 *)
Fairness == WF_vars(Watchdog) /\ WF_vars(IdleCallback)

FairSpec == Spec /\ Fairness

-----------------------------------------------------------------------------
(* Properties.                                                             *)

(* A worker, with its sockets, or a ClearManager's timer that runs belongs *)
(* to the player the page knows, to one whose place a second idle callback *)
(* took, or to one whose sourceopen came after destroy: there is no other  *)
(* way to lose one.                                                        *)
OwnedOrLost ==
  \A p \in Players :
    worker[p] = "running" \/ clearing[p] =>
      p = videoStream \/ p \in forgotten \/ p \in late

(* destroy gives up the media source and the listeners at document and     *)
(* window exactly if there was no source buffer yet: with one it throws    *)
(* before it gets there, however it came about.                            *)
ReleasedUnlessBuffered ==
  \A p \in made : Destroyed(p) =>
    /\ listening[p] <=> source_buffer[p]
    /\ media_source[p] = "null" <=> ~source_buffer[p]

(* The player the page shows has the <video>, until it is destroyed itself *)
(* or a forgotten one is, which blanks the element it does not own any     *)
(* more.                                                                   *)
ElementKept ==
  videoStream \in Players /\ ~Destroyed(videoStream) /\ src # videoStream =>
    \E p \in forgotten : Destroyed(p) /\ ~source_buffer[p]

(* Frames stop coming to a player that plays only if its socket never was  *)
(* open, or failed more often in a row than it may try again.              *)
GivesUpLate ==
  \A p \in Players :
    worker[p] = "running" /\ instance[p] = "none" /\ ~timer[p] =>
      retry[p] = Io!NaN \/ failures[p] = maxRetry + 1

(* A player whose stream has ended does not stay on the page, although     *)
(* nothing tells the page: the video comes to a stop, and the watchdog     *)
(* makes another (while there is one to make, and unless a lost worker's   *)
(* frames keep the video moving).                                          *)
StalledReplaced ==
  \A p \in Players :
    (videoStream = p /\ Destroyed(p)) ~> (videoStream # p \/ Players = made \/ Seeks)
=============================================================================
