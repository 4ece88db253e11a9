-------------------------- MODULE VideoPage_proofs --------------------------
(***************************************************************************)
(* The players of a page, for any number of players and retries.  The      *)
(* inductive invariant follows a player from its construction on: until    *)
(* destroy it is the page's or forgotten and has its listeners; destroyed, *)
(* it has given up its media source or is stuck with its source buffer;    *)
(* and its media source opens once.                                        *)
(***************************************************************************)
EXTENDS VideoPage, TLAPS

MadeInv ==
  /\ videoStream \in made \cup {NoPlayer}
  /\ src \in made \cup {NoPlayer}
  /\ forgotten \subseteq made
  /\ \A p \in Players : p \notin made =>
       /\ worker[p] = "none" /\ ~opening[p] /\ ~clearing[p] /\ queue[p]
       /\ ~source_buffer[p] /\ ~listening[p] /\ media_source[p] = "closed"

OwnInv ==
  \A p \in Players :
    /\ p \in made /\ queue[p] => p = videoStream \/ p \in forgotten
    /\ worker[p] = "null" => ~queue[p] /\ ~clearing[p]
    /\ p \in late => ~queue[p]
    /\ worker[p] = "running" \/ clearing[p] =>
         p = videoStream \/ p \in forgotten \/ p \in late

ReleaseInv ==
  \A p \in made :
    /\ queue[p] => listening[p] /\ media_source[p] # "null"
    /\ ~queue[p] => /\ listening[p] <=> source_buffer[p]
                    /\ media_source[p] = "null" <=> ~source_buffer[p]

OpenInv ==
  \A p \in Players :
    /\ opening[p] => worker[p] = "none"
    /\ src = p /\ media_source[p] = "closed" => worker[p] = "none" /\ ~opening[p]

RetryInv ==
  \A p \in Players :
    /\ worker[p] # "running" =>
         retry[p] = -1 /\ instance[p] = "none" /\ ~timer[p]
    /\ retry[p] # -1 => failures[p] = retry[p]
    /\ instance[p] # "none" \/ timer[p] => retry[p] <= maxRetry
    /\ worker[p] = "running" /\ instance[p] = "none" /\ ~timer[p] =>
         retry[p] = -1 \/ failures[p] = maxRetry + 1

IInv ==
  /\ TypeOK /\ MadeInv /\ OwnInv /\ ReleaseInv /\ OpenInv /\ ElementKept /\ RetryInv

USE VideoPageAssumption
    DEF pageVars, videoVars, playerVars, ioVars, historyVars, Destroyed

(* A page that is mounted has no player yet.                               *)
LEMMA Start == Init => IInv
<1> SUFFICES ASSUME Init PROVE IInv
  OBVIOUS
<1>1. TypeOK
  BY DEF Init, TypeOK, Io!IoInit, Io!IoTypeOK, Io!NaN
<1>2. MadeInv /\ OwnInv /\ ReleaseInv
  BY DEF Init, MadeInv, OwnInv, ReleaseInv
<1>3. OpenInv /\ ElementKept
  BY DEF Init, OpenInv, ElementKept
<1>4. RetryInv
  BY DEF Init, RetryInv, Io!IoInit, Io!NaN
<1> QED
  BY <1>1, <1>2, <1>3, <1>4 DEF IInv

(* Steps that change the page, the time of the video or nothing.           *)
LEMMA PageStep ==
  ASSUME IInv, mounted' \in BOOLEAN, idle' \in 0 .. MaxIdle,
         lastTime' \in 0 .. MaxTime, currentTime' \in 0 .. MaxTime,
         UNCHANGED <<videoStream, src, made, playerVars, ioVars, historyVars>>
  PROVE  IInv'
<1>1. TypeOK'
  BY DEF IInv, TypeOK, Io!IoTypeOK
<1>2. MadeInv' /\ OwnInv' /\ ReleaseInv'
  BY DEF IInv, MadeInv, OwnInv, ReleaseInv
<1>3. OpenInv' /\ ElementKept' /\ RetryInv'
  BY DEF IInv, OpenInv, ElementKept, RetryInv
<1> QED
  BY <1>1, <1>2, <1>3 DEF IInv

-----------------------------------------------------------------------------
(* Destroy.                                                                *)

(* What a destroy that gets past its first call does to the player.        *)
LEMMA DestroyEffect ==
  ASSUME IInv, NEW p \in made, worker[p] # "null", Destroy(p)
  PROVE  /\ queue' = [queue EXCEPT ![p] = FALSE]
         /\ clearing' = [clearing EXCEPT ![p] = FALSE]
         /\ worker' = [worker EXCEPT ![p] = IF @ = "running" THEN "null" ELSE @]
         /\ UNCHANGED <<opening, source_buffer>>
         /\ instance' = [instance EXCEPT ![p] = "none"]
         /\ retry' = [retry EXCEPT ![p] = -1]
         /\ timer' = [timer EXCEPT ![p] = FALSE]
         /\ failures' = [failures EXCEPT ![p] = 0]
         /\ \/ /\ source_buffer[p] \/ media_source[p] = "null"
               /\ UNCHANGED <<src, currentTime, listening>>
               /\ \/ UNCHANGED media_source
                  \/ /\ media_source[p] = "open"
                     /\ media_source' = [media_source EXCEPT ![p] = "ended"]
            \/ /\ ~source_buffer[p] /\ media_source[p] # "null"
               /\ src' = NoPlayer /\ currentTime' = 0
               /\ listening' = [listening EXCEPT ![p] = FALSE]
               /\ media_source' =
                    [q \in Players |-> IF q = p THEN "null"
                                       ELSE IF q = src /\ media_source[q] # "null"
                                            THEN "closed" ELSE media_source[q]]
<1>1. /\ WorkerEnds(p)
      /\ queue' = [queue EXCEPT ![p] = FALSE]
      /\ VideoThrows(p) \/ VideoEnds(p)
      /\ UNCHANGED <<opening, source_buffer>>
  BY DEF Destroy
<1>2. /\ clearing' = [clearing EXCEPT ![p] = FALSE]
      /\ worker' = [worker EXCEPT ![p] = IF @ = "running" THEN "null" ELSE @]
      /\ instance' = [instance EXCEPT ![p] = "none"]
      /\ retry' = [retry EXCEPT ![p] = -1]
      /\ timer' = [timer EXCEPT ![p] = FALSE]
      /\ failures' = [failures EXCEPT ![p] = 0]
  BY <1>1 DEF WorkerEnds, Io!Gone, Io!NaN
<1>3. CASE VideoThrows(p)
  BY <1>1, <1>2, <1>3 DEF VideoThrows
<1>4. CASE VideoEnds(p)
  <2>1. /\ ~source_buffer[p] /\ media_source[p] # "null"
        /\ src' = NoPlayer /\ currentTime' = 0
        /\ listening' = [listening EXCEPT ![p] = FALSE]
        /\ media_source' = [Detached(media_source) EXCEPT ![p] = "null"]
    BY <1>4 DEF VideoEnds, Source
  <2>2. media_source' =
          [q \in Players |-> IF q = p THEN "null"
                             ELSE IF q = src /\ media_source[q] # "null"
                                  THEN "closed" ELSE media_source[q]]
    BY <2>1 DEF Detached
  <2> QED
    BY <1>1, <1>2, <2>1, <2>2
<1> QED
  BY <1>1, <1>3, <1>4

(* Destroy by the page, which then knows no player, or by a message of the *)
(* worker, which changes nothing else.                                     *)
LEMMA DestroyStep ==
  ASSUME IInv, NEW p \in made, Destroy(p), worker[p] # "null",
         mounted' \in BOOLEAN, idle' \in 0 .. MaxIdle,
         UNCHANGED <<lastTime, made, historyVars>>,
         \/ p = videoStream /\ videoStream' = NoPlayer
         \/ worker[p] = "running" /\ UNCHANGED videoStream
  PROVE  IInv'
<1>0. p \in Players
  BY DEF IInv, TypeOK
<1>1. TypeOK'
  <2>1. /\ src' \in Players \cup {NoPlayer} /\ currentTime' \in 0 .. MaxTime
        /\ videoStream' \in Players \cup {NoPlayer}
    BY DestroyEffect DEF IInv, TypeOK
  <2>2. media_source' \in [Players -> {"closed", "open", "ended", "null"}]
    <3>1. CASE UNCHANGED media_source \/ media_source' = [media_source EXCEPT ![p] = "ended"]
      BY <3>1 DEF IInv, TypeOK
    <3>2. CASE media_source' =
                 [q \in Players |-> IF q = p THEN "null"
                                    ELSE IF q = src /\ media_source[q] # "null"
                                         THEN "closed" ELSE media_source[q]]
      BY <3>2 DEF IInv, TypeOK
    <3> QED
      BY <3>1, <3>2, DestroyEffect
  <2>3. /\ worker' \in [Players -> {"none", "running", "null"}]
        /\ clearing' \in [Players -> BOOLEAN] /\ queue' \in [Players -> BOOLEAN]
        /\ opening' \in [Players -> BOOLEAN] /\ source_buffer' \in [Players -> BOOLEAN]
        /\ listening' \in [Players -> BOOLEAN]
    <3>1. /\ worker \in [Players -> {"none", "running", "null"}]
          /\ clearing \in [Players -> BOOLEAN] /\ queue \in [Players -> BOOLEAN]
          /\ opening \in [Players -> BOOLEAN] /\ source_buffer \in [Players -> BOOLEAN]
          /\ listening \in [Players -> BOOLEAN]
      BY DEF IInv, TypeOK
    <3>2. /\ worker' = [worker EXCEPT ![p] = IF @ = "running" THEN "null" ELSE @]
          /\ clearing' = [clearing EXCEPT ![p] = FALSE]
          /\ queue' = [queue EXCEPT ![p] = FALSE]
          /\ UNCHANGED <<opening, source_buffer>>
      BY DestroyEffect
    <3>3. listening' = listening \/ listening' = [listening EXCEPT ![p] = FALSE]
      BY DestroyEffect
    <3> QED
      BY <3>1, <3>2, <3>3
  <2>4. Io!IoTypeOK' /\ failures' \in [Players -> Nat]
    <3>1. /\ instance' = [instance EXCEPT ![p] = "none"]
          /\ retry' = [retry EXCEPT ![p] = -1]
          /\ timer' = [timer EXCEPT ![p] = FALSE]
          /\ failures' = [failures EXCEPT ![p] = 0]
      BY DestroyEffect
    <3> QED
      BY <3>1 DEF IInv, TypeOK, Io!IoTypeOK, Io!NaN
  <2> QED
    BY <2>1, <2>2, <2>3, <2>4 DEF IInv, TypeOK
<1>2. MadeInv'
  BY <1>0, DestroyEffect DEF IInv, TypeOK, MadeInv
<1>3. OwnInv'
  BY <1>0, DestroyEffect DEF IInv, TypeOK, OwnInv, MadeInv
<1>4. ReleaseInv'
  BY <1>0, DestroyEffect DEF IInv, TypeOK, ReleaseInv
<1>5. OpenInv'
  BY <1>0, DestroyEffect DEF IInv, TypeOK, OpenInv, MadeInv
<1>6. ElementKept'
  BY <1>0, DestroyEffect DEF IInv, TypeOK, ElementKept, MadeInv, OwnInv, ReleaseInv
<1>7. RetryInv'
  BY <1>0, DestroyEffect DEF IInv, TypeOK, RetryInv, Io!IoTypeOK
<1> QED
  BY <1>1, <1>2, <1>3, <1>4, <1>5, <1>6, <1>7 DEF IInv

(* The page destroys the player it knows, if any; a player without worker  *)
(* that was destroyed before cannot lose more.                             *)
LEMMA DestroyStreamStep ==
  ASSUME IInv, DestroyStream, mounted' \in BOOLEAN, idle' \in 0 .. MaxIdle,
         UNCHANGED <<lastTime, made, historyVars>>
  PROVE  IInv'
<1>1. CASE videoStream = NoPlayer
  BY <1>1, PageStep DEF DestroyStream, IInv, TypeOK
<1>2. CASE videoStream # NoPlayer /\ worker[videoStream] # "null"
  BY <1>2, DestroyStep DEF DestroyStream, IInv, MadeInv
<1>3. CASE videoStream # NoPlayer /\ worker[videoStream] = "null"
  <2>1. /\ videoStream' = NoPlayer
        /\ UNCHANGED <<videoVars, playerVars, ioVars, made, lastTime, historyVars>>
    BY <1>3 DEF DestroyStream, Destroy
  <2>2. TypeOK'
    BY <2>1 DEF IInv, TypeOK, Io!IoTypeOK
  <2>3. videoStream \in made /\ ~queue[videoStream] /\ ~clearing[videoStream]
    BY <1>3 DEF IInv, TypeOK, MadeInv, OwnInv
  <2>4. MadeInv' /\ ReleaseInv'
    BY <2>1 DEF IInv, MadeInv, ReleaseInv
  <2>5. OwnInv'
    BY <1>3, <2>1, <2>3 DEF IInv, OwnInv
  <2>6. OpenInv' /\ ElementKept' /\ RetryInv'
    BY <2>1 DEF IInv, OpenInv, ElementKept, RetryInv
  <2> QED
    BY <2>2, <2>4, <2>5, <2>6 DEF IInv
<1> QED
  BY <1>1, <1>2, <1>3

(* Destroying the player and asking for another idle callback.             *)
LEMMA RefreshStep == IInv /\ Refresh => IInv'
<1> SUFFICES ASSUME IInv, Refresh PROVE IInv'
  OBVIOUS
<1>1. /\ DestroyStream /\ mounted' = mounted
      /\ idle' = idle + 1 /\ idle < MaxIdle
      /\ UNCHANGED <<lastTime, made, historyVars>>
  BY DEF Refresh
<1>2. mounted' \in BOOLEAN /\ idle' \in 0 .. MaxIdle
  BY <1>1 DEF IInv, TypeOK
<1> QED
  BY <1>1, <1>2, DestroyStreamStep

(* The watchdog refreshes or notes the time.                               *)
LEMMA WatchdogStep == IInv /\ Watchdog => IInv'
<1> SUFFICES ASSUME IInv, Watchdog PROVE IInv'
  OBVIOUS
<1>1. CASE Refresh
  BY <1>1, RefreshStep
<1>2. CASE /\ lastTime' = currentTime
           /\ UNCHANGED <<mounted, idle, videoStream, videoVars, made, playerVars,
                          ioVars, historyVars>>
  BY <1>2, PageStep DEF IInv, TypeOK
<1> QED
  BY <1>1, <1>2 DEF Watchdog

(* Leaving the page destroys its player only.                              *)
LEMMA UnmountStep == IInv /\ Unmount => IInv'
BY DestroyStreamStep DEF Unmount, IInv, TypeOK

(* Playing moves the time.                                                 *)
LEMMA PlayStep == IInv /\ Play => IInv'
BY PageStep DEF Play, IInv, TypeOK

-----------------------------------------------------------------------------
(* The events of a player.                                                 *)

(* A new player has the element and is the one the page knows; the one it  *)
(* took the place of is forgotten.                                         *)
LEMMA MadeStep ==
  ASSUME IInv, NEW p \in Players, p \notin made, Made(p),
         idle' \in 0 .. MaxIdle, UNCHANGED <<mounted, lastTime>>
  PROVE  IInv'
<1>1. /\ made' = made \cup {p} /\ src' = p /\ currentTime' = 0
      /\ listening' = [listening EXCEPT ![p] = TRUE]
      /\ videoStream' = p
      /\ forgotten' = forgotten \cup ({videoStream} \ {NoPlayer})
      /\ UNCHANGED <<opening, source_buffer, worker, clearing, queue, ioVars, late>>
  BY DEF Made, Source
<1>2. media_source' = [q \in Players |-> IF q = src /\ media_source[q] # "null"
                                         THEN "closed" ELSE media_source[q]]
  BY DEF Made, Detached
<1>3. TypeOK'
  <2>1. media_source' \in [Players -> {"closed", "open", "ended", "null"}]
    BY <1>2 DEF IInv, TypeOK
  <2>2. listening' \in [Players -> BOOLEAN] /\ made' \in SUBSET Players
        /\ forgotten' \in SUBSET Players
    BY <1>1 DEF IInv, TypeOK
  <2> QED
    BY <1>1, <2>1, <2>2 DEF IInv, TypeOK, Io!IoTypeOK
<1>4. MadeInv'
  BY <1>1, <1>2 DEF IInv, TypeOK, MadeInv
<1>5. OwnInv'
  BY <1>1 DEF IInv, TypeOK, OwnInv, MadeInv
<1>6. ReleaseInv'
  BY <1>1, <1>2 DEF IInv, TypeOK, ReleaseInv, MadeInv
<1>7. OpenInv'
  BY <1>1, <1>2 DEF IInv, TypeOK, OpenInv, MadeInv
<1>8. ElementKept' /\ RetryInv'
  BY <1>1 DEF IInv, ElementKept, RetryInv
<1> QED
  BY <1>3, <1>4, <1>5, <1>6, <1>7, <1>8 DEF IInv

(* A callback makes a player, or nothing when the page was left.           *)
LEMMA IdleCallbackStep == IInv /\ IdleCallback => IInv'
<1> SUFFICES ASSUME IInv, IdleCallback PROVE IInv'
  OBVIOUS
<1>1. idle' \in 0 .. MaxIdle /\ UNCHANGED <<mounted, lastTime>>
  BY DEF IInv, TypeOK, IdleCallback
<1>2. CASE mounted
  <2> DEFINE p == CHOOSE q \in Players \ made : TRUE
  <2>1. Players # made /\ Made(p)
    BY <1>2 DEF IdleCallback
  <2>2. p \in Players \ made
    BY <2>1 DEF IInv, TypeOK
  <2> HIDE DEF p
  <2> QED
    BY <1>1, <2>1, <2>2, MadeStep
<1>3. CASE ~mounted
  BY <1>1, <1>3, PageStep DEF IdleCallback, IInv, TypeOK
<1> QED
  BY <1>2, <1>3

(* The media source that opens is the element's, and opens once.           *)
LEMMA AttachStep ==
  ASSUME IInv, NEW p \in Players, Attach(p)
  PROVE  IInv'
<1>1. /\ src = p /\ media_source[p] = "closed"
      /\ media_source' = [media_source EXCEPT ![p] = "open"]
      /\ opening' = [opening EXCEPT ![p] = TRUE]
      /\ UNCHANGED <<pageVars, videoStream, videoVars, made, source_buffer, worker,
                     clearing, queue, listening, ioVars, historyVars>>
  BY DEF Attach
<1>2. p \in made
  BY <1>1 DEF IInv, MadeInv
<1>3. TypeOK'
  BY <1>1 DEF IInv, TypeOK, Io!IoTypeOK
<1>4. MadeInv' /\ OwnInv' /\ ReleaseInv'
  BY <1>1, <1>2 DEF IInv, TypeOK, MadeInv, OwnInv, ReleaseInv
<1>5. OpenInv' /\ ElementKept' /\ RetryInv'
  BY <1>1 DEF IInv, TypeOK, OpenInv, ElementKept, RetryInv
<1> QED
  BY <1>3, <1>4, <1>5 DEF IInv

(* Whoever's worker starts is the page's player, a forgotten one or late.  *)
LEMMA SourceOpenStep ==
  ASSUME IInv, NEW p \in Players, SourceOpen(p)
  PROVE  IInv'
<1>1. /\ opening[p] /\ opening' = [opening EXCEPT ![p] = FALSE]
      /\ worker' = [worker EXCEPT ![p] = "running"]
      /\ clearing' = [clearing EXCEPT ![p] = TRUE]
      /\ instance' = [instance EXCEPT ![p] = "connecting"]
      /\ timer' = [timer EXCEPT ![p] = FALSE]
      /\ UNCHANGED <<retry, failures>>
      /\ late' = IF queue[p] THEN late ELSE late \cup {p}
      /\ UNCHANGED <<pageVars, videoStream, videoVars, made, media_source,
                     source_buffer, queue, listening, forgotten>>
  BY DEF SourceOpen, Io!Connect
<1>2. worker[p] = "none" /\ p \in made /\ retry[p] = -1
  BY <1>1 DEF IInv, OpenInv, MadeInv, RetryInv
<1>3. TypeOK'
  BY <1>1 DEF IInv, TypeOK, Io!IoTypeOK
<1>4. MadeInv'
  BY <1>1, <1>2 DEF IInv, TypeOK, MadeInv
<1>5. OwnInv'
  BY <1>1, <1>2 DEF IInv, TypeOK, OwnInv
<1>6. ReleaseInv' /\ ElementKept'
  BY <1>1 DEF IInv, ReleaseInv, ElementKept
<1>7. OpenInv'
  BY <1>1 DEF IInv, TypeOK, OpenInv
<1>8. RetryInv'
  BY <1>1, <1>2 DEF IInv, TypeOK, RetryInv, Io!IoTypeOK
<1> QED
  BY <1>3, <1>4, <1>5, <1>6, <1>7, <1>8 DEF IInv

(* A source buffer is only made while the media source is open.            *)
LEMMA SdpStep ==
  ASSUME IInv, NEW p \in Players, Sdp(p)
  PROVE  IInv'
<1>1. /\ worker[p] = "running" /\ media_source[p] = "open" /\ ~source_buffer[p]
      /\ source_buffer' = [source_buffer EXCEPT ![p] = TRUE]
      /\ UNCHANGED <<pageVars, videoStream, videoVars, made, media_source, opening,
                     worker, clearing, queue, listening, ioVars, historyVars>>
  BY DEF Sdp
<1>2. p \in made /\ queue[p]
  BY <1>1 DEF IInv, MadeInv, ReleaseInv
<1>3. TypeOK'
  BY <1>1 DEF IInv, TypeOK, Io!IoTypeOK
<1>4. MadeInv' /\ OwnInv' /\ ReleaseInv'
  BY <1>1, <1>2 DEF IInv, TypeOK, MadeInv, OwnInv, ReleaseInv
<1>5. OpenInv' /\ RetryInv'
  BY <1>1 DEF IInv, OpenInv, RetryInv
<1>6. ElementKept'
  BY <1>1, <1>2 DEF IInv, TypeOK, ElementKept
<1> QED
  BY <1>3, <1>4, <1>5, <1>6 DEF IInv

(* The end of the stream destroys the player and leaves it on the page.    *)
LEMMA StreamEndsStep ==
  ASSUME IInv, NEW p \in Players, StreamEnds(p)
  PROVE  IInv'
<1>1. p \in made
  BY DEF StreamEnds, IInv, MadeInv
<1> QED
  BY <1>1, DestroyStep DEF StreamEnds, IInv, TypeOK

(* The frames socket: retry counts the failures, and a timer or a          *)
(* connection there is only while it may go on.                            *)
LEMMA FramesSocketStep ==
  ASSUME IInv, NEW p \in Players, FramesSocket(p)
  PROVE  IInv'
<1>1. UNCHANGED <<pageVars, videoStream, videoVars, made, playerVars, historyVars>>
  BY DEF FramesSocket
<1>2. MadeInv' /\ OwnInv' /\ ReleaseInv' /\ OpenInv' /\ ElementKept'
  BY <1>1 DEF IInv, MadeInv, OwnInv, ReleaseInv, OpenInv, ElementKept
<1>3. (Io!IoTypeOK /\ failures \in [Players -> Nat])' /\ RetryInv'
  <2>1. CASE IoOpens(p)
    BY <1>1, <2>1 DEF IInv, TypeOK, Io!IoTypeOK, Io!NaN, IoOpens, Io!OpenConnect, RetryInv
  <2>2. CASE IoFails(p)
    <3>1. /\ worker[p] = "running" /\ instance[p] # "none"
          /\ instance' = [instance EXCEPT ![p] = "none"]
          /\ failures' = [failures EXCEPT ![p] = @ + 1]
      BY <2>2 DEF IoFails, Io!Fails
    <3>2. \/ retry[p] = -1
          \/ retry[p] \in 0 .. maxRetry /\ failures[p] = retry[p]
      <4>1. retry[p] \in {-1} \cup Nat
        BY DEF IInv, TypeOK, Io!IoTypeOK, Io!NaN
      <4>2. retry[p] <= maxRetry /\ (retry[p] # -1 => failures[p] = retry[p])
        BY <3>1 DEF IInv, RetryInv
      <4>3. CASE retry[p] \in Nat
        BY <4>2, <4>3 DEF VideoPageAssumption
      <4> QED
        BY <4>1, <4>3
    <3>3. CASE retry[p] = -1
      <4>1. Io!Retried(p) = -1 /\ Io!Retries(p) = FALSE
        BY <3>3 DEF Io!Retried, Io!Retries, Io!NaN
      <4>2. retry' = [retry EXCEPT ![p] = -1] /\ timer' = [timer EXCEPT ![p] = FALSE]
        BY <2>2, <4>1 DEF IoFails, Io!Fails
      <4> QED
        BY <1>1, <3>1, <3>3, <4>2 DEF IInv, TypeOK, Io!IoTypeOK, Io!NaN, RetryInv
    <3>4. CASE retry[p] \in 0 .. maxRetry /\ failures[p] = retry[p]
      <4>1. Io!Retried(p) = retry[p] + 1 /\ Io!Retried(p) # -1
        BY <3>4 DEF Io!Retried, Io!NaN
      <4>2. PICK again \in BOOLEAN : again = Io!Retries(p)
        BY DEF Io!Retries
      <4>3. again <=> retry[p] + 1 <= maxRetry
        BY <4>1, <4>2 DEF Io!Retries, Io!NaN
      <4>4. /\ retry' = [retry EXCEPT ![p] = retry[p] + 1]
            /\ timer' = [timer EXCEPT ![p] = again]
        BY <2>2, <4>1, <4>2 DEF IoFails, Io!Fails
      <4>5. (Io!IoTypeOK /\ failures \in [Players -> Nat])'
        BY <3>1, <3>4, <4>4 DEF IInv, TypeOK, Io!IoTypeOK, Io!NaN
      <4>6. ASSUME NEW q \in Players, q # p
            PROVE  /\ retry'[q] = retry[q] /\ instance'[q] = instance[q]
                   /\ timer'[q] = timer[q] /\ failures'[q] = failures[q]
        BY <3>1, <4>4, <4>6 DEF IInv, TypeOK, Io!IoTypeOK
      <4>7. /\ retry'[p] = retry[p] + 1 /\ failures'[p] = retry[p] + 1
            /\ instance'[p] = "none" /\ timer'[p] = again
        BY <3>1, <3>4, <4>4 DEF IInv, TypeOK, Io!IoTypeOK
      <4> QED
        BY <1>1, <3>1, <3>4, <4>3, <4>6, <4>7, <4>5 DEF IInv, RetryInv
    <3> QED
      BY <3>2, <3>3, <3>4
  <2>3. CASE IoReconnects(p)
    BY <1>1, <2>3 DEF IInv, TypeOK, Io!IoTypeOK, Io!NaN, IoReconnects, Io!Reconnect,
       Io!Connect, RetryInv
  <2> QED
    BY <2>1, <2>2, <2>3 DEF FramesSocket
<1>4. TypeOK'
  BY <1>1, <1>3 DEF IInv, TypeOK
<1> QED
  BY <1>2, <1>3, <1>4 DEF IInv

-----------------------------------------------------------------------------

(* Every step keeps the invariant.                                         *)
LEMMA Step == IInv /\ [Next]_vars => IInv'
<1> SUFFICES ASSUME IInv, [Next]_vars PROVE IInv'
  OBVIOUS
<1>1. ASSUME NEW p \in Players, PlayerNext(p) PROVE IInv'
  BY <1>1, AttachStep, SourceOpenStep, SdpStep, StreamEndsStep, FramesSocketStep
     DEF PlayerNext
<1>2. CASE UNCHANGED vars
  BY <1>2, PageStep DEF vars, IInv, TypeOK
<1> QED
  BY <1>1, <1>2, RefreshStep, WatchdogStep, UnmountStep, IdleCallbackStep, PlayStep
     DEF Next

(* The invariant the theorems below are read off.                          *)
THEOREM Inductive == Spec => []IInv
BY Start, Step, PTL DEF Spec

(* Every variable keeps its type.                                          *)
THEOREM TypeCorrect == Spec => []TypeOK
<1>1. IInv => TypeOK
  BY DEF IInv
<1> QED
  BY <1>1, Inductive, PTL

(* No worker and no timer is lost but in the two ways the code has.        *)
THEOREM LostTwoWays == Spec => []OwnedOrLost
<1>1. IInv => OwnedOrLost
  BY DEF IInv, OwnInv, OwnedOrLost
<1> QED
  BY <1>1, Inductive, PTL

(* What destroy leaves behind depends on the source buffer alone.          *)
THEOREM ReleasesUnlessBuffered == Spec => []ReleasedUnlessBuffered
<1>1. IInv => ReleasedUnlessBuffered
  BY DEF IInv, ReleaseInv, ReleasedUnlessBuffered
<1> QED
  BY <1>1, Inductive, PTL

(* Only a forgotten player takes the element from the one on the page.     *)
THEOREM KeepsElement == Spec => []ElementKept
<1>1. IInv => ElementKept
  BY DEF IInv
<1> QED
  BY <1>1, Inductive, PTL

(* The frames stop for good only when retrying was never begun or is used  *)
(* up, whatever the maximum.                                               *)
THEOREM GaveUpLate == Spec => []GivesUpLate
<1>1. IInv => GivesUpLate
  BY DEF IInv, RetryInv, GivesUpLate, Io!NaN
<1> QED
  BY <1>1, Inductive, PTL
=============================================================================
