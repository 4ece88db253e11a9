# Anomalous vehicle trajectory alert system: TLA+ models and proofs

The system shows traffic cameras in a browser, detects anomalous driving in
the pictures, records it, and displays videos, records and statistics.  A Go
server (`src/server`) wraps the go2rtc media server, keeps streams, cars,
actions and records in MySQL, and pushes frames over a websocket protocol of
its own.  A Vue/React client (`src/client`) plays the videos by MSE in a worker,
keeps records in a pinia store it fills by polling, and seeks the video to the
detected frames.  This directory holds models of its parts, the TLC runs that
check them, and proofs.

## The system's parts

`main.go` starts, through `control.WrapWg`, the API server (gin), go2rtc, the
simulated camera, redis and the (disabled) detector, each in a goroutine.
They meet in the database, in the frames socket and in the HTTP API:

    camera -> go2rtc --(MSE)--------------------------> player worker -> <video>
                 \..(pipe)..> frame extraction -> frames socket -> socket client
                  \-(per viewer)-> recording -> MySQL <- queries, settings API
                                                 \--(polling)--> stream store

The dotted way is not taken at this commit: the one call of `HandleStreamWithMSE` (go2rtc's
`internal/mp4/ws.go:44`) is commented out, so clients connect to the frames socket and no frame is ever
published.  The code on either side of the call is complete and is modelled as that call would use it:
it starts one extraction for every MSE viewer of a stream, each of which numbers its frames itself and
publishes them to the room of the stream.

| part | source | state | operations | what makes it hard | what must hold | module |
|---|---|---|---|---|---|---|
| Frames socket | `core/my_socketio`, `socketServer` | connection, `send`, `closed`, `sendMu`, rooms and their members | connect, join, ping, read, write, close, broadcast | three goroutines and a publisher per connection, closing by any of them, table read without its lock, blocking sends | one writer per connection, table consistent, the frames of each publisher in order and once, failed peers leave, publisher released | `SocketIO`, `FrameFeed` |
| Frame extraction | `core/ffmpeg`, `streamServer/{stream,websocket_mse}.go` | ffmpeg's two pipes, channels `internal` and `out`, context | start, log line, image, label, send, cancel, kill | a process and six goroutines, two pipes paired by a channel, closing under senders | every image out in order, which label it has, no stall, all of it ends | `FramePipeline`, `ImageSplitter` |
| Stream store | `client/src/stores/pinia/stream`, `VideoList.vue` | record lists, category tables, active stream | poll, answer, list update, cleanup | overlapping polls, answers out of order, capped lists, streams deleted meanwhile | order and freshness of the lists, no record lost | `StreamStore` |
| Player | `client/src/worker/stream`, `VideoForWS.vue`, `wasm/src/rust` | packet queue, SourceBuffer, timers, the `<video>`, worker | packet, updateend, clear, idle callback, sourceopen, refresh, watchdog, destroy | events of four sources, appends that fail, destruction half way, callbacks after it | packets in order, no stall, the newest kept, what may be left behind, a stalled player replaced | `Player` (queue and buffer), `VideoPage` (life of the players) |
| Socket client | `client/src/my_socketio/io.ts` | websocket, retry counter, timer | connect, open, close, error, reconnect | connections that fail before they were open, pending timers | gives up only after its retries | `IoClient`, in `VideoPage` |
| Recording | `mock`, `core/functional/timer.go`, `temp/preload.go` | cars, records, the map of plates | tick, look up and create a plate, insert cars, insert records, cancel, clear | overlapping ticks, one recording per viewer, no transaction, a process that ends anywhere | one plate per car, every record has its car, nothing of an earlier process, recordings end | `Recording` |
| Video settings API | `controller/videos.go` | table `streams` | get, add, patch, replace, delete | several statements per request, concurrent requests, errors half way | unique names, what a finished request guarantees, not all of those in conflict fail | `VideoTable` |
| Records, tracks, categories | `controller/{records,track,category}.go` | cached id of the normal action | queries | queries beside insertions, an inclusive bound | what the polls rely on | the queries of the polls in `StreamStore` |
| Process supervisor | `control` | wait group; routines and `Sign` channels that nothing constructs | start, restart, stop | none in what is used | straight-line | not modelled |
| go2rtc's streams | `go2rtc/internal/streams`, `go2rtc/pkg/core` | producer, connections, tracks, senders, pending joins | add, remove, start, stop, reconnect | viewers coming and going beside a reconnection, locks that are let go between steps and taken one inside the other | viewers served, nothing left running, no call that never returns | `Go2rtcStream` |
| Stream consumer | `streamServer/consumer.go` | pipe, tracks | add track, packet | added beside a WebRTC viewer, never removed | | not modelled |
| Configuration | `core/gin_server` | three option sets | merge | none: once, by one goroutine | | not modelled |
| Start-up, middleware, views, go2rtc's protocols, detector, generated code | see `PROJECT.json` | | | | | not modelled |

`PROJECT.json` lists every component with its status and the reason, the
hazards of the code with the line where each bites, and which property covers
it.

## Modules

**`SocketIO`** models `client.go`, `server.go` and `room.go` with
`socketServer/event.go`.  Every connection `c` has one program counter per
goroutine: `hb` (`startHeartbeat`), `rd` (`readPump`), `wr` (`sendPump`), `join`
(the handler, from `Upgrade` to the end of `Join`), and `once` for the body of
`closeOnce.Do`, whoever runs it.  A publisher (`em`) is a frame extraction, the caller of
`To(room).Emit`; `RoomOf` is the room it publishes to, and several may share one, each with
its own numbering (`frame`).  It reads the table without the mutex, iterates the live member
map (`todo`), and sends to each member's channel, blocking when it is full.
Critical sections under `Server.mu` are single actions, because nothing else the
mutex guards can be seen half done.  `roomID`, `rooms`, `members` are the fields of
the same name; `fresh` says whether the room object a publisher holds is still the
one in the table.  What the peer and the network do is `peer`; `armed` records that a read
deadline was ever set.  A write to a connection the peer has left may
succeed or fail; one to a stalled peer blocks, since there is no write deadline.
The unsynchronised map accesses may abort the process (`ConcurrentMapFault`).

Behaviour the model keeps because the code has it: after a failed write
`sendPump` breaks out of the select with `sendMu` held; after an error that is
not a `CloseError` `readPump` reads again until gorilla panics; a client closed
before `Join` has registered it stays in the room.

**`FrameFeed`** is the abstract promise of the socket: viewers see published
frames of the feeds of their stream, each later than the one of the same feed before.  Between two
feeds of a stream nothing is promised: they are shown interleaved, and a picture that both
extracted is shown twice.  `SocketIO` implements it with `published <- frame`,
`shown <- last`, `count <- writes`, where a message carries its publisher (`by`) in the model only.

**`FramePipeline`** models `NewFFmpeg`/`Build`/`Run`, the stream plugin
(`timeStamp`, `readIMG`, `processCompleteImage`, the watcher) and
`HandleStreamWithMSE`.  ffmpeg logs a line and then writes an image for each frame;
`logged`, `scanned`, `pushed`, `popped` count the lines at each station, `shot`,
`taken`, `found`, `sent`, `recvd` the images.  A read brings whatever part of the stream has come, the
ends of several images as well, but hands on one: `taken - found` images wait in `imgBuffer` for the
bytes of another read.  The label of an image is the number of the line
whose time stamp it got, or `None` for the pair (-1, -1) the code sends when `internal` is
empty.  `sink` is where ffmpeg's standard output goes, decided by the race
between `cmd.Start` and the plugin that sets `cmd.Stdout`: the pipe, the null
device, or a torn interface that crashes the process.  The select of
`processCompleteImage` chooses any ready case.  The consumer's `Emit` returns (`Emit`), or is held up by
a client whose channel is full (`EmitBlocks`), until that client is served or closed (`EmitFreed`), which may be never.

**`ImageSplitter`** models the byte level of `readIMG`: the search for the
start and end markers over reads of any size, and the memory of `bytes.Buffer`
behind the slices handed on.  Its specification is `SplitterSpec`, so that one module can hold
the proofs about it and about `FramePipeline`.

**`StreamStore`** models the polls of `VideoList.vue` and the lists they fill
(`action.ts`, `api.ts`, `setup.ts`), together with the two statements of the server they
meet: `getRecords`/`getSingleRecords` (`Read`) and the insertion of what a tick of a camera
detected (`Stamp`, then `Insert`).  A poll is a request in `req[kind]`: its bounds
are read out of the store when it is sent, the table when the server evaluates it,
and the lists change when it is answered; the three can interleave with everything
else, and answers of one kind overtake one another.  `Update` sends one request of
each kind and every `CleanupEvery` times cleans up; `VideoListLoaded` and
`SetActiveStream` send one for the active stream.  `TotalCarRecordList`,
`SingleCarRecordList` are the
state's fields, `mapOrder` the order of the Map's keys.  `inOrder` and `delivered` are
history: the properties need them, the code does not.  One clock serves server and client,
and the day does not change.  The category tables, the groups by time and the anomaly counts
are left out (the last answer replaces them, as it does the count of exceptions).

**`Player`** models `VideoStreamByWS` with its `BufferManager`, `VideoManager` and
`ClearManager`: the message `sdp`, `readPacket` and `pushPacket`, the removals of
`clearBuffer`, and those that `_next_turn_clear` puts off (`clears`, the once-listeners of
`updateend` in the order they were added).  `ready` and `queue` are the fields.  The
SourceBuffer is external: an append or a removal that ends makes it idle at once
(`AppendDone`, `RemoveDone`), a removal takes out more than it was asked to, up to the next random
access point (`Removed`), the `updateend` event is delivered later (`ends`), and handlers
run in between.  `appendBuffer` may throw although the buffer is idle (no space), and an append
whose data cannot be decoded ends the media source (`broken`).  A packet stands for one unit
of video time, which makes ranges and durations sets and numbers of packets; those in `Key` begin with a
key frame.  `appended`,
`threw` and `disturbed` are history.

**`VideoTable`** models the requests of `controller/videos.go` that write the table
`streams`.  One statement is one action: no handler opens a transaction, and MySQL, which is
external, keeps each statement atomic and the names unique.  `SettingsVideos` reads the table
and computes what to delete (`del`), then `DeleteVideo` once per row, `Lookup` and
`UpdateVideo` or `CreateVideo` once per listed name (`at`), and `SettingsDone`; `stage` is
where a request is, or its answer.  A failing statement ends the request where it stands, but
for a failing lookup, whose error the code drops.  A row is its id and name.  `GetVideos`, and
a patch that gives no name, change neither and are left out; a patch of a row that is gone succeeds without effect, whether or
not its name is taken; names that differ only in case, one
name for the table's collation and two for `diffVideosList`, are too.  `removed`, `alone`, `madeSince`
and `errors` are history.

**`VideoPage`** models the players one `<video>` has had: `VideoForWS.vue` (`refresh`, the idle
callback that makes a player, the watchdog `listenPlaying`, unmounting) and what a player starts and
has to give up (`worker/stream/index.ts`, `video.ts`, `worker.ts`).  `idle` counts the idle callbacks
that are due, `videoStream` is the player the page knows, `src` the one whose object URL the element
has.  `destroy` is one action, as nothing interrupts it, but its chain of calls ends at the first that
throws (`VideoThrows`), which decides what is released.  The media source and the element are
external: the source that is attached opens, its event is delivered later (`opening`), also after
`destroy`.  `forgotten`, `late` and `failures` are history.

**`IoClient`** is the client of the frames socket, an instance of it per worker in `VideoPage`: its
WebSocket, its retry counter, which is not a number until a connection was open, and the timer of its
reconnection.

**`Recording`** models `RecordsMock`, started for every viewer of a stream.  Each tick of its interval
is a goroutine (`pc[t]`, with the frame's detections still to look up in `todo` and the two
statements' rows in `batch`): the first statement (`Check`), the look-up of each plate under the read
lock and its creation under the write lock, the cars, the records.  `ClearAll` is its two statements
(`clear`), beside the first viewers.  `ProcessEnds` takes the memory (the map of plates, the ticks)
and leaves the tables, at any step; `StreamUnknown` is the panic that does the same.  `torn` is
history: plates whose car may be missing.

**`Go2rtcStream`** models a stream of the embedded go2rtc as this system uses it: one producer, whose
source is an ffmpeg process that offers video and audio (`go2rtc.yaml`), and viewers that ask for both
(`websocket.worker.ts:146`, `ws.go:26`) and each run `AddConsumer` and `RemoveConsumer`.  What is per kind is a
function of `Kind`: the producer's track (`receiver`), the children of a Receiver (`childs`), a viewer's Sender
(`sender`, `parent`).  A viewer's `pc` is the next piece of its goroutine between two locks, and `at` the kind it is
about.  `AddConsumer` makes the join pending, goes through `Dial`, `GetMedias`, `GetTrack` and `AddTrack` (the Sender
joins the track without the producer's lock) for the video and once more for the audio, and takes the join back only
then (`Matched`); then `Register`, and `Start` for each track.  A leave closes the Sender of the video and then that of the
audio (`RemoveConsumer`, `CloseNext`), each of which closes its Receiver if it was the last child (`Cascade`), and
ends with `stopProducers`: `LoadPending` before the lock, `CheckSenders` and `CheckTrack`, which look at one track
after the other, `StopProducer`.  `lock` is the stream's mutex; the producer's is held beyond one action by a
reconnection only (`moving`).  A worker is its number and its connection; a number that is not the producer's any
more makes it return.  `Reconnect` makes the new connection (`to`), `Take` and `Give` move one kind's children and then the
other's (`hand`, `taken`), and `Swap` closes the old connection.  A Receiver that closes passes over every second of its
children (`Skipped`), as `Node.Close` runs through the list it shortens.  A source that comes back has the
codecs it had, which ffmpeg's arguments fix, or lacks the kind: `brings`, `offers`.  `raced` and `left` are history.

**`MCSocketIO`**, **`MCStreamStore`**, **`MCVideoTable`** and **`MCRecording`** give `SocketIO`,
`StreamStore`, `VideoTable` and `Recording` their instances; the other modules need values in the cfg only.  A module
`X_proofs` holds the proofs about `X`; those about `ImageSplitter` are the second part of
`FramePipeline_proofs`.

## Runs

| run | question | bounds and why they are enough |
|---|---|---|
| `socketio_client` | one connection's life with two publishers of its room: one writer, the table, order of each publisher's frames, release of the publishers, eviction, delivery | two publishers of 1 frame each over a channel of 1, so that one waits behind the other; or one alone with up to 3 frames, so that the channel fills behind the frame being written and a frame follows a failed write; 1 tolerated read failure (the number only delays the panic). One client: what two do to one another's order and table is proved, not run |
| `socketio_pump` | violation: a failed write leaves `sendPump` waiting for the mutex it holds | as above; 2 frames show it |
| `pipeline` | labels, stalls, images delivered, everything ends, with and without a viewer that holds the broadcast up | `internal`, `out` and the log hold 1, the pipe of the images 2, so that one read completes two; 1 frame inside ffmpeg, 5 frames: both pipes and both channels fill up and the stall is reached |
| `splitter` | every byte string of 8 bytes in reads of at most 5: markers are cut, two images end in one read, junk surrounds images; and when a frame that waits is overwritten | two minimal images; a read after the first of them |
| `store_late` | two polls at once, failures: none skipped, all delivered, only the newest remain, the list of exceptions agrees | 2 records at 2 times, lists of 2 |
| `store_map` | an active list that the cleanup dropped comes back, the count of exceptions settles | 2 streams over a map of 1, so every cleanup drops one; 2 polls of each kind under way, so that answers overtake one another |
| `store_overlap` | violation: two polls at once unsort the list | 2 under way: axios gives up after 5 s, `Update` runs every 3 s |
| `player` | order of the packets, drops, stalls, what is cleared | 7 packets through a queue of 2, so that it overflows while one is put back; a duration of 2 packets; key frames at 1 and 4, so that a removal is extended across the cut and the second group is longer than a duration; gaps after failed appends, 2 removals that wait for one another |
| `page` | which workers, timers, listeners and elements get lost and which cannot, when the frames stop, whether a dead player is replaced | 3 players: a forgotten one, the one that took its place and the next; 2 idle callbacks due at once; 1 retry, so that the count passes it; 2 positions of the video |
| `videos` | concurrent requests on the video table: who may give up, what is deleted, what is there afterwards | 3 requests of any kind over 2 names, lists of 2, 3 rows, 1 failing statement: 2 settings requests overtake each other on different names while a third renames or deletes |
| `recording` | one plate for a car, a record without its car, what survives `ClearAll`, whether recordings end | 2 ticks over 2 cars and frames of up to 2 detections: both miss the same plate; 1 viewer, since ticks of two viewers meet as those of one do; 2 plates, the least for 2 cars |
| `rtc` | which overlaps leave a viewer without video or without audio; connections, workers and the source when nobody is there or a connection fails; calls that wait for each other | 2 viewers: one leaves while the other joins; 1 failure, 3 connections: a reconnection, and a start after a stop. A reconnection of a reconnection is proved, not run, and so are tracks of 3 viewers or more, the least of which closing passes one over |

Deadlock checking is on in `rtc`, whose viewers end in `Finished`, and off in the others: the
connections, the pipeline and the bounded inputs and requests really end.  The invariants and liveness properties say which
ends are acceptable.

## Fairness

`SocketIO`: weak fairness for each goroutine's own steps (the Go scheduler runs
whatever can run); strong fairness for taking `sendMu`, since `sync.Mutex` hands a
starving waiter the lock after 1 ms.  Connections, failures of peers, frames
and the runtime's race detector are not promised.  `FramePipeline`: weak
fairness for the goroutines and for ffmpeg's encoding of what it has already
filtered; new frames, exits of ffmpeg and viewers leaving are not promised.  Nor is it promised that an
`Emit` that blocks is ever released: `Client.Emit` waits while the channel is full (`client.go:117`), for ever beside a peer
that stalls before a read deadline was set.  What the properties say of the consumer and of delivery is said of the
executions without such a hold-up (`HeldUp`); that `EmitterReleased` bounds it for all other peers is
`SocketIO`'s part.  `NothingLeftRunning` holds in spite of it.  An image that was read together with the one before it
is delivered only if more bytes follow, which is not promised either, and `ImagesDelivered` says so.
`StreamStore`: strong fairness for `Update` (the interval fires for ever) and for
reading and answering a poll that is sent again and again, which assumes that the server
does not fail every one; weak fairness for a request to end, since axios times out.
Detections, inserts, the clock and the mouse are not promised.
`VideoPage`: weak fairness for the watchdog's interval and for idle callbacks, which browsers do call;
nothing is promised of the server, the sockets or the user, and `StalledReplaced` needs none.
`Recording`: weak fairness for the ticks' goroutines and for the end of a cancelled interval, strong
fairness for the ticker, which fires as long as the interval is on (`select` may choose the tick
although the context is cancelled, but not for ever).  Failing statements, viewers and the end of the
process are not promised.  `Go2rtcStream`: weak fairness for the viewers' goroutines and for the workers with their
reconnection timers, which includes the assumption that `GetProducer`, tried for ever, succeeds once, and for the rest of
a reconnection (`Moves`), which waits for nobody; nobody need come, leave or fail.  `Player` and `VideoTable` have no liveness property and assume no fairness.
Receives and sends that compete for one channel have one goroutine on either
side, so weak fairness is all they need.

## Findings

* `client.go:93`: after a failed write `sendPump` neither rechecks nor panics, as the
  comment says; with another frame queued it waits for its own mutex
  (`socketio_pump`).  The reader still evicts the client, which
  `FailedPeerLeaves` shows.
* `api.ts:45`: two polls under way put older records in front of newer ones, where
  `state.ts:9` says the newest is at the beginning (`store_overlap`).  No record is lost by it
  (`NoneSkipped`, proved), and the list is sorted if polls wait (`SortedOneAtATime`, proved).

Noted while modelling, not runs: an image without a label shifts the labels of all later frames
(`ffmpeg/stream.go:184`, where `config.go:73` gives each frame its own time stamp): `LabelSkew` says by exactly how much,
and `StallNeedsMislabels` when the leftover labels stop the pipeline; frames in the channel share memory with later reads (`stream.go:157`;
`OverwrittenOnlyAfterReset` says when one is overwritten); the groups that the cleanup of `action.ts:202`
deletes come back with the next answer (`action.ts:70`); after an append that throws, packets may wait with no
event to come until the clearing timer or a refresh (`StuckOnlyAfterThrow`), and in the moment between the end
of a removal and its event a new packet passes those that wait (`OvertakenOnce`); a poll's bound is inclusive, so an idle list ends up
full of copies of the newest records (`OnlyNewestRemain` says exactly this); the POST route of the frames socket can never
upgrade (gorilla accepts GET only); a peer that stalls before its first ping has
no read deadline and blocks its publisher (hence `armed` in `EmitterReleased`, and `HeldUp` in `FramePipeline`);
a removal from the source buffer may reach into the `BUFFER_MAX_DURATION` it was meant to leave, as the browser extends it to the next
random access point (`clear.ts:31`; `LatestKept` says what is left in any case);
`ffmpeg` may be started without its output pipe (`sink = "null"`), and then
sends nothing for ever; a viewer of go2rtc whose joining overlaps a leave, the closing of its track or a
reconnection may be accepted and get no video or no audio, each for itself, and nothing tells it; so may one whose
source came back without the kind (`ServedUnlessRaced` lists the overlaps and excludes all others); a Sender that is closed while its track is moved stays on the new track,
so that the source is never released (`left`); of three viewers or more on a Receiver that closes, every second keeps
its Sender's entry (`Skipped`); the consumer added beside a WebRTC viewer
(`internal/webrtc/webrtc.go:221`) is never removed, with the same effect; a refresh before the last idle callback ran, and a
`sourceopen` after `destroy`, leave a player nobody ends (`OwnedOrLost`); a destroyed player that had a source
buffer keeps its listeners and its object URL (`ReleasedUnlessBuffered`); a frames socket that fails before it was ever
open is not tried again (`GivesUpLate`).

## Proofs

Every invariant and every action property that a passing run checks, and the refinement of `FrameFeed`,
is the statement of a theorem.
All theorems hold for every value of the constants under the named assumptions
`SocketAssumption`, `PipelineAssumption`, `SplitterAssumption`, `StoreAssumption`, `PlayerAssumption`, `VideoAssumption`,
`VideoPageAssumption`, `RecordingAssumption` and `Go2rtcStreamAssumption` (capacities are positive, bounds
are numbers, names are rooms, the markers of "no room", "no client", "no plate" and so on are none, the list of
streams has no stream twice, there are finitely many viewers of a stream).

* `SocketIO_proofs`: `TypeCorrect`; `NoConcurrentWrite`, by `LockInv` (who writes
  holds `sendMu`); `RoomTableCorrect`, by adding that a client that has not been
  registered is in no room; `FeedCorrect`, the refinement of `FrameFeed`, for any number of publishers
  of a room.  For the last, "each frame is later than the one of its publisher before" is not inductive:
  the frames of one publisher in the channel, the frame `sendPump` holds and the clients the running broadcast
  has still to visit have to be ordered too.  `FeedInv` says so, and has one lemma per kind of step; `FeedStep` then maps every step to a publication, a
  showing or a stutter.
* `FramePipeline_proofs`: `LabelsSkewed` and `StallsAfterMislabels`, from `IInv ==
  TypeOK /\ PipeInv /\ LabelSkew`.  `PipeInv` relates the counters to where
  `timeStamp` and `readIMG` stand and says that an image is only lost after the
  context is cancelled; the number of labels taken is then the number of images
  sent with one.  `UnlabelledAppend` is the lemma on counting unlabelled images.

  The second part proves `SplitsAlways` and `OverwrittenAlways` of `ImageSplitter`, for every stream and
  every way of reading it.  `SplitInv` says that the buffer's content is the stream from some place
  `At` on, and that behind `markerPos` nothing has been missed.  That the images found are the first of the
  stream's is not inductive, since a longer stream has more of them.  Inductive is
  `Onward(Input, Found, At)`: whatever bytes follow, the images of the stream are those found and
  then those from `At` on.  It is kept because a first marker stays the first however the stream goes on
  (`LongerMarks`), and because the images from a place on do not change when the search moves over bytes
  without a marker (`OnwardSkips`).  While no read has completed two images, no image is left from `At` on.
  For `OverwrittenAlways`, `Stays` follows each frame handed on: it lies before the content and keeps
  its bytes, or the read it came with ended with it.

* `StreamStore_proofs`: `TypesHold`; `NoRecordSkipped`, for any number of polls under
  way.  That the list skips nothing is not inductive: a request fixes its lower bound
  long before it is answered.  `SkipInv` adds that all entries are in the table, that what
  is below a request's bound was delivered before it was sent, that its bound is not beyond
  the newest row (else a record inserted in order could still fall below it), and that an
  answer under way brings everything below its newest entry that is not yet delivered.
  `SortedOneAtATime` assumes `InFlight = 1`; then a request's bound is still the time of the
  list's head when the answer comes (`OrderInv`).  `SortedConcat` and `InCapped` are the lemmas on
  putting sorted records in front and cutting the end.  `ExceptionsAlwaysAgree` needs no more than the types
  beside itself (`AgreeInv`), but the lemmas that `Exceptions`, a recursive function,
  filters a concatenation part by part and turns a beginning of a list into a beginning; cutting either list
  at its cap then keeps the agreement, since the list of exceptions is never cut shorter than
  the other can be.  `TypeCorrect` adds the type of that list.

* `Player_proofs`: `TypeCorrect`, `InOrder` (`AppendedInOrder`), `StuckThrew`, `OldestDropped`, `LatestStays`.  That packets are passed by once needs
  `QueueInv(queue, appended, arrived, ready)`: the queue is sorted, at most one packet that was
  appended is newer than one that waits, and none is while `ready` is false.  It is stated with
  parameters, so that one lemma per operation of the queue (`SuffixKeeps`, `PushedKeeps`,
  `HeadAppendedKeeps`, `HeadKeptKeeps`, `FirstKeeps`) serves all handlers, and so that
  the order of the undisturbed reuses it with `ready` false: as long as nothing is disturbed, `CalmFlags` says that
  `ready` is true exactly while an append or its event is under way.  `StuckInv` adds to the
  property that a set flag beside an idle buffer without events means a throw too.  For `LatestStays`,
  `BufferInv` says of every cut, the one under way and each that is put off: each of its packets lies
  `BUFFER_MAX_DURATION` behind one that was appended (`Spared`).  A cut that waits stays so, since packets are only ever
  added.  A key frame of the last `BUFFER_MAX_DURATION` is then never in a cut, and as long as it is in the buffer it
  stops the extension of a removal before itself; `LostInv` says of what is not in the buffer any more that
  every key frame appended before it is out of that time.  A key frame that was overtaken does not protect what was
  appended before it came.

* `VideoTable_proofs`: `TypeCorrect`, `DeletesUnlisted`, `OneGoesOn`, `SettingsDoHold`.  `Read` says that a row that was
  read and is not listed is gone or still to be deleted, and that its id was given out before,
  so it cannot return.  For `OneGoesOn`, that some request that overtook the one giving up does
  not give up itself, the invariant `Order` orders the requests by their lookups: if one of
  those that wrote since the lookup of `q` has itself looked and not yet created, it looked after
  `q` did (`LookedLater`), so whoever overtook it overtook `q`.  The request at the end of
  such a chain is the one that goes on (`OrderTaken`).  `SetInv` is for `SettingsDoHold`: the names a request has come
  past are in the table or were taken out since (`KeptOf`); a request alone finds, beside the rows it
  has still to delete, only rows it lists, so that it can create what its lookup did not find (`AloneOf`).

* `VideoPage_proofs`: `TypeCorrect`, `LostTwoWays`, `ReleasesUnlessBuffered`, `KeepsElement`, `GaveUpLate`.  The
  inductive invariant follows a player: before it is made nothing of it exists (`MadeInv`); until `destroy`
  it is the page's or forgotten (`OwnInv`) and has its listeners (`ReleaseInv`); its media source opens once
  before it has a worker (`OpenInv`), so that a worker that ended is not started again but by a late event; and the
  retry counter, once a number, is the number of failures (`RetryInv`).

* `Recording_proofs`: `TypeCorrect`, `OnePlateHolds`, `RecordsHaveCarsHolds`, `CleanStartHolds`.  `OnePlate` speaks of the
  table; inductive is that the map is injective and made of used plates (`MapInv`), that what a tick holds
  and what this process recorded agree with the map (`BatchInv`, `RecordInv`), and that the plates of a
  tick past its cars are in the table or torn.  `ClearInv` says what the first statement of `ClearAll` has achieved by
  the time of the second.

* `Go2rtcStream_proofs`: `TypeCorrect`, `ServedHolds`, `NoGhostHolds`, `OneWorkerHolds`, `IdleReleasedHolds`,
  `NobodyCircles`, `CallsAreFinite`, for any finite set of viewers and any number of failures.  The counter
  `pending` is the number of joins under way (`Counted`, by cardinality), every connection that is not closed and
  every worker with the producer's number belong to the producer (`Owned`, `OwnWorkers`), and a viewer that is not raced in a
  kind is on the producer's track of it, or among the children a reconnection holds (`Attached`, `Hangs`), from the moment it
  is given the track (`Attaching`).  What makes it inductive are the leaves: one that is about to stop the producer has
  either still to look at the viewer's track (`unchecked`) or has raced it (`Stopping`), and so has one that is about
  to close the track (`Closing`).  That there are two kinds adds that a connection a reconnection has made is
  referred to by nobody before its track is the producer's, kind by kind (`Fresh`), and that a track that is left over from a
  connection before is not joined by another (`OneTrack`).  `IdleReleasedHolds` adds `Hanging`: until a viewer leaves in the
  middle of a move, every child of a track of any kind, and every one a reconnection holds, has its Sender of that kind
  open, so it is a viewer who will take it off.
  `NobodyCircles` and `CallsAreFinite` are the part of `CallsReturn` that does not need fairness: who waits for the
  stream's lock waits for a viewer that looks at the tracks or stops the producer (`Holding`), which waits at most for a
  reconnection, which waits for nobody; and each step of a call lowers `Ahead`, the number of steps it
  can still take, which only that call changes: at most 18 of `AddConsumer`, with both kinds, and 13 of `RemoveConsumer`.

Lists are filtered and cut by recursive functions or by sets (`Exceptions`, `Beginnings`, `ImagesOf`): the lemmas
about them take a least counterexample (`WFMin`) in a set, as the library's induction theorems cannot be used.

Only model-checked: liveness (`FailedPeerLeaves`, `EmitterReleased`, `ConsumerReturns`, `NothingLeftRunning`,
`DeathNoticed`, `ImagesDelivered`, `OnlyNewestRemain`, `ActiveHeld`, `CountSettles`, `StalledReplaced`,
`RecordingEnds`, `Reconnects`, `CallsReturn`), which rests on fairness and so on `ENABLED`, of which this
prover knows nothing (of `CallsReturn` the rest is proved, see above); and what the runs of type "violation" show.

## Not modelled

* go2rtc's protocols and formats (`pkg/{hap,ring,mpegts,nest,...}`) are the largest part of the source: a
  vendored library that parses and converts, of which this system uses the RTSP source and the MP4 viewer.
  Its core, through which every viewer goes, is `Go2rtcStream`; streams of several producers, `Play`,
  `Publish` and backchannels are left out, as the system configures none.
* The queries generated by gorm (`service/*.gen.go`) and the detector's generated gRPC code: straight-line, and used as the
  statements they issue.  For these two reasons the share of the source that is mapped stays small, although the parts with a protocol of their own are modelled.
* Arithmetic on one call's arguments: the synchronisation in WASM (floating point), statistics and
  track aggregation.  It has no state between calls, and unit tests reach it.
* The supervisor loop of `control/sign.go`, which nothing constructs; start-up, framework set-up, middleware and the
  views, which have no concurrency of their own.
* The stream consumer of `streamServer/consumer.go`: to the producer it is a viewer that never leaves.

## Plan

1. Frames socket, frame extraction, stream store, player, video table, each with its proofs (done).
2. The life of the players with the socket client, recording, and the streams of go2rtc, each with its proofs (done).
3. Proofs of every invariant and action property the runs check (done).
4. The safety facts that the liveness properties rest on: who waits for whom, and what each step brings nearer.  Done
   for `CallsReturn`; `NothingLeftRunning`, `EmitterReleased` and `RecordingEnds` are next.
5. `StreamStore` with the records of `Recording` in place of its own `Stamp` and `Insert`.
