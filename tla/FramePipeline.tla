--------------------------- MODULE FramePipeline ----------------------------
(***************************************************************************)
(* Frame extraction: core/ffmpeg's Run and StreamPlugin, driven by         *)
(* streamServer.HandleStreamWithMSE.                                       *)
(*                                                                         *)
(* ffmpeg writes a log line (showinfo, with the time stamp) and an image   *)
(* for every frame, each to its own pipe.  timeStamp turns the lines into  *)
(* labels on the channel internal; readIMG takes the images, puts on each  *)
(* the label it finds in internal, or none, and sends it to the channel    *)
(* out, over which HandleStreamWithMSE ranges, broadcasting each frame.    *)
(* A watcher ends all of it when the context is cancelled.                 *)
(*                                                                         *)
(* Labels are the numbers 1, 2, 3, ... of the lines, so the channel        *)
(* internal holds popped + 1 .. pushed; images are numbered as ffmpeg      *)
(* wrote them.                                                             *)
(***************************************************************************)
EXTENDS Integers, Sequences, FiniteSets

CONSTANTS
  InternalCap,  \* capacity of internal (100 in the code)
  OutCap,       \* capacity of out (1000)
  LogCap,       \* lines the stderr pipe and the scanner's buffer hold
  PipeCap,      \* images the stdout pipe holds
  Ahead,        \* frames ffmpeg holds between the filter and the encoder
  MaxFrame      \* bound: frames of the stream

ASSUME PipelineAssumption ==
  {InternalCap, OutCap, LogCap, PipeCap, Ahead, MaxFrame} \subseteq Nat \ {0}

None == 0   \* the label of an image sent without one: Timestamp -1, Index -1

VARIABLES
  main,     \* Run, then the range over out, of HandleStreamWithMSE
  plugin,   \* the goroutine of the plugin function
  watcher,  \* the plugin's goroutine that waits for the context
  ts,       \* timeStamp
  img,      \* readIMG
  waiter,   \* the goroutine in cmd.Wait
  done,     \* the context is cancelled
  stdout,   \* cmd.Stdout has been set
  proc,     \* the ffmpeg process
  sink,     \* where its standard output goes
  logged,   \* lines ffmpeg has logged
  scanned,  \* lines timeStamp has read
  pushed,   \* labels timeStamp has sent to internal (frameIndex)
  popped,   \* labels readIMG has taken from internal
  shot,     \* images ffmpeg has written
  taken,    \* images readIMG has read to their end
  found,    \* images readIMG has cut out: the others wait in imgBuffer
  label,    \* the label of the image readIMG holds
  sent,     \* the images sent to out, each with its label
  recvd     \* images taken from out

ctxVars  == <<plugin, waiter, done, stdout, proc, sink>>
logVars  == <<ts, logged, scanned, pushed>>
imgVars  == <<img, popped, shot, taken, found, label, sent>>
mainVars == <<main, recvd>>
vars == <<ctxVars, watcher, logVars, imgVars, mainVars>>

Image  == [image : Nat, label : Nat]
MainPc == {"plugins", "start", "range", "emit", "blocked", "done"}
ImgPc  == {"none", "init", "loop", "read", "process", "out", "done"}

TypePc ==
  /\ main \in MainPc
  /\ plugin \in {"none", "ready", "done"}
  /\ watcher \in {"none", "wait", "out", "kill", "done"}
  /\ ts \in {"none", "scan", "send", "done"}
  /\ img \in ImgPc
  /\ waiter \in {"none", "wait", "done"}
  /\ done \in BOOLEAN
  /\ stdout \in BOOLEAN
  /\ proc \in {"new", "running", "dead"}
  /\ sink \in {"none", "null", "pipe", "torn", "crash"}

TypeCount ==
  /\ logged \in Nat
  /\ scanned \in 0 .. logged /\ pushed \in 0 .. scanned /\ popped \in 0 .. pushed
  /\ shot \in 0 .. logged /\ taken \in 0 .. shot /\ found \in 0 .. taken
  /\ label \in 0 .. popped
  /\ sent \in Seq(Image)
  /\ recvd \in 0 .. Len(sent)

TypeOK == TypePc /\ TypeCount

Init ==
  /\ main = "plugins" /\ plugin = "none" /\ watcher = "none"
  /\ ts = "none" /\ img = "none" /\ waiter = "none"
  /\ done = FALSE /\ stdout = FALSE /\ proc = "new" /\ sink = "none"
  /\ logged = 0 /\ scanned = 0 /\ pushed = 0 /\ popped = 0
  /\ shot = 0 /\ taken = 0 /\ found = 0 /\ label = None /\ sent = <<>> /\ recvd = 0

(* Mutants: the watcher forgets to close internal; to close out.           *)
InternalClosedNever == FALSE
OutClosedNever      == FALSE

InternalClosed == watcher \in {"out", "kill", "done"}
OutClosed      == watcher \in {"kill", "done"}
LogClosed      == waiter = "done"    \* Wait closes the stderr pipe
InternalLen    == pushed - popped
OutLen         == Len(sent) - recvd

-----------------------------------------------------------------------------
(* Run: the plugin starts in a goroutine of its own, which races with      *)
(* Start over cmd.Stdout.                                                  *)

RunPlugins ==
  /\ main = "plugins"
  /\ main' = "start"
  /\ plugin' = "ready"
  /\ UNCHANGED <<recvd, waiter, done, stdout, proc, sink, watcher, logVars, imgVars>>

Plugin ==
  /\ plugin = "ready"
  /\ plugin' = "done"
  /\ watcher' = "wait" /\ ts' = "scan" /\ img' = "init"
  /\ UNCHANGED <<mainVars, waiter, done, stdout, proc, sink,
                 logged, scanned, pushed, popped, shot, taken, found, label, sent>>

(* Start reads cmd.Stdout once.  Unset, ffmpeg writes to the null device;  *)
(* while readIMG sets it, the two words of the interface may be torn.      *)
Start ==
  /\ main = "start"
  /\ main' = "range"
  /\ proc' = "running"
  /\ waiter' = "wait"
  /\ \/ stdout /\ sink' = "pipe"
     \/ ~stdout /\ sink' = "null"
     \/ ~stdout /\ img = "init" /\ sink' = "torn"
  /\ UNCHANGED <<recvd, plugin, done, stdout, watcher, logVars, imgVars>>

StartFails ==
  /\ main = "start"
  /\ main' = "range"
  /\ proc' = "dead"
  /\ done' = TRUE
  /\ UNCHANGED <<recvd, plugin, waiter, stdout, sink, watcher, logVars, imgVars>>

-----------------------------------------------------------------------------
(* The environment: ffmpeg, its two pipes, and the viewer's connection,    *)
(* the parent of the context.                                              *)

LogFrame ==
  /\ proc = "running"
  /\ logged < MaxFrame
  /\ logged - shot < Ahead
  /\ logged - scanned < LogCap
  /\ logged' = logged + 1
  /\ UNCHANGED <<mainVars, ctxVars, watcher, ts, scanned, pushed, imgVars>>

EncodeFrame ==
  /\ proc = "running"
  /\ shot < logged
  /\ sink = "pipe" => shot - taken < PipeCap
  /\ shot' = shot + 1
  /\ sink' = IF sink = "torn" THEN "crash" ELSE sink
  /\ UNCHANGED <<mainVars, plugin, waiter, done, stdout, proc, watcher,
                 logVars, img, popped, taken, found, label, sent>>

ProcExits ==
  /\ proc = "running"
  /\ proc' = "dead"
  /\ UNCHANGED <<mainVars, plugin, waiter, done, stdout, sink, watcher,
                 logVars, imgVars>>

ViewerLeaves ==
  /\ ~done
  /\ done' = TRUE
  /\ UNCHANGED <<mainVars, plugin, waiter, stdout, proc, sink, watcher,
                 logVars, imgVars>>

(* Wait also waits for the goroutines that copy standard input, until its  *)
(* pipe is closed or written to again, and standard output, until readIMG  *)
(* has taken all of it.                                                    *)
WaitReturns ==
  /\ waiter = "wait"
  /\ proc = "dead"
  /\ sink = "pipe" => taken = shot
  /\ waiter' = "done"
  /\ done' = TRUE
  /\ UNCHANGED <<mainVars, plugin, stdout, proc, sink, watcher, logVars, imgVars>>

-----------------------------------------------------------------------------
(* The watcher: close(internal), close(out), Kill.                         *)

CloseInternal ==
  /\ watcher = "wait" /\ done
  /\ watcher' = "out"
  /\ UNCHANGED <<mainVars, ctxVars, logVars, imgVars>>

CloseOut ==
  /\ watcher = "out"
  /\ watcher' = "kill"
  /\ UNCHANGED <<mainVars, ctxVars, logVars, imgVars>>

(* cmd.Process is nil before Start: nothing is killed then.                *)
KillNothing ==
  /\ watcher = "kill"
  /\ watcher' = "done"
  /\ UNCHANGED <<mainVars, ctxVars, logVars, imgVars>>

Kill ==
  /\ watcher = "kill"
  /\ watcher' = "done"
  /\ proc' = IF proc = "running" THEN "dead" ELSE proc
  /\ UNCHANGED <<mainVars, plugin, waiter, done, stdout, sink, logVars, imgVars>>

-----------------------------------------------------------------------------
(* timeStamp.                                                              *)

TsScan ==
  /\ ts = "scan"
  /\ scanned < logged
  /\ scanned' = scanned + 1
  /\ ts' = IF done THEN "done" ELSE "send"
  /\ UNCHANGED <<mainVars, ctxVars, watcher, logged, pushed, imgVars>>

(* Mutant: timeStamp ends without its deferred cancel.                     *)
TsEndOnly ==
  /\ ts = "scan"
  /\ LogClosed \/ (proc = "dead" /\ scanned = logged)
  /\ ts' = "done"
  /\ UNCHANGED <<mainVars, ctxVars, watcher, logged, scanned, pushed, imgVars>>

TsEnd ==
  /\ ts = "scan"
  /\ LogClosed \/ (proc = "dead" /\ scanned = logged)
  /\ ts' = "done"
  /\ done' = TRUE
  /\ UNCHANGED <<mainVars, plugin, waiter, stdout, proc, sink, watcher,
                 logged, scanned, pushed, imgVars>>

TsSend ==
  /\ ts = "send"
  /\ ~InternalClosed
  /\ InternalLen < InternalCap
  /\ pushed' = pushed + 1
  /\ ts' = "scan"
  /\ UNCHANGED <<mainVars, ctxVars, watcher, logged, scanned, imgVars>>

(* A send on the closed channel panics: recovered, then cancel.            *)
TsPanic ==
  /\ ts = "send"
  /\ InternalClosed
  /\ ts' = "done"
  /\ done' = TRUE
  /\ UNCHANGED <<mainVars, plugin, waiter, stdout, proc, sink, watcher,
                 logged, scanned, pushed, imgVars>>

-----------------------------------------------------------------------------
(* readIMG.                                                                *)

ImgInit ==
  /\ img = "init"
  /\ img' = "loop"
  /\ stdout' = TRUE
  /\ UNCHANGED <<mainVars, plugin, waiter, done, proc, sink, watcher, logVars,
                 popped, shot, taken, found, label, sent>>

ImgLoop ==
  /\ img = "loop"
  /\ img' = IF done THEN "done" ELSE "read"
  /\ UNCHANGED <<mainVars, ctxVars, watcher, logVars,
                 popped, shot, taken, found, label, sent>>

(* A read brings what has come so far, or a part of it: the ends of none,  *)
(* one or several images.  One image at most is cut out of imgBuffer (see  *)
(* ImageSplitter); the next waits there for another read, which needs more *)
(* bytes.  A read after which none is there yet changes nothing here.      *)
(* Nobody ever closes imgWriter: without bytes this read does not end.     *)
ImgRead ==
  /\ img = "read"
  /\ sink = "pipe"
  /\ taken < shot
  /\ \E n \in taken .. shot : found < n /\ taken' = n
  /\ found' = found + 1
  /\ img' = "process"
  /\ UNCHANGED <<mainVars, ctxVars, watcher, logVars, popped, shot, label, sent>>

(* processCompleteImage: the select over ctx.Done and internal, which      *)
(* chooses at random when both are ready, and its default.                 *)
ImgDropped ==
  /\ img = "process"
  /\ done \/ (InternalClosed /\ InternalLen = 0)
  /\ img' = "loop"
  /\ UNCHANGED <<mainVars, ctxVars, watcher, logVars,
                 popped, shot, taken, found, label, sent>>

(* Mutants: the label is used but left in the channel; an image without a  *)
(* label is dropped.                                                       *)
ImgLabelledPeek ==
  /\ img = "process"
  /\ InternalLen > 0
  /\ label' = popped + 1
  /\ img' = "out"
  /\ UNCHANGED <<mainVars, ctxVars, watcher, logVars, popped, shot, taken, found, sent>>

ImgLabelled ==
  /\ img = "process"
  /\ InternalLen > 0
  /\ popped' = popped + 1
  /\ label' = popped + 1
  /\ img' = "out"
  /\ UNCHANGED <<mainVars, ctxVars, watcher, logVars, shot, taken, found, sent>>

ImgUnlabelledDropped ==
  /\ img = "process"
  /\ ~done /\ ~InternalClosed /\ InternalLen = 0
  /\ img' = "loop"
  /\ UNCHANGED <<mainVars, ctxVars, watcher, logVars,
                 popped, shot, taken, found, label, sent>>

ImgUnlabelled ==
  /\ img = "process"
  /\ ~done /\ ~InternalClosed /\ InternalLen = 0
  /\ label' = None
  /\ img' = "out"
  /\ UNCHANGED <<mainVars, ctxVars, watcher, logVars, popped, shot, taken, found, sent>>

ImgSend ==
  /\ img = "out"
  /\ ~OutClosed
  /\ OutLen < OutCap
  /\ sent' = Append(sent, [image |-> found, label |-> label])
  /\ img' = "loop"
  /\ UNCHANGED <<mainVars, ctxVars, watcher, logVars, popped, shot, taken, found, label>>

ImgPanic ==
  /\ img = "out"
  /\ OutClosed
  /\ img' = "done"
  /\ done' = TRUE
  /\ UNCHANGED <<mainVars, plugin, waiter, stdout, proc, sink, watcher, logVars,
                 popped, shot, taken, found, label, sent>>

-----------------------------------------------------------------------------
(* The range over out; the broadcast of each frame is that of SocketIO.    *)

Receive ==
  /\ main = "range"
  /\ OutLen > 0
  /\ recvd' = recvd + 1
  /\ main' = "emit"
  /\ UNCHANGED <<ctxVars, watcher, logVars, imgVars>>

Emit ==
  /\ main = "emit"
  /\ main' = "range"
  /\ UNCHANGED <<recvd, ctxVars, watcher, logVars, imgVars>>

(* A viewer's channel is full: Emit waits, and nothing bounds the wait     *)
(* (SocketIO), until that viewer is served or closed.                      *)
EmitBlocks ==
  /\ main = "emit"
  /\ main' = "blocked"
  /\ UNCHANGED <<recvd, ctxVars, watcher, logVars, imgVars>>

EmitFreed ==
  /\ main = "blocked"
  /\ main' = "range"
  /\ UNCHANGED <<recvd, ctxVars, watcher, logVars, imgVars>>

Return ==
  /\ main = "range"
  /\ OutClosed /\ OutLen = 0
  /\ main' = "done"
  /\ UNCHANGED <<recvd, ctxVars, watcher, logVars, imgVars>>

-----------------------------------------------------------------------------

Run       == RunPlugins \/ Start \/ StartFails
Watcher   == CloseInternal \/ CloseOut \/ Kill
TimeStamp == TsScan \/ TsEnd \/ TsSend \/ TsPanic
ReadIMG   == ImgInit \/ ImgLoop \/ ImgRead \/ ImgDropped \/ ImgLabelled
               \/ ImgUnlabelled \/ ImgSend \/ ImgPanic
Consumer  == Receive \/ Emit \/ Return

Next ==
  /\ sink # "crash"
  /\ \/ Run \/ Plugin \/ Watcher \/ TimeStamp \/ ReadIMG \/ Consumer
     \/ LogFrame \/ EncodeFrame \/ ProcExits \/ ViewerLeaves \/ WaitReturns
     \/ EmitBlocks \/ EmitFreed

Alive(A) == sink # "crash" /\ A

(* The goroutines run; ffmpeg encodes what it has filtered unless a pipe   *)
(* holds it up.  New frames, exits and viewers are not promised, nor that  *)
(* an Emit held up by a viewer ever returns.                               *)
Fairness ==
  /\ WF_vars(Alive(Run)) /\ WF_vars(Alive(Plugin)) /\ WF_vars(Alive(Watcher))
  /\ WF_vars(Alive(TimeStamp)) /\ WF_vars(Alive(ReadIMG))
  /\ WF_vars(Alive(Consumer)) /\ WF_vars(Alive(EncodeFrame))

Spec == Init /\ [][Next]_vars
FairSpec == Spec /\ Fairness

-----------------------------------------------------------------------------
(* Properties.                                                             *)

UnlabelledIn(s, k) == Cardinality({j \in 1 .. k : s[j].label = None})
Unlabelled(k) == UnlabelledIn(sent, k)

(* Every image goes out, in order, and an image that came before its line  *)
(* goes out without a label: that line labels the next image, and from     *)
(* then on every image carries the label of an earlier one, by exactly the *)
(* number of unlabelled images so far.  No label is used twice or ahead of *)
(* its frame.                                                              *)
LabelSkew ==
  \A k \in 1 .. Len(sent) :
    /\ sent[k].image = k
    /\ sent[k].label # None => sent[k].label = k - Unlabelled(k)

(* ffmpeg, timeStamp and readIMG wait for each other: ffmpeg to log a      *)
(* line, timeStamp to send a label, readIMG to read an image.  That takes  *)
(* more unlabelled and waiting images than the channel and the pipe hold   *)
(* lines, but for the frames ffmpeg itself holds.                          *)
Stalled ==
  /\ ts = "send" /\ InternalLen = InternalCap
  /\ logged - scanned = LogCap
  /\ img = "read" /\ taken = shot

Waiting == taken - found    \* whole images left in imgBuffer

StallNeedsMislabels ==
  Stalled => Unlabelled(Len(sent)) + Waiting + Ahead > InternalCap + LogCap

(* Why the two hold: the counters agree with where timeStamp and readIMG   *)
(* stand, and an image is only lost once the context is cancelled.         *)
Held == IF img = "out" /\ label # None THEN 1 ELSE 0

LogInv ==
  /\ ts \in {"none", "scan"} => scanned = pushed
  /\ ts = "send" => scanned = pushed + 1
  /\ InternalLen <= InternalCap
  /\ logged - scanned <= LogCap
  /\ logged - shot <= Ahead
  /\ InternalClosed => done

ImgInv ==
  /\ main = "plugins" => plugin = "none"
  /\ plugin # "done" => ts = "none" /\ img = "none"
  /\ img \in {"none", "init", "read"} => found = Len(sent)
  /\ img = "loop" => (done \/ found = Len(sent))
  /\ img \in {"process", "out"} => found = Len(sent) + 1
  /\ img = "out" => label \in {None, popped}
  /\ img # "done" => popped = Len(sent) - Unlabelled(Len(sent)) + Held

PipeInv == LogInv /\ ImgInv

(* The broadcast of a frame is held up by a viewer for ever (SocketIO's    *)
(* EmitterReleased says when).                                            *)
HeldUp == <>[](main = "blocked")

(* Once the context is cancelled HandleStreamWithMSE returns, whoever was  *)
(* blocked on which channel, and closes the pipe it reads, unless a viewer *)
(* holds it up for ever.                                                   *)
ConsumerReturns == HeldUp \/ (done ~> (main = "done" \/ sink = "crash"))

(* If ffmpeg was started before the watcher looked, it is killed, and      *)
(* timeStamp, blocked on the log or on the channel, ends too.              *)
Stopping == done /\ main \notin {"plugins", "start"} /\ watcher # "done"

NothingLeftRunning == Stopping ~> ((proc = "dead" /\ ts = "done") \/ sink = "crash")

(* The end of ffmpeg ends the rest, though readIMG never learns of it: by  *)
(* way of timeStamp, unless so many images went out without a label, or    *)
(* wait in imgBuffer, that it is stuck, or a viewer holds up the broadcast *)
(* for ever.                                                               *)
DeathNoticed ==
  HeldUp \/ ((proc = "dead" /\ sink = "pipe")
               ~> (done \/ Unlabelled(Len(sent)) + Waiting + Ahead > InternalCap))

(* An image ffmpeg has written reaches the consumer unless the context is  *)
(* cancelled first, a viewer holds up the broadcast for ever, or the image *)
(* was read together with the one before it and nothing came after it: the *)
(* one that waits in imgBuffer goes out with the next bytes only.          *)
ImagesDelivered ==
  HeldUp \/ \A k \in 1 .. MaxFrame :
    (sink = "pipe" /\ shot >= k)
      ~> (recvd >= k \/ done \/ (img = "read" /\ taken = shot /\ found < k))
=============================================================================
