------------------------ MODULE FramePipeline_proofs ------------------------
(***************************************************************************)
(* Which label an image carries, and when the pipeline can stall, for      *)
(* every capacity of the channels and pipes; and, in the second part, how  *)
(* the images are cut out of the stream, for every stream and every way of *)
(* reading it (ImageSplitter).                                             *)
(***************************************************************************)
EXTENDS FramePipeline, ImageSplitter, FiniteSetTheorems, SequenceTheorems,
        WellFoundedInduction, TLAPS

(* Counting unlabelled images: one more image, one more to count if it has *)
(* no label.                                                               *)
LEMMA UnlabelledType ==
  ASSUME NEW s, NEW k \in Nat
  PROVE  UnlabelledIn(s, k) \in Nat
<1> DEFINE U == {j \in 1 .. k : s[j].label = None}
<1>1. IsFiniteSet(1 .. k)
  BY FS_Interval
<1>2. IsFiniteSet(U)
  BY <1>1, FS_Subset
<1> QED
  BY <1>2, FS_CardinalityType DEF UnlabelledIn

(* An image without a label joins the pipe.                                *)
LEMMA UnlabelledAppend ==
  ASSUME NEW s \in Seq(Image), NEW e \in Image
  PROVE  /\ \A k \in 0 .. Len(s) : UnlabelledIn(Append(s, e), k) = UnlabelledIn(s, k)
         /\ UnlabelledIn(Append(s, e), Len(s) + 1) =
              UnlabelledIn(s, Len(s)) + (IF e.label = None THEN 1 ELSE 0)
<1> DEFINE t == Append(s, e)
           U(q, k) == {j \in 1 .. k : q[j].label = None}
<1>1. /\ Len(t) = Len(s) + 1
      /\ \A j \in 1 .. Len(s) : t[j] = s[j]
      /\ t[Len(s) + 1] = e
      /\ Len(s) \in Nat
  OBVIOUS
<1>2. \A k \in 0 .. Len(s) : U(t, k) = U(s, k)
  BY <1>1
<1>3. U(t, Len(s) + 1) = IF e.label = None THEN U(s, Len(s)) \cup {Len(s) + 1}
                                           ELSE U(s, Len(s))
  BY <1>1
<1>4. IsFiniteSet(U(s, Len(s)))
  <2>1. IsFiniteSet(1 .. Len(s))
    BY <1>1, FS_Interval
  <2> QED
    BY <2>1, FS_Subset
<1>5. Len(s) + 1 \notin U(s, Len(s))
  BY <1>1
<1>6. Cardinality(U(s, Len(s)) \cup {Len(s) + 1}) = Cardinality(U(s, Len(s))) + 1
  BY <1>4, <1>5, FS_AddElement
<1>7. Cardinality(U(s, Len(s))) \in Nat
  BY <1>4, FS_CardinalityType
<1>8. \A k \in 0 .. Len(s) : UnlabelledIn(t, k) = UnlabelledIn(s, k)
  BY <1>2 DEF UnlabelledIn
<1>9. UnlabelledIn(t, Len(s) + 1) =
        UnlabelledIn(s, Len(s)) + (IF e.label = None THEN 1 ELSE 0)
  <2>1. /\ UnlabelledIn(t, Len(s) + 1) = Cardinality(U(t, Len(s) + 1))
        /\ UnlabelledIn(s, Len(s)) = Cardinality(U(s, Len(s)))
    BY DEF UnlabelledIn
  <2> HIDE DEF t, U
  <2>2. CASE e.label = None
    BY <1>3, <1>6, <2>1, <2>2
  <2>3. CASE e.label # None
    BY <1>3, <1>7, <2>1, <2>3
  <2> QED
    BY <2>2, <2>3
<1> QED
  BY <1>8, <1>9

-----------------------------------------------------------------------------

(* The invariant; a lemma for the program counters, one for the steps that *)
(* leave readIMG alone, and two for those of readIMG.                      *)
IInv == TypeOK /\ PipeInv /\ LabelSkew

(* The invariant holds at first,                                           *)
LEMMA InitInv == Init => IInv
<1> SUFFICES ASSUME Init PROVE IInv
  OBVIOUS
<1> USE PipelineAssumption
<1>1. Unlabelled(0) = 0
  <2>1. {j \in 1 .. 0 : sent[j].label = None} = {}
    OBVIOUS
  <2> QED
    BY <2>1, FS_EmptySet DEF Unlabelled, UnlabelledIn
<1>2. sent = <<>> /\ Len(sent) = 0
  BY DEF Init
<1>3. TypeOK
  <2>1. TypePc
    BY DEF Init, TypePc, MainPc, ImgPc
  <2>2. sent \in Seq(Image)
    BY <1>2
  <2>3. TypeCount
    BY <1>2, <2>2 DEF Init, TypeCount, None
  <2> QED
    BY <2>1, <2>3 DEF TypeOK
<1>4. PipeInv
  <2>1. LogInv
    BY DEF Init, LogInv, InternalLen, InternalClosed
  <2>2. ImgInv
    BY <1>1, <1>2 DEF Init, ImgInv, Held, None
  <2> QED
    BY <2>1, <2>2 DEF PipeInv
<1>5. LabelSkew
  BY <1>2 DEF LabelSkew
<1> QED
  BY <1>3, <1>4, <1>5 DEF IInv

(* The program counters stay in their sets.                                *)
LEMMA TypePcStep == TypePc /\ [Next]_vars => TypePc'
<1> SUFFICES ASSUME TypePc, [Next]_vars PROVE TypePc'
  OBVIOUS
<1> USE DEF TypePc, MainPc, ImgPc, ctxVars, logVars, imgVars, mainVars
<1>1. CASE Run
  BY <1>1 DEF Run, RunPlugins, Start, StartFails
<1>2. CASE Plugin
  BY <1>2 DEF Plugin
<1>3. CASE Watcher
  BY <1>3 DEF Watcher, CloseInternal, CloseOut, Kill
<1>4. CASE TimeStamp
  BY <1>4 DEF TimeStamp, TsScan, TsEnd, TsSend, TsPanic
<1>5. CASE ReadIMG
  <2>1. CASE ImgInit \/ ImgLoop \/ ImgRead \/ ImgDropped
    BY <2>1 DEF ImgInit, ImgLoop, ImgRead, ImgDropped
  <2>2. CASE ImgLabelled \/ ImgUnlabelled \/ ImgSend \/ ImgPanic
    BY <2>2 DEF ImgLabelled, ImgUnlabelled, ImgSend, ImgPanic
  <2> QED
    BY <1>5, <2>1, <2>2 DEF ReadIMG
<1>6. CASE Consumer
  BY <1>6 DEF Consumer, Receive, Emit, Return
<1>10. CASE EmitBlocks \/ EmitFreed
  BY <1>10 DEF EmitBlocks, EmitFreed
<1>7. CASE LogFrame \/ EncodeFrame
  BY <1>7 DEF LogFrame, EncodeFrame
<1>8. CASE ProcExits \/ ViewerLeaves \/ WaitReturns
  BY <1>8 DEF ProcExits, ViewerLeaves, WaitReturns
<1>9. CASE UNCHANGED vars
  BY <1>9 DEF vars
<1> QED
  BY <1>1, <1>2, <1>3, <1>4, <1>5, <1>6, <1>7, <1>8, <1>9, <1>10 DEF Next

(* Steps that leave readIMG and its images alone.                          *)
LEMMA OtherInv ==
  ASSUME IInv, TypePc',
         \/ Run \/ Watcher \/ TimeStamp \/ Consumer
         \/ LogFrame \/ EncodeFrame \/ ProcExits \/ ViewerLeaves \/ WaitReturns
         \/ EmitBlocks \/ EmitFreed \/ UNCHANGED vars
  PROVE  IInv'
<1> USE PipelineAssumption
<1> DEFINE u == Unlabelled(Len(sent))
<1> USE DEF ctxVars, logVars, imgVars, mainVars
<1>0. UNCHANGED <<sent, img, label, popped, taken, found>>
  BY DEF Run, RunPlugins, Start, StartFails, Watcher, CloseInternal, CloseOut, Kill,
         TimeStamp, TsScan, TsEnd, TsSend, TsPanic, Consumer, Receive, Emit, Return,
         LogFrame, EncodeFrame, ProcExits, ViewerLeaves, WaitReturns,
         EmitBlocks, EmitFreed, vars
<1>1. TypePc /\ TypeCount /\ LogInv /\ ImgInv
  BY DEF IInv, TypeOK, PipeInv
<1>2. Len(sent) \in Nat
  BY <1>1 DEF TypeCount
<1>3. LabelSkew'
  BY <1>0 DEF IInv, LabelSkew, Unlabelled
<1>4. ImgInv'
  <2>1. u' = u
    BY <1>0 DEF Unlabelled
  <2>2. /\ done => done'
        /\ main' = "plugins" => main = "plugins" /\ plugin' = plugin
        /\ plugin' # "done" => plugin # "done" /\ (ts = "none" => ts' = "none")
    <3>1. CASE Run
      BY <3>1, <1>1 DEF Run, RunPlugins, Start, StartFails, ImgInv
    <3>2. CASE Watcher \/ Consumer \/ EmitBlocks \/ EmitFreed
      BY <3>2 DEF Watcher, CloseInternal, CloseOut, Kill, Consumer, Receive, Emit, Return,
                  EmitBlocks, EmitFreed
    <3>3. CASE TimeStamp
      BY <3>3 DEF TimeStamp, TsScan, TsEnd, TsSend, TsPanic
    <3>4. CASE LogFrame \/ EncodeFrame \/ ProcExits \/ ViewerLeaves \/ WaitReturns
      BY <3>4 DEF LogFrame, EncodeFrame, ProcExits, ViewerLeaves, WaitReturns
    <3>5. CASE UNCHANGED vars
      BY <3>5 DEF vars
    <3> QED
      BY <3>1, <3>2, <3>3, <3>4, <3>5
  <2>3. Held' = Held
    BY <1>0 DEF Held
  <2> HIDE DEF u
  <2> QED
    BY <1>0, <1>1, <2>1, <2>2, <2>3 DEF ImgInv, u
<1>5. TypeCount' /\ LogInv'
  <2>1. CASE Run
    <3>1. UNCHANGED <<watcher, ts, logged, scanned, pushed, shot, recvd>> /\ (done => done')
      BY <2>1 DEF Run, RunPlugins, Start, StartFails
    <3> QED
      BY <3>1, <1>0, <1>1 DEF TypeCount, LogInv, InternalLen, InternalClosed
  <2>2. CASE Watcher
    <3>1. UNCHANGED <<ts, logged, scanned, pushed, shot, recvd, done>>
      BY <2>2 DEF Watcher, CloseInternal, CloseOut, Kill
    <3>2. InternalClosed' => done'
      BY <2>2, <1>1, <3>1
      DEF Watcher, CloseInternal, CloseOut, Kill, LogInv, InternalClosed
    <3> QED
      BY <3>1, <3>2, <1>0, <1>1 DEF TypeCount, LogInv, InternalLen
  <2>3. CASE TsScan
    <3>1. /\ UNCHANGED <<watcher, done, logged, pushed, shot, recvd>>
          /\ ts = "scan" /\ ts' \in {"done", "send"}
          /\ scanned < logged /\ scanned' = scanned + 1
      BY <2>3 DEF TsScan
    <3>2. TypeCount'
      BY SMTT(20), <3>1, <1>0, <1>1 DEF TypeCount
    <3>3. LogInv'
      BY <3>1, <1>0, <1>1 DEF TypeCount, LogInv, InternalLen, InternalClosed
    <3> QED
      BY <3>2, <3>3
  <2>4. CASE TsSend
    <3>1. /\ UNCHANGED <<watcher, done, logged, scanned, shot, recvd>>
          /\ ts = "send" /\ ts' = "scan" /\ pushed' = pushed + 1
          /\ pushed - popped < InternalCap
      BY <2>4 DEF TsSend, InternalLen
    <3>2. TypeCount'
      BY <3>1, <1>0, <1>1 DEF TypeCount, LogInv
    <3>3. LogInv'
      BY <3>1, <1>0, <1>1 DEF TypeCount, LogInv, InternalLen, InternalClosed
    <3> QED
      BY <3>2, <3>3
  <2>5. CASE TsEnd \/ TsPanic
    <3>1. UNCHANGED <<watcher, logged, scanned, pushed, shot, recvd>> /\ ts' = "done" /\ done'
      BY <2>5 DEF TsEnd, TsPanic
    <3> QED
      BY <3>1, <1>0, <1>1 DEF TypeCount, LogInv, InternalLen, InternalClosed
  <2>6. CASE Consumer
    <3>1. /\ UNCHANGED <<watcher, ts, done, logged, scanned, pushed, shot>>
          /\ recvd' = recvd \/ (recvd' = recvd + 1 /\ Len(sent) - recvd > 0)
      BY <2>6 DEF Consumer, Receive, Emit, Return, OutLen
    <3>2. TypeCount'
      <4>1. recvd' \in 0 .. Len(sent')
        <5>1. recvd \in Int /\ 0 <= recvd /\ recvd <= Len(sent) /\ Len(sent) \in Nat
          BY <1>1 DEF TypeCount
        <5>2. sent' = sent
          BY <1>0
        <5> QED
          BY <5>1, <5>2, <3>1
      <4> QED
        BY <4>1, <3>1, <1>0, <1>1 DEF TypeCount
    <3> QED
      BY <3>1, <3>2, <1>0, <1>1 DEF LogInv, InternalLen, InternalClosed
  <2>7. CASE LogFrame
    <3>1. /\ UNCHANGED <<watcher, ts, done, scanned, pushed, shot, recvd>>
          /\ logged' = logged + 1 /\ logged - shot < Ahead /\ logged - scanned < LogCap
      BY <2>7 DEF LogFrame
    <3>2. TypeCount'
      <4>1. logged' \in Nat /\ scanned' \in 0 .. logged' /\ shot' \in 0 .. logged'
        <5>1. /\ logged \in Nat /\ shot \in Int /\ 0 <= shot /\ shot <= logged
              /\ scanned \in Int /\ 0 <= scanned /\ scanned <= logged
          BY <1>1 DEF TypeCount
        <5> QED
          BY <5>1, <3>1
      <4> QED
        BY <4>1, <3>1, <1>0, <1>1 DEF TypeCount
    <3>3. LogInv'
      BY <3>1, <1>0, <1>1 DEF TypeCount, LogInv, InternalLen, InternalClosed
    <3> QED
      BY <3>2, <3>3
  <2>8. CASE EncodeFrame
    <3>1. /\ UNCHANGED <<watcher, ts, done, logged, scanned, pushed, recvd>>
          /\ shot' = shot + 1 /\ shot < logged
      BY <2>8 DEF EncodeFrame
    <3>2. TypeCount'
      BY <3>1, <1>0, <1>1 DEF TypeCount
    <3>3. logged' - shot' <= Ahead
      <4>1. logged \in Nat /\ shot \in Nat /\ logged - shot <= Ahead /\ Ahead \in Nat
        BY <1>1 DEF TypeCount, LogInv
      <4> QED
        BY <4>1, <3>1
    <3>4. LogInv'
      BY <3>1, <3>3, <1>0, <1>1 DEF LogInv, InternalLen, InternalClosed
    <3> QED
      BY <3>2, <3>4
  <2>9. CASE ProcExits \/ ViewerLeaves \/ WaitReturns \/ EmitBlocks \/ EmitFreed \/ UNCHANGED vars
    <3>1. UNCHANGED <<watcher, ts, logged, scanned, pushed, shot, recvd>> /\ (done => done')
      BY <2>9 DEF ProcExits, ViewerLeaves, WaitReturns, EmitBlocks, EmitFreed, vars
    <3> QED
      BY <3>1, <1>0, <1>1 DEF TypeCount, LogInv, InternalLen, InternalClosed
  <2> QED
    BY <2>1, <2>2, <2>3, <2>4, <2>5, <2>6, <2>7, <2>8, <2>9 DEF TimeStamp
<1> QED
  BY <1>3, <1>4, <1>5 DEF IInv, TypeOK, PipeInv

(* Steps of readIMG that send nothing, and the start of its goroutine.     *)
LEMMA QuietInv ==
  ASSUME IInv, TypePc',
         \/ Plugin \/ ImgInit \/ ImgLoop \/ ImgRead
         \/ ImgDropped \/ ImgLabelled \/ ImgUnlabelled \/ ImgPanic
  PROVE  IInv'
<1> USE PipelineAssumption
<1> DEFINE u == Unlabelled(Len(sent))
<1> USE DEF ctxVars, logVars, imgVars, mainVars
<1>0. UNCHANGED <<sent, logged, scanned, pushed, shot, main, recvd>> /\ (done => done')
  BY DEF Plugin, ImgInit, ImgLoop, ImgRead, ImgDropped, ImgLabelled, ImgUnlabelled, ImgPanic
<1>1. TypePc /\ TypeCount /\ LogInv /\ ImgInv
  BY DEF IInv, TypeOK, PipeInv
<1>2. u' = u /\ u \in Nat /\ Len(sent) \in Nat
  <2>1. Len(sent) \in Nat
    BY <1>1 DEF TypeCount
  <2> QED
    BY <1>0, <2>1, UnlabelledType DEF Unlabelled
<1>3. LabelSkew'
  BY <1>0 DEF IInv, LabelSkew, Unlabelled
<1> HIDE DEF u
<1>4. TypeCount' /\ LogInv'
  <2>1. CASE Plugin
    <3>1. /\ UNCHANGED <<done, popped, taken, found, label>>
          /\ ts = "none" /\ ts' = "scan" /\ watcher' = "wait"
      BY <2>1, <1>1 DEF Plugin, ImgInv
    <3> QED
      BY <3>1, <1>0, <1>1 DEF TypeCount, LogInv, InternalLen, InternalClosed
  <2>2. CASE ImgInit \/ ImgLoop \/ ImgDropped \/ ImgPanic
    <3>1. UNCHANGED <<popped, taken, found, label, ts, watcher>>
      BY <2>2 DEF ImgInit, ImgLoop, ImgDropped, ImgPanic
    <3> QED
      BY <3>1, <1>0, <1>1 DEF TypeCount, LogInv, InternalLen, InternalClosed
  <2>3. CASE ImgRead
    <3>1. /\ UNCHANGED <<popped, label, ts, watcher, done>>
          /\ \E n \in taken .. shot : found < n /\ taken' = n
          /\ found' = found + 1
      BY <2>3 DEF ImgRead
    <3>2. taken' \in 0 .. shot' /\ found' \in 0 .. taken'
      BY <3>1, <1>0, <1>1 DEF TypeCount
    <3>3. TypeCount'
      BY <3>1, <3>2, <1>0, <1>1 DEF TypeCount
    <3>4. LogInv'
      BY <3>1, <1>0, <1>1 DEF LogInv, InternalLen, InternalClosed
    <3> QED
      BY <3>3, <3>4
  <2>4. CASE ImgLabelled
    <3>1. /\ UNCHANGED <<taken, found, ts, watcher, done>>
          /\ pushed - popped > 0 /\ popped' = popped + 1 /\ label' = popped + 1
      BY <2>4 DEF ImgLabelled, InternalLen
    <3>2. TypeCount'
      BY <3>1, <1>0, <1>1 DEF TypeCount
    <3>3. LogInv'
      BY <3>1, <1>0, <1>1 DEF TypeCount, LogInv, InternalLen, InternalClosed
    <3> QED
      BY <3>2, <3>3
  <2>5. CASE ImgUnlabelled
    <3>1. UNCHANGED <<popped, taken, found, ts, watcher, done>> /\ label' = None
      BY <2>5 DEF ImgUnlabelled
    <3> QED
      BY <3>1, <1>0, <1>1 DEF TypeCount, LogInv, InternalLen, InternalClosed, None
  <2> QED
    BY <2>1, <2>2, <2>3, <2>4, <2>5
<1>5. ImgInv'
  <2>1. CASE Plugin
    <3>1. /\ UNCHANGED <<popped, found, label>>
          /\ img = "none" /\ img' = "init" /\ plugin' = "done"
          /\ main # "plugins"
      BY <2>1, <1>1 DEF Plugin, ImgInv
    <3> QED
      BY <3>1, <1>0, <1>1, <1>2 DEF ImgInv, Held, u
  <2>2. CASE ImgInit
    <3>1. /\ UNCHANGED <<popped, found, label, plugin, ts>>
          /\ img = "init" /\ img' = "loop"
      BY <2>2 DEF ImgInit
    <3> QED
      BY <3>1, <1>0, <1>1, <1>2 DEF ImgInv, Held, u
  <2>3. CASE ImgLoop
    <3>1. /\ UNCHANGED <<popped, found, label, plugin, ts>>
          /\ img = "loop" /\ img' = (IF done THEN "done" ELSE "read")
      BY <2>3 DEF ImgLoop
    <3> QED
      BY <3>1, <1>0, <1>1, <1>2 DEF ImgInv, Held, u
  <2>4. CASE ImgRead
    <3>1. /\ UNCHANGED <<popped, label, plugin, ts>> /\ found' = found + 1
          /\ img = "read" /\ img' = "process"
      BY <2>4 DEF ImgRead
    <3> QED
      BY <3>1, <1>0, <1>1, <1>2 DEF ImgInv, Held, u
  <2>5. CASE ImgDropped
    <3>1. /\ UNCHANGED <<popped, found, label, plugin, ts, done>>
          /\ img = "process" /\ img' = "loop"
          /\ done \/ InternalClosed
      BY <2>5 DEF ImgDropped
    <3>2. done'
      BY <3>1, <1>1 DEF LogInv
    <3> QED
      BY <3>1, <3>2, <1>0, <1>1, <1>2 DEF ImgInv, Held, u
  <2>6. CASE ImgLabelled
    <3>1. /\ UNCHANGED <<found, plugin, ts>>
          /\ img = "process" /\ img' = "out" /\ popped' = popped + 1 /\ label' = popped + 1
      BY <2>6 DEF ImgLabelled
    <3>2. /\ popped = Len(sent) - u + 0 /\ popped \in Nat
          /\ found = Len(sent) + 1
      BY <3>1, <1>1 DEF ImgInv, Held, u, TypeCount
    <3>3. Held' = 1 /\ popped' = Len(sent') - u' + Held'
      BY <3>1, <3>2, <1>0, <1>2 DEF Held, None
    <3> QED
      BY <3>1, <3>2, <3>3, <1>0, <1>1, <1>2 DEF ImgInv, u
  <2>7. CASE ImgUnlabelled
    <3>1. /\ UNCHANGED <<found, plugin, ts, popped>>
          /\ img = "process" /\ img' = "out" /\ label' = None
      BY <2>7 DEF ImgUnlabelled
    <3> QED
      BY <3>1, <1>0, <1>1, <1>2 DEF ImgInv, Held, u
  <2>8. CASE ImgPanic
    <3>1. UNCHANGED <<found, plugin, ts, popped, label>> /\ img = "out" /\ img' = "done"
      BY <2>8 DEF ImgPanic
    <3> QED
      BY <3>1, <1>0, <1>1, <1>2 DEF ImgInv, Held, u
  <2> QED
    BY <2>1, <2>2, <2>3, <2>4, <2>5, <2>6, <2>7, <2>8
<1> QED
  BY <1>3, <1>4, <1>5 DEF IInv, TypeOK, PipeInv

(* The step that sends an image.                                           *)
LEMMA SendInv ==
  ASSUME IInv, TypePc', ImgSend
  PROVE  IInv'
<1> USE PipelineAssumption
<1> DEFINE e == [image |-> found, label |-> label]
           n == Len(sent)
           u == Unlabelled(n)
<1>0. /\ UNCHANGED <<main, recvd, plugin, done, watcher,
                     ts, logged, scanned, pushed, popped, shot, taken, found, label>>
      /\ img = "out" /\ img' = "loop"
      /\ sent' = Append(sent, e)
  BY DEF ImgSend, mainVars, ctxVars, logVars
<1>1. TypeCount /\ LogInv /\ ImgInv /\ LabelSkew
  BY DEF IInv, TypeOK, PipeInv
<1>2. /\ sent \in Seq(Image) /\ n \in Nat
      /\ found = n + 1 /\ label \in {None, popped}
      /\ popped \in Nat /\ label \in Nat /\ recvd \in 0 .. n
  BY <1>0, <1>1 DEF TypeCount, ImgInv
<1>3. e \in Image /\ e.image = n + 1 /\ e.label = label
  BY <1>2 DEF Image
<1>4. popped = n - u + Held
  BY <1>0, <1>1 DEF ImgInv
<1>5. u \in Nat
  BY <1>2, UnlabelledType DEF Unlabelled
<1> HIDE DEF e
<1>6. /\ Len(sent') = n + 1
      /\ sent' \in Seq(Image)
      /\ \A k \in 1 .. n : sent'[k] = sent[k]
      /\ sent'[n + 1] = e
  BY <1>0, <1>2, <1>3
<1>7. /\ \A k \in 0 .. n : UnlabelledIn(sent', k) = UnlabelledIn(sent, k)
      /\ UnlabelledIn(sent', n + 1) =
           UnlabelledIn(sent, n) + (IF label = None THEN 1 ELSE 0)
  BY <1>0, <1>2, <1>3, UnlabelledAppend
<1>8. u = UnlabelledIn(sent, n)
  BY DEF Unlabelled
<1> HIDE DEF n, u
<1>9. TypeCount'
  BY <1>0, <1>1, <1>2, <1>6 DEF TypeCount, n
<1>10. LogInv'
  BY <1>0, <1>1 DEF LogInv, InternalLen, InternalClosed
<1>11. label # None => label = n + 1 - u
  BY <1>0, <1>2, <1>4, <1>5 DEF Held
<1>12. LabelSkew'
  <2> SUFFICES ASSUME NEW k \in 1 .. (n + 1)
               PROVE  /\ sent'[k].image = k
                      /\ sent'[k].label # None =>
                           sent'[k].label = k - UnlabelledIn(sent', k)
    BY <1>6 DEF LabelSkew, Unlabelled
  <2>1. CASE k = n + 1
    <3>1. label # None => UnlabelledIn(sent', n + 1) = u
      BY <1>5, <1>7, <1>8
    <3>2. sent'[k].image = k /\ sent'[k].label = label
      BY <2>1, <1>3, <1>6
    <3>3. CASE label = None
      BY <3>2, <3>3
    <3>4. CASE label # None
      <4>1. UnlabelledIn(sent', k) = u /\ label = k - u
        BY <2>1, <3>1, <3>4, <1>11, <1>2, <1>5
      <4> QED
        BY <3>2, <4>1
    <3> QED
      BY <3>3, <3>4
  <2>2. CASE k # n + 1
    <3>1. k \in 1 .. n /\ k \in 0 .. n
      BY <2>2, <1>2
    <3> QED
      BY <3>1, <1>1, <1>6, <1>7 DEF LabelSkew, Unlabelled, n
  <2> QED
    BY <2>1, <2>2
<1>13. Unlabelled(Len(sent))' = u + (IF label = None THEN 1 ELSE 0)
  BY <1>6, <1>7, <1>8 DEF Unlabelled
<1>14. popped' = Len(sent') - Unlabelled(Len(sent))' + Held'
  <2>1. Held' = 0
    BY <1>0 DEF Held
  <2>2. Held = IF label = None THEN 0 ELSE 1
    BY <1>0 DEF Held
  <2> QED
    BY SMTT(20), <2>1, <2>2, <1>0, <1>2, <1>4, <1>5, <1>6, <1>13
<1>15. ImgInv'
  BY <1>0, <1>1, <1>2, <1>6, <1>14 DEF ImgInv
<1> QED
  BY <1>9, <1>10, <1>12, <1>15 DEF IInv, TypeOK, PipeInv

(* every step keeps it,                                                    *)
LEMMA InvStep == IInv /\ [Next]_vars => IInv'
<1> SUFFICES ASSUME IInv, [Next]_vars PROVE IInv'
  OBVIOUS
<1>0. TypePc'
  BY TypePcStep DEF IInv, TypeOK
<1>1. CASE ImgSend
  BY <1>0, <1>1, SendInv
<1>2. CASE \/ Plugin \/ ImgInit \/ ImgLoop \/ ImgRead
           \/ ImgDropped \/ ImgLabelled \/ ImgUnlabelled \/ ImgPanic
  BY <1>0, <1>2, QuietInv
<1>3. CASE \/ Run \/ Watcher \/ TimeStamp \/ Consumer
           \/ LogFrame \/ EncodeFrame \/ ProcExits \/ ViewerLeaves \/ WaitReturns
           \/ EmitBlocks \/ EmitFreed \/ UNCHANGED vars
  BY <1>0, <1>3, OtherInv
<1> QED
  BY <1>1, <1>2, <1>3 DEF Next, ReadIMG

(* and so every execution of the plugin satisfies it.                      *)
THEOREM PipelineInv == Spec => []IInv
<1> QED
  BY InitInv, InvStep, PTL DEF Spec

-----------------------------------------------------------------------------

(* Which label an image carries: that of the frame as many frames before   *)
(* it as images went out unlabelled.                                       *)
THEOREM LabelsSkewed == Spec => []LabelSkew
<1>1. IInv => LabelSkew
  BY DEF IInv
<1> QED
  BY <1>1, PipelineInv, PTL

(* The channels and pipes cannot all wait for each other as long as every  *)
(* image finds its label and none waits in imgBuffer, nor until as many    *)
(* went out without or wait as they hold.                                  *)
THEOREM StallsAfterMislabels == Spec => []StallNeedsMislabels
<1>1. IInv => StallNeedsMislabels
  <2> SUFFICES ASSUME IInv, Stalled
               PROVE  Unlabelled(Len(sent)) + Waiting + Ahead > InternalCap + LogCap
    BY DEF StallNeedsMislabels
  <2> DEFINE u == Unlabelled(Len(sent))
  <2>1. TypeCount /\ LogInv /\ ImgInv
    BY DEF IInv, TypeOK, PipeInv
  <2>2. Len(sent) \in Nat
    BY <2>1 DEF TypeCount
  <2>3. u \in Nat
    BY <2>2, UnlabelledType DEF Unlabelled
  <2>4. /\ scanned = pushed + 1 /\ pushed - popped = InternalCap
        /\ logged - scanned = LogCap /\ logged - shot <= Ahead
        /\ taken = shot /\ found = Len(sent) /\ popped = Len(sent) - u
    <3>1. Held = 0
      BY DEF Stalled, Held
    <3>2. popped = Len(sent) - u + Held
      BY <2>1 DEF Stalled, ImgInv
    <3>3. popped = Len(sent) - u
      BY <3>1, <3>2, <2>2, <2>3
    <3> QED
      BY <3>3, <2>1 DEF Stalled, LogInv, ImgInv, InternalLen
  <2> HIDE DEF u
  <2>5. u + (taken - found) + Ahead > InternalCap + LogCap
    <3>1. /\ logged \in Int /\ scanned \in Int /\ pushed \in Int
          /\ popped \in Int /\ shot \in Int
      BY <2>1 DEF TypeCount
    <3>2. InternalCap \in Int /\ LogCap \in Int /\ Ahead \in Int
      BY PipelineAssumption
    <3> QED
      BY <3>1, <3>2, <2>2, <2>3, <2>4
  <2> QED
    BY <2>5 DEF u, Waiting
<1> QED
  BY <1>1, PipelineInv, PTL

-----------------------------------------------------------------------------
(* The images in the bytes that ffmpeg writes (ImageSplitter).             *)
(*                                                                         *)
(* The invariant says of the place c where the buffer's content begins:    *)
(* however the stream goes on, its images are those found, and then those  *)
(* from c on.  "However it goes on" is what makes it inductive, since the  *)
(* reference definition looks at the stream as a whole.                    *)

(* A set of natural numbers has a least element.                           *)
LEMMA FirstIn ==
  ASSUME NEW T, T \subseteq Nat, T # {}
  PROVE  First(T) \in T /\ \A k \in T : First(T) <= k
<1> DEFINE R == {ss \in Nat \X Nat : ss[1] < ss[2]}
<1>1. IsWellFoundedOn(R, Nat)
  BY NatLessThanWellFounded DEF OpToRel
<1>2. PICK m \in T : \A k \in T : ~(<<k, m>> \in R)
  <2> HIDE DEF R
  <2>1. QED
    BY <1>1, WFMin
<1>3. ASSUME NEW k \in T PROVE m <= k
  <2>1. k \in Nat /\ m \in Nat /\ <<k, m>>[1] = k /\ <<k, m>>[2] = m
        /\ <<k, m>> \in Nat \X Nat
    OBVIOUS
  <2>2. ~(<<k, m>>[1] < <<k, m>>[2])
    BY <1>2, <2>1
  <2>3. QED
    BY <2>1, <2>2
<1>4. \E i \in T : \A j \in T : i <= j
  BY <1>3
<1>5. QED
  BY <1>4 DEF First

(* It is the only one.                                                     *)
LEMMA FirstIs ==
  ASSUME NEW T, T \subseteq Nat, NEW m \in T, \A k \in T : m <= k
  PROVE  First(T) = m
<1>1. First(T) \in T /\ \A k \in T : First(T) <= k
  BY FirstIn
<1>2. First(T) \in Nat /\ m \in Nat /\ First(T) <= m /\ m <= First(T)
  BY <1>1
<1>3. QED
  BY <1>2

(* A set that holds 0, and with a number the next, holds them all.         *)
LEMMA Induction ==
  ASSUME NEW T, 0 \in T, \A n \in Nat : n \in T => n + 1 \in T
  PROVE  Nat \subseteq T
<1> SUFFICES ASSUME Nat \ T # {} PROVE FALSE
  OBVIOUS
<1>1. PICK m \in Nat \ T : \A k \in Nat \ T : m <= k
  BY FirstIn
<1>2. m # 0 /\ m - 1 \in Nat
  OBVIOUS
<1>3. m - 1 \in T
  BY <1>1, <1>2
<1>4. QED
  BY <1>2, <1>3

-----------------------------------------------------------------------------
(* Slices.                                                                 *)

(* What it means to be the slice of s from a to b, and s and t in a row.   *)
IsSlice(d, s, a, b) ==
  /\ d \in Seq(Byte)
  /\ Len(d) = b - a
  /\ \A i \in 1 .. b - a : d[i] = s[a + i] /\ a + i \in 1 .. Len(s)

IsConcat(w, s, t) ==
  /\ w \in Seq(Byte)
  /\ Len(s) \in Nat /\ Len(t) \in Nat
  /\ Len(w) = Len(s) + Len(t)
  /\ \A i \in 1 .. Len(s) : w[i] = s[i]
  /\ \A i \in 1 .. Len(t) : w[Len(s) + i] = t[i]

LEMMA SliceAt ==
  ASSUME NEW s \in Seq(Byte), NEW a \in Nat, NEW b \in Nat, a <= b, b <= Len(s)
  PROVE  IsSlice(Slice(s, a, b), s, a, b)
<1>1. a + 1 \in 1 .. Len(s) + 1 /\ b \in a .. Len(s)
  OBVIOUS
<1>2. \A i \in a + 1 .. b : s[i] \in Byte
  BY <1>1
<1>3. /\ SubSeq(s, a + 1, b) \in Seq(Byte)
      /\ Len(SubSeq(s, a + 1, b)) = b - a
      /\ \A i \in 1 .. b - a : SubSeq(s, a + 1, b)[i] = s[a + i]
  BY <1>1, <1>2, SubSeqProperties
<1>4. \A i \in 1 .. b - a : a + i \in 1 .. Len(s)
  BY <1>1
<1>5. QED
  BY <1>3, <1>4 DEF Slice, IsSlice

LEMMA ConcatAt ==
  ASSUME NEW s \in Seq(Byte), NEW t \in Seq(Byte)
  PROVE  IsConcat(s \o t, s, t)
BY DEF IsConcat

LEMMA LenType ==
  ASSUME NEW s \in Seq(Byte)
  PROVE  Len(s) \in Nat
OBVIOUS

(* Sequences of the same length and elements are the same.                 *)
LEMMA SameAt ==
  ASSUME NEW s \in Seq(Byte), NEW t \in Seq(Byte), Len(s) = Len(t),
         \A i \in 1 .. Len(s) : s[i] = t[i]
  PROVE  s = t
OBVIOUS

LEMMA SlicesSame ==
  ASSUME NEW d, NEW e, NEW s, NEW a \in Nat, NEW b \in Nat,
         IsSlice(d, s, a, b), IsSlice(e, s, a, b)
  PROVE  d = e
<1>1. /\ d \in Seq(Byte) /\ e \in Seq(Byte) /\ Len(d) = Len(e)
      /\ \A i \in 1 .. Len(d) : d[i] = e[i]
  BY DEF IsSlice
<1>2. QED
  BY <1>1, SameAt

(* A slice of a slice.                                                     *)
LEMMA SliceOfSlice ==
  ASSUME NEW s \in Seq(Byte), NEW a \in Nat, NEW b \in Nat, a <= b, b <= Len(s),
         NEW i \in Nat, NEW j \in Nat, i <= j, j <= b - a
  PROVE  Slice(Slice(s, a, b), i, j) = Slice(s, a + i, a + j)
<1>1. PICK d : d = Slice(s, a, b)
  OBVIOUS
<1>2. IsSlice(d, s, a, b)
  BY <1>1, SliceAt, Zenon
<1>3. PICK m \in Nat, n \in Nat : m = a + i /\ n = a + j
  OBVIOUS
<1>4. m <= n /\ n <= Len(s) /\ j <= Len(d) /\ d \in Seq(Byte) /\ n - m = j - i
  BY <1>2, <1>3 DEF IsSlice
<1>5. IsSlice(Slice(s, m, n), s, m, n)
  BY <1>4, SliceAt, Zenon
<1>6. PICK u : u = Slice(d, i, j)
  OBVIOUS
<1>7. IsSlice(u, d, i, j)
  BY <1>4, <1>6, SliceAt, Zenon
<1>8. IsSlice(u, s, m, n)
  <2>1. u \in Seq(Byte) /\ Len(u) = n - m
    BY <1>4, <1>7 DEF IsSlice
  <2>2. ASSUME NEW k \in 1 .. n - m PROVE u[k] = s[m + k] /\ m + k \in 1 .. Len(s)
    <3>1. k \in 1 .. j - i /\ i + k \in 1 .. b - a /\ a + (i + k) = m + k
      BY <1>3, <1>4
    <3>2. u[k] = d[i + k]
      BY <1>7, <3>1 DEF IsSlice
    <3>3. d[i + k] = s[a + (i + k)] /\ a + (i + k) \in 1 .. Len(s)
      BY <1>2, <3>1, Zenon DEF IsSlice
    <3>4. QED
      BY <3>1, <3>2, <3>3, Zenon
  <2>3. QED
    BY <2>1, <2>2 DEF IsSlice
<1>9. u = Slice(s, m, n)
  BY <1>5, <1>8, SlicesSame, Zenon
<1>10. QED
  BY <1>1, <1>3, <1>6, <1>9, Zenon

(* What is added at the end belongs to the slice up to the end.            *)
LEMMA SliceLonger ==
  ASSUME NEW s \in Seq(Byte), NEW t \in Seq(Byte), NEW a \in Nat, a <= Len(s)
  PROVE  Slice(s, a, Len(s)) \o t = Slice(s \o t, a, Len(s \o t))
<1>1. PICK w : w = s \o t
  OBVIOUS
<1>2. IsConcat(w, s, t)
  BY <1>1, ConcatAt, Zenon
<1>3. PICK m \in Nat : m = Len(s)
  BY LenType
<1>4. PICK n \in Nat : n = Len(w)
  BY <1>2, LenType DEF IsConcat
<1>5. w \in Seq(Byte) /\ Len(t) \in Nat /\ n = m + Len(t) /\ a <= m /\ a <= n
      /\ m <= Len(s) /\ n <= Len(w)
  BY <1>2, <1>3, <1>4 DEF IsConcat
<1>6. PICK d : d = Slice(s, a, m)
  OBVIOUS
<1>7. IsSlice(d, s, a, m) /\ d \in Seq(Byte)
  <2>1. IsSlice(d, s, a, m)
    BY <1>5, <1>6, SliceAt, Zenon
  <2>2. QED
    BY <2>1, Zenon DEF IsSlice
<1>8. PICK u : u = d \o t
  OBVIOUS
<1>9. IsConcat(u, d, t)
  BY <1>7, <1>8, ConcatAt, Zenon
<1>10. IsSlice(Slice(w, a, n), w, a, n)
  BY <1>5, SliceAt, Zenon
<1>11. IsSlice(u, w, a, n)
  <2>1. u \in Seq(Byte) /\ Len(u) = n - a /\ Len(d) = m - a
    BY <1>5, <1>7, <1>9 DEF IsSlice, IsConcat
  <2>2. ASSUME NEW i \in 1 .. n - a PROVE u[i] = w[a + i] /\ a + i \in 1 .. Len(w)
    <3>1. a + i \in 1 .. Len(w)
      BY <1>4, <1>5
    <3>2. CASE i <= m - a
      <4>1. i \in 1 .. m - a /\ i \in 1 .. Len(d)
        BY <2>1, <3>2
      <4>2. u[i] = d[i] /\ d[i] = s[a + i] /\ a + i \in 1 .. Len(s)
        BY <1>7, <1>9, <4>1, Zenon DEF IsSlice, IsConcat
      <4>3. w[a + i] = s[a + i]
        BY <1>2, <4>2, Zenon DEF IsConcat
      <4>4. QED
        BY <3>1, <4>2, <4>3, Zenon
    <3>3. CASE ~(i <= m - a)
      <4>1. PICK k \in 1 .. Len(t) : Len(d) + k = i /\ Len(s) + k = a + i
        <5>1. i - (m - a) \in 1 .. Len(t) /\ Len(d) + (i - (m - a)) = i
              /\ Len(s) + (i - (m - a)) = a + i
          BY <1>3, <1>5, <2>1, <3>3
        <5>2. QED
          BY <5>1
      <4>2. u[Len(d) + k] = t[k] /\ w[Len(s) + k] = t[k]
        BY <1>2, <1>9, Zenon DEF IsConcat
      <4>3. QED
        BY <3>1, <4>1, <4>2, Zenon
    <3>4. QED
      BY <3>2, <3>3
  <2>3. QED
    BY <2>1, <2>2 DEF IsSlice
<1>12. u = Slice(w, a, n)
  BY <1>10, <1>11, SlicesSame, Zenon
<1>13. QED
  BY <1>1, <1>3, <1>4, <1>6, <1>8, <1>12, Zenon

(* A slice sees only what it covers.                                       *)
LEMMA SliceBefore ==
  ASSUME NEW s \in Seq(Byte), NEW t \in Seq(Byte), Len(s) <= Len(t),
         NEW a \in Nat, NEW b \in Nat, a <= b, b <= Len(s),
         \A i \in 1 .. b : s[i] = t[i]
  PROVE  Slice(s, a, b) = Slice(t, a, b)
<1>1. b <= Len(t)
  OBVIOUS
<1>2. IsSlice(Slice(s, a, b), s, a, b)
  BY SliceAt, Zenon
<1>3. IsSlice(Slice(t, a, b), t, a, b)
  BY <1>1, SliceAt, Zenon
<1>4. PICK u, v : u = Slice(s, a, b) /\ v = Slice(t, a, b)
  OBVIOUS
<1>5. \A i \in 1 .. b - a : a + i \in 1 .. b
  OBVIOUS
<1>6. \A i \in 1 .. b - a : a + i \in 1 .. Len(t)
  BY <1>1
<1>7. IsSlice(u, t, a, b)
  <2>1. IsSlice(u, s, a, b)
    BY <1>2, <1>4, Zenon
  <2>2. QED
    BY <1>5, <1>6, <2>1 DEF IsSlice
<1>8. u = v
  <2>1. IsSlice(v, t, a, b)
    BY <1>3, <1>4, Zenon
  <2>2. QED
    BY <1>7, <2>1, SlicesSame, Zenon
<1>9. QED
  BY <1>4, <1>8, Zenon

(* What comes last is a suffix.                                            *)
LEMMA SliceIsSuffix ==
  ASSUME NEW s \in Seq(Byte), NEW a \in Nat, a <= Len(s)
  PROVE  IsSuffix(Slice(s, a, Len(s)), s)
<1>1. PICK m \in Nat : m = Len(s)
  BY LenType
<1>2. PICK d : d = Slice(s, a, m)
  OBVIOUS
<1>3. m <= Len(s) /\ a <= m
  BY <1>1
<1>4. IsSlice(d, s, a, m)
  BY <1>2, <1>3, SliceAt, Zenon
<1>5. PICK n \in Nat : n = m - a
  BY <1>3
<1>6. d \in Seq(Byte) /\ Len(d) = n /\ n <= m
  BY <1>1, <1>4, <1>5 DEF IsSlice
<1>7. PICK rs, rd : rs = Reverse(s) /\ rd = Reverse(d)
  OBVIOUS
<1>8. rs \in Seq(Byte) /\ Len(rs) = m /\ \A i \in 1 .. m : rs[i] = s[m - i + 1]
  BY <1>1, <1>7 DEF Reverse
<1>9. rd \in Seq(Byte) /\ Len(rd) = n /\ \A i \in 1 .. n : rd[i] = d[n - i + 1]
  BY <1>6, <1>7 DEF Reverse
<1>10. ASSUME NEW i \in 1 .. n PROVE rd[i] = rs[i]
  <2>1. /\ n - i + 1 \in 1 .. m - a /\ a + (n - i + 1) = m - i + 1 /\ i \in 1 .. m
    BY <1>3, <1>5
  <2>2. d[n - i + 1] = s[a + (n - i + 1)]
    BY <1>4, <2>1, Zenon DEF IsSlice
  <2>3. rd[i] = d[n - i + 1] /\ rs[i] = s[m - i + 1]
    BY <1>8, <1>9, <2>1
  <2>4. QED
    BY <2>1, <2>2, <2>3, Zenon
<1>11. Slice(rd, 0, n) = Slice(rs, 0, n)
  <2>1. /\ rd \in Seq(Byte) /\ rs \in Seq(Byte)
        /\ 0 \in Nat /\ 0 <= n /\ n <= Len(rd) /\ Len(rd) <= Len(rs)
    BY <1>6, <1>8, <1>9
  <2>2. \A i \in 1 .. n : rd[i] = rs[i]
    BY <1>10
  <2>3. QED
    BY <2>1, <2>2, SliceBefore, SMT
<1>12. SubSeq(rd, 1, n) = SubSeq(rs, 1, n)
  <2>1. 0 + 1 = 1
    OBVIOUS
  <2>2. QED
    BY <1>11, <2>1, Zenon DEF Slice
<1>13. IsPrefix(rd, rs)
  <2>1. Len(rd) <= Len(rs)
    BY <1>6, <1>8, <1>9
  <2>2. QED
    BY <1>9, <1>12, <2>1, Zenon DEF IsPrefix
<1>14. QED
  BY <1>1, <1>2, <1>7, <1>13, Zenon DEF IsSuffix

-----------------------------------------------------------------------------
(* The bytes of several reads in a row.                                    *)

FlatStep(g, q, i) == IF i = 1 THEN q[i] ELSE g[i - 1] \o q[i]

Flats(g, q, n) == g = [i \in 1 .. n |-> FlatStep(g, q, i)]

Flat(q) == CHOOSE g : Flats(g, q, Len(q))

Reads == Seq(Seq(Byte))

(* FlattenSeq is defined by recursion: there is such a function,           *)
LEMMA FlatExists ==
  ASSUME NEW q
  PROVE  \A n \in Nat : \E g : Flats(g, q, n)
<1> DEFINE T == {n \in Nat : \E g : Flats(g, q, n)}
<1>1. 0 \in T
  <2>1. 1 .. 0 = {}
    OBVIOUS
  <2>2. PICK g : g = [i \in {} |-> q]
    OBVIOUS
  <2>3. [i \in {} |-> q] = [i \in {} |-> FlatStep(g, q, i)]
    OBVIOUS
  <2>4. g = [i \in 1 .. 0 |-> FlatStep(g, q, i)]
    BY <2>1, <2>2, <2>3, Zenon
  <2>5. QED
    BY <2>4 DEF Flats
<1>2. ASSUME NEW n \in Nat, n \in T PROVE n + 1 \in T
  <2>1. PICK g : g = [i \in 1 .. n |-> FlatStep(g, q, i)]
    BY <1>2 DEF Flats
  <2>2. PICK h : h = [i \in 1 .. n + 1 |-> FlatStep(g, q, i)]
    OBVIOUS
  <2>3. \A i \in 1 .. n + 1 : i = 1 \/ (i - 1 \in 1 .. n /\ i - 1 \in 1 .. n + 1)
    OBVIOUS
  <2>4. \A i \in 1 .. n : g[i] = FlatStep(g, q, i)
    BY <2>1, Zenon
  <2>5. \A i \in 1 .. n + 1 : h[i] = FlatStep(g, q, i)
    BY <2>2, Zenon
  <2>6. \A i \in 1 .. n + 1 : FlatStep(h, q, i) = FlatStep(g, q, i)
    BY <2>3, <2>4, <2>5, Zenon DEF FlatStep
  <2>7. h = [i \in 1 .. n + 1 |-> FlatStep(h, q, i)]
    BY <2>2, <2>6, Zenon
  <2>8. QED
    BY <2>7 DEF Flats
<1>3. Nat \subseteq T
  <2> HIDE DEF T
  <2>1. QED
    BY <1>1, <1>2, Induction
<1>4. QED
  BY <1>3

LEMMA FlatAt ==
  ASSUME NEW q \in Reads
  PROVE  \A i \in 1 .. Len(q) : Flat(q)[i] = FlatStep(Flat(q), q, i)
<1>1. Len(q) \in Nat
  BY DEF Reads
<1>2. \E g : Flats(g, q, Len(q))
  BY <1>1, FlatExists
<1>3. Flats(Flat(q), q, Len(q))
  BY <1>2, Zenon DEF Flat
<1>4. QED
  BY <1>3, Zenon DEF Flats

(* whose last value is the whole.                                          *)
LEMMA FlatLast ==
  ASSUME NEW q \in Reads
  PROVE  FlattenSeq(q) = IF Len(q) = 0 THEN <<>> ELSE Flat(q)[Len(q)]
<1>1. CASE Len(q) = 0
  <2>1. q = <<>>
    BY <1>1 DEF Reads
  <2>2. FlattenSeq(q) = q
    BY <1>1, Zenon DEF FlattenSeq
  <2>3. QED
    BY <1>1, <2>1, <2>2, Zenon
<1>2. CASE Len(q) # 0
  <2>1. FlattenSeq(q) = Flat(q)[Len(q)]
    BY <1>2, Zenon DEF FlattenSeq, Flat, Flats, FlatStep
  <2>2. QED
    BY <1>2, <2>1, Zenon
<1>3. QED
  BY <1>1, <1>2

LEMMA FlatType ==
  ASSUME NEW q \in Reads
  PROVE  \A i \in 1 .. Len(q) : Flat(q)[i] \in Seq(Byte)
<1> DEFINE T == {n \in Nat : n + 1 \in 1 .. Len(q) => Flat(q)[n + 1] \in Seq(Byte)}
<1>1. Len(q) \in Nat /\ \A i \in 1 .. Len(q) : q[i] \in Seq(Byte)
  BY DEF Reads
<1>2. 0 \in T
  <2>1. 1 \in 1 .. Len(q) => Flat(q)[1] = q[1]
    BY FlatAt DEF FlatStep
  <2>2. QED
    BY <1>1, <2>1
<1>3. ASSUME NEW n \in Nat, n \in T PROVE n + 1 \in T
  <2>1. SUFFICES ASSUME (n + 1) + 1 \in 1 .. Len(q) PROVE Flat(q)[(n + 1) + 1] \in Seq(Byte)
    OBVIOUS
  <2>2. PICK k \in 1 .. Len(q) : k = (n + 1) + 1 /\ k # 1 /\ k - 1 = n + 1 /\ n + 1 \in 1 .. Len(q)
    BY <1>1, <2>1
  <2>3. PICK f \in Seq(Byte), c \in Seq(Byte) : f = Flat(q)[n + 1] /\ c = q[k]
    BY <1>1, <1>3, <2>2
  <2>4. Flat(q)[k] = f \o c
    BY <2>2, <2>3, FlatAt, Zenon DEF FlatStep
  <2>5. f \o c \in Seq(Byte)
    OBVIOUS
  <2>6. QED
    BY <2>2, <2>4, <2>5, Zenon
<1>4. Nat \subseteq T
  <2> HIDE DEF T
  <2>1. QED
    BY <1>2, <1>3, Induction
<1>5. ASSUME NEW i \in 1 .. Len(q) PROVE Flat(q)[i] \in Seq(Byte)
  <2>1. i - 1 \in Nat /\ (i - 1) + 1 = i
    BY <1>1
  <2>2. QED
    BY <1>4, <2>1
<1>6. QED
  BY <1>5

(* The reads up to the j-th.                                               *)
LEMMA FlatPrefix ==
  ASSUME NEW q \in Reads, NEW p \in Reads, Len(q) <= Len(p), \A i \in 1 .. Len(q) : q[i] = p[i]
  PROVE  \A i \in 1 .. Len(q) : Flat(q)[i] = Flat(p)[i]
<1> DEFINE T == {n \in Nat : n + 1 \in 1 .. Len(q) => Flat(q)[n + 1] = Flat(p)[n + 1]}
<1>1. Len(q) \in Nat /\ Len(p) \in Nat /\ \A i \in 1 .. Len(q) : i \in 1 .. Len(p)
  BY DEF Reads
<1>2. 0 \in T
  <2>1. ASSUME 1 \in 1 .. Len(q) PROVE Flat(q)[1] = Flat(p)[1]
    <3>1. Flat(q)[1] = q[1] /\ Flat(p)[1] = p[1]
      BY <1>1, <2>1, FlatAt, Zenon DEF FlatStep
    <3>2. QED
      BY <2>1, <3>1
  <2>2. QED
    BY <2>1
<1>3. ASSUME NEW n \in Nat, n \in T PROVE n + 1 \in T
  <2>1. SUFFICES ASSUME (n + 1) + 1 \in 1 .. Len(q)
                 PROVE  Flat(q)[(n + 1) + 1] = Flat(p)[(n + 1) + 1]
    OBVIOUS
  <2>2. PICK k \in 1 .. Len(q) : k = (n + 1) + 1 /\ k # 1 /\ k - 1 = n + 1 /\ n + 1 \in 1 .. Len(q)
    BY <1>1, <2>1
  <2>3. Flat(q)[k - 1] = Flat(p)[k - 1] /\ q[k] = p[k] /\ k \in 1 .. Len(p)
    BY <1>1, <1>3, <2>2
  <2>4. Flat(q)[k] = Flat(q)[k - 1] \o q[k] /\ Flat(p)[k] = Flat(p)[k - 1] \o p[k]
    BY <2>2, <2>3, FlatAt, Zenon DEF FlatStep
  <2>5. QED
    BY <2>2, <2>3, <2>4, Zenon
<1>4. Nat \subseteq T
  <2> HIDE DEF T
  <2>1. QED
    BY <1>2, <1>3, Induction
<1>5. ASSUME NEW i \in 1 .. Len(q) PROVE Flat(q)[i] = Flat(p)[i]
  <2>1. i - 1 \in Nat /\ (i - 1) + 1 = i
    BY <1>1
  <2>2. QED
    BY <1>4, <2>1
<1>6. QED
  BY <1>5

(* One more read adds its bytes.                                           *)
LEMMA FlattenAppend ==
  ASSUME NEW q \in Reads, NEW c \in Seq(Byte)
  PROVE  /\ Append(q, c) \in Reads
         /\ FlattenSeq(q) \in Seq(Byte)
         /\ FlattenSeq(Append(q, c)) = FlattenSeq(q) \o c
<1>1. PICK p : p = Append(q, c)
  OBVIOUS
<1>2. PICK n \in Nat : n = Len(q)
  BY DEF Reads
<1>3. p \in Reads /\ Len(p) = n + 1 /\ p[n + 1] = c /\ \A i \in 1 .. n : p[i] = q[i]
  BY <1>1, <1>2 DEF Reads
<1>4. n + 1 \in 1 .. n + 1 /\ (n + 1) - 1 = n /\ n + 1 # 0 /\ n <= n + 1
  OBVIOUS
<1>5. FlattenSeq(p) = Flat(p)[n + 1]
  BY <1>3, <1>4, FlatLast, Zenon
<1>6. Flat(p)[n + 1] = FlatStep(Flat(p), p, n + 1)
  BY <1>3, <1>4, FlatAt, Zenon
<1>7. CASE n = 0
  <2>1. FlattenSeq(q) = <<>>
    BY <1>2, <1>7, FlatLast, Zenon
  <2>2. FlatStep(Flat(p), p, n + 1) = c
    BY <1>3, <1>7 DEF FlatStep
  <2>3. <<>> \o c = c /\ <<>> \in Seq(Byte)
    OBVIOUS
  <2>4. QED
    BY <1>1, <1>3, <1>5, <1>6, <2>1, <2>2, <2>3, Zenon
<1>8. CASE n # 0
  <2>1. FlattenSeq(q) = Flat(q)[n]
    BY <1>2, <1>8, FlatLast, Zenon
  <2>2. n \in 1 .. n /\ n + 1 # 1
    BY <1>8
  <2>3. Flat(q)[n] \in Seq(Byte)
    BY <1>2, <2>2, FlatType, Zenon
  <2>4. Flat(p)[n] = Flat(q)[n]
    <3>1. Len(q) <= Len(p) /\ \A i \in 1 .. Len(q) : q[i] = p[i]
      BY <1>2, <1>3
    <3>2. \A i \in 1 .. Len(q) : Flat(q)[i] = Flat(p)[i]
      BY <1>3, <3>1, FlatPrefix, Zenon
    <3>3. QED
      BY <1>2, <2>2, <3>2, Zenon
  <2>5. FlatStep(Flat(p), p, n + 1) = Flat(p)[n] \o c
    BY <1>3, <1>4, <2>2, Zenon DEF FlatStep
  <2>6. QED
    BY <1>1, <1>3, <1>5, <1>6, <2>1, <2>3, <2>4, <2>5, Zenon
<1>9. QED
  BY <1>7, <1>8

-----------------------------------------------------------------------------
(* Markers.                                                                *)

IsMark(s, i, code) ==
  /\ i \in Nat /\ i + 2 <= Len(s)
  /\ s[i + 1] = FF /\ s[i + 2] = code

IsFirst(m, s, p, code) ==
  /\ p <= m /\ IsMark(s, m, code)
  /\ \A i \in Nat : p <= i /\ IsMark(s, i, code) => m <= i

LEMMA MarkIn ==
  ASSUME NEW s \in Seq(Byte), NEW p \in Nat, NEW code
  PROVE  /\ Marks(s, p, code) \subseteq Nat
         /\ \A i \in Nat : i \in Marks(s, p, code) <=> p <= i /\ IsMark(s, i, code)
<1>1. Len(s) \in Nat
  OBVIOUS
<1>2. Marks(s, p, code) \subseteq Nat
  <2>1. p .. Len(s) - 2 \subseteq Nat
    BY <1>1
  <2>2. QED
    BY <2>1, Zenon DEF Marks
<1>3. ASSUME NEW i \in Nat
      PROVE  i \in Marks(s, p, code) <=> p <= i /\ IsMark(s, i, code)
  <2>1. i \in p .. Len(s) - 2 <=> p <= i /\ i + 2 <= Len(s)
    BY <1>1
  <2>2. QED
    BY <2>1, Zenon DEF Marks, IsMark
<1>4. QED
  BY <1>2, <1>3

LEMMA NoMark ==
  ASSUME NEW s \in Seq(Byte), NEW p \in Nat, NEW code
  PROVE  Marks(s, p, code) = {} <=> \A i \in Nat : ~(p <= i /\ IsMark(s, i, code))
BY MarkIn, Zenon

LEMMA FirstMark ==
  ASSUME NEW s \in Seq(Byte), NEW p \in Nat, NEW code, Marks(s, p, code) # {}
  PROVE  /\ First(Marks(s, p, code)) \in Nat
         /\ IsFirst(First(Marks(s, p, code)), s, p, code)
<1>1. Marks(s, p, code) \subseteq Nat
  BY MarkIn, Zenon
<1>2. /\ First(Marks(s, p, code)) \in Marks(s, p, code)
      /\ \A k \in Marks(s, p, code) : First(Marks(s, p, code)) <= k
  BY <1>1, FirstIn, Zenon
<1>3. First(Marks(s, p, code)) \in Nat
  BY <1>1, <1>2, Zenon
<1>4. QED
  BY <1>2, <1>3, MarkIn, Zenon DEF IsFirst

LEMMA FirstMarkIs ==
  ASSUME NEW s \in Seq(Byte), NEW p \in Nat, NEW code, NEW m \in Nat, IsFirst(m, s, p, code)
  PROVE  Marks(s, p, code) # {} /\ First(Marks(s, p, code)) = m
<1>1. Marks(s, p, code) \subseteq Nat
  BY MarkIn, Zenon
<1>2. m \in Marks(s, p, code)
  BY MarkIn, Zenon DEF IsFirst
<1>3. \A k \in Marks(s, p, code) : m <= k
  BY <1>1, MarkIn, Zenon DEF IsFirst
<1>4. First(Marks(s, p, code)) = m
  BY <1>1, <1>2, <1>3, FirstIs, Zenon
<1>5. QED
  BY <1>2, <1>4, Zenon

(* The markers of the end of a stream are markers of the stream.           *)
LEMMA ShiftMark ==
  ASSUME NEW s \in Seq(Byte), NEW a \in Nat, a <= Len(s), NEW i \in Nat, NEW code
  PROVE  IsMark(Slice(s, a, Len(s)), i, code) <=> IsMark(s, a + i, code)
<1>1. PICK n \in Nat : n = Len(s)
  BY LenType
<1>2. PICK d : d = Slice(s, a, n)
  OBVIOUS
<1>3. a <= n /\ n <= Len(s)
  BY <1>1
<1>4. IsSlice(d, s, a, n)
  BY <1>2, <1>3, SliceAt, Zenon
<1>5. Len(d) = n - a
  BY <1>4, Zenon DEF IsSlice
<1>6. i + 2 <= Len(d) <=> (a + i) + 2 <= n
  BY <1>3, <1>5
<1>7. ASSUME i + 2 <= Len(d)
      PROVE  d[i + 1] = s[(a + i) + 1] /\ d[i + 2] = s[(a + i) + 2]
  <2>1. i + 1 \in 1 .. n - a /\ i + 2 \in 1 .. n - a
        /\ a + (i + 1) = (a + i) + 1 /\ a + (i + 2) = (a + i) + 2
    BY <1>3, <1>5, <1>7
  <2>2. d[i + 1] = s[a + (i + 1)] /\ d[i + 2] = s[a + (i + 2)]
    BY <1>4, <2>1, Zenon DEF IsSlice
  <2>3. QED
    BY <2>1, <2>2, Zenon
<1>8. a + i \in Nat
  OBVIOUS
<1>9. IsMark(d, i, code) <=> IsMark(s, a + i, code)
  BY <1>1, <1>6, <1>7, <1>8, Zenon DEF IsMark
<1>10. QED
  BY <1>1, <1>2, <1>9, Zenon

LEMMA ShiftMarks ==
  ASSUME NEW s \in Seq(Byte), NEW a \in Nat, a <= Len(s), NEW p \in Nat, NEW code
  PROVE  LET d == Slice(s, a, Len(s))
         IN  /\ Marks(d, p, code) = {} <=> Marks(s, a + p, code) = {}
             /\ Marks(d, p, code) # {} =>
                  a + First(Marks(d, p, code)) = First(Marks(s, a + p, code))
<1>1. PICK d : d = Slice(s, a, Len(s))
  OBVIOUS
<1>2. d \in Seq(Byte)
  <2>1. IsSlice(Slice(s, a, Len(s)), s, a, Len(s))
    <3>1. Len(s) \in Nat /\ Len(s) <= Len(s)
      OBVIOUS
    <3>2. QED
      BY <3>1, SliceAt, Zenon
  <2>2. QED
    BY <1>1, <2>1, Zenon DEF IsSlice
<1>3. \A i \in Nat : IsMark(d, i, code) <=> IsMark(s, a + i, code)
  BY <1>1, ShiftMark, Zenon
<1>4. a + p \in Nat
  OBVIOUS
<1>5. CASE Marks(d, p, code) = {}
  <2>1. \A i \in Nat : ~(p <= i /\ IsMark(d, i, code))
    BY <1>2, <1>5, NoMark, Zenon
  <2>2. ASSUME NEW k \in Nat, a + p <= k, IsMark(s, k, code) PROVE FALSE
    <3>1. PICK i \in Nat : a + i = k /\ p <= i
      <4>1. k - a \in Nat /\ a + (k - a) = k /\ p <= k - a
        BY <2>2
      <4>2. QED
        BY <4>1
    <3>2. IsMark(d, i, code)
      BY <1>3, <2>2, <3>1, Zenon
    <3>3. QED
      BY <2>1, <3>1, <3>2, Zenon
  <2>3. Marks(s, a + p, code) = {}
    BY <1>4, <2>2, NoMark, Zenon
  <2>4. QED
    BY <1>1, <1>5, <2>3, Zenon
<1>6. CASE Marks(d, p, code) # {}
  <2>1. PICK m \in Nat : m = First(Marks(d, p, code)) /\ IsFirst(m, d, p, code)
    BY <1>2, <1>6, FirstMark, Zenon
  <2>2. p <= m /\ IsMark(s, a + m, code) /\ \A i \in Nat : p <= i /\ IsMark(d, i, code) => m <= i
    BY <1>3, <2>1, Zenon DEF IsFirst
  <2>3. a + m \in Nat /\ a + p <= a + m
    BY <2>2
  <2>4. ASSUME NEW k \in Nat, a + p <= k, IsMark(s, k, code) PROVE a + m <= k
    <3>1. PICK i \in Nat : a + i = k /\ p <= i
      <4>1. k - a \in Nat /\ a + (k - a) = k /\ p <= k - a
        BY <2>4
      <4>2. QED
        BY <4>1
    <3>2. m <= i
      BY <1>3, <2>2, <2>4, <3>1, Zenon
    <3>3. QED
      BY <3>1, <3>2
  <2>5. IsFirst(a + m, s, a + p, code)
    BY <2>2, <2>3, <2>4, Zenon DEF IsFirst
  <2>6. Marks(s, a + p, code) # {} /\ First(Marks(s, a + p, code)) = a + m
    BY <1>4, <2>3, <2>5, FirstMarkIs, Zenon
  <2>7. QED
    BY <1>1, <1>6, <2>1, <2>6, Zenon
<1>7. QED
  BY <1>5, <1>6, Zenon

(* A stream that goes on keeps its markers, and the first stays first.     *)
LEMMA LongerMark ==
  ASSUME NEW s \in Seq(Byte), NEW e \in Seq(Byte), NEW i \in Nat, NEW code, i + 2 <= Len(s)
  PROVE  IsMark(s \o e, i, code) <=> IsMark(s, i, code)
<1>1. PICK u : u = s \o e
  OBVIOUS
<1>2. IsConcat(u, s, e)
  BY <1>1, ConcatAt, Zenon
<1>3. Len(s) \in Nat /\ Len(e) \in Nat /\ Len(u) = Len(s) + Len(e)
  BY <1>2, Zenon DEF IsConcat
<1>4. i + 1 \in 1 .. Len(s) /\ i + 2 \in 1 .. Len(s) /\ i + 2 <= Len(u)
  BY <1>3
<1>5. u[i + 1] = s[i + 1] /\ u[i + 2] = s[i + 2]
  BY <1>2, <1>4, Zenon DEF IsConcat
<1>6. IsMark(u, i, code) <=> IsMark(s, i, code)
  BY <1>4, <1>5, Zenon DEF IsMark
<1>7. QED
  BY <1>1, <1>6, Zenon

SameFirst(u, s, p, code) ==
  /\ Marks(u, p, code) # {}
  /\ First(Marks(u, p, code)) = First(Marks(s, p, code))

LEMMA LongerMarks ==
  ASSUME NEW s \in Seq(Byte), NEW e \in Seq(Byte), NEW p \in Nat, NEW code,
         Marks(s, p, code) # {}
  PROVE  SameFirst(s \o e, s, p, code)
<1>1. PICK u \in Seq(Byte) : u = s \o e
  <2>1. IsConcat(s \o e, s, e)
    BY ConcatAt, Zenon
  <2>2. QED
    BY <2>1, Zenon DEF IsConcat
<1>2. PICK m \in Nat : m = First(Marks(s, p, code)) /\ IsFirst(m, s, p, code)
  BY FirstMark, Zenon
<1>3. \A i \in Nat : i + 2 <= Len(s) => (IsMark(u, i, code) <=> IsMark(s, i, code))
  BY <1>1, LongerMark, Zenon
<1>4. p <= m /\ m + 2 <= Len(s) /\ IsMark(u, m, code)
      /\ \A i \in Nat : p <= i /\ IsMark(s, i, code) => m <= i
  BY <1>2, <1>3, Zenon DEF IsFirst, IsMark
<1>5. ASSUME NEW i \in Nat, p <= i, IsMark(u, i, code) PROVE m <= i
  <2>1. CASE i + 2 <= Len(s)
    BY <1>3, <1>4, <1>5, <2>1, Zenon
  <2>2. CASE ~(i + 2 <= Len(s))
    <3>1. Len(s) \in Nat
      BY LenType
    <3>2. QED
      BY <1>4, <2>2, <3>1
  <2>3. QED
    BY <2>1, <2>2
<1>6. IsFirst(m, u, p, code)
  BY <1>4, <1>5, Zenon DEF IsFirst
<1>7. Marks(u, p, code) # {} /\ First(Marks(u, p, code)) = m
  BY <1>6, FirstMarkIs, Zenon
<1>8. QED
  BY <1>1, <1>2, <1>7, Zenon DEF SameFirst

-----------------------------------------------------------------------------
(* The images from a place on.                                             *)

Whole(s, p) ==
  Marks(s, p, SOI) # {} /\ Marks(s, First(Marks(s, p, SOI)), EOI) # {}

Behind(s, p) == First(Marks(s, First(Marks(s, p, SOI)), EOI)) + 2

AfterStep(g, s, p) ==
  LET starts == Marks(s, p, SOI)
      ends   == Marks(s, First(starts), EOI)
  IN  IF starts = {} \/ ends = {} THEN <<>>
      ELSE <<Slice(s, First(starts), First(ends) + 2)>> \o g[First(ends) + 2]

Afters(g, s, a) == g = [p \in a .. Len(s) |-> AfterStep(g, s, p)]

After(s) == CHOOSE g : Afters(g, s, 0)

LEMMA NotWhole ==
  ASSUME NEW g, NEW s, NEW p, ~Whole(s, p)
  PROVE  AfterStep(g, s, p) = <<>>
BY Zenon DEF AfterStep, Whole

LEMMA IfWhole ==
  ASSUME NEW g, NEW s, NEW p, Whole(s, p)
  PROVE  AfterStep(g, s, p) = <<Slice(s, First(Marks(s, p, SOI)), Behind(s, p))>>
                                \o g[Behind(s, p)]
BY Zenon DEF AfterStep, Whole, Behind

(* An image ends behind the place where its search began.                  *)
LEMMA BehindLater ==
  ASSUME NEW s \in Seq(Byte), NEW p \in Nat, Whole(s, p)
  PROVE  /\ First(Marks(s, p, SOI)) \in Nat
         /\ Behind(s, p) \in Nat
         /\ p <= First(Marks(s, p, SOI))
         /\ First(Marks(s, p, SOI)) <= Behind(s, p)
         /\ p < Behind(s, p) /\ Behind(s, p) <= Len(s)
<1>1. Marks(s, p, SOI) # {} /\ Marks(s, First(Marks(s, p, SOI)), EOI) # {}
  BY Zenon DEF Whole
<1>2. PICK m \in Nat : m = First(Marks(s, p, SOI)) /\ IsFirst(m, s, p, SOI)
  BY <1>1, FirstMark, Zenon
<1>3. PICK n \in Nat : n = First(Marks(s, m, EOI)) /\ IsFirst(n, s, m, EOI)
  BY <1>1, <1>2, FirstMark, Zenon
<1>4. p <= m /\ m <= n /\ n + 2 <= Len(s)
  BY <1>2, <1>3, Zenon DEF IsFirst, IsMark
<1>5. Behind(s, p) = n + 2
  BY <1>2, <1>3, Zenon DEF Behind
<1>6. n + 2 \in Nat /\ m <= n + 2 /\ p < n + 2
  BY <1>4
<1>7. QED
  BY <1>2, <1>4, <1>5, <1>6, Zenon

(* ImagesOf is defined by recursion: there is such a function.             *)
LEMMA AfterExists ==
  ASSUME NEW s \in Seq(Byte)
  PROVE  \E g : Afters(g, s, 0)
<1> DEFINE T == {n \in Nat : \A a \in Nat : a + n = Len(s) + 1 => \E g : Afters(g, s, a)}
<1>1. PICK l \in Nat : l = Len(s)
  BY LenType
<1>2. 0 \in T
  <2>1. ASSUME NEW a \in Nat, a + 0 = Len(s) + 1 PROVE \E g : Afters(g, s, a)
    <3>1. a .. Len(s) = {}
      BY <1>1, <2>1
    <3>2. PICK g : g = [p \in {} |-> s]
      OBVIOUS
    <3>3. [p \in {} |-> s] = [p \in {} |-> AfterStep(g, s, p)]
      OBVIOUS
    <3>4. g = [p \in a .. Len(s) |-> AfterStep(g, s, p)]
      BY <3>1, <3>2, <3>3, Zenon
    <3>5. QED
      BY <3>4 DEF Afters
  <2>2. QED
    BY <2>1
<1>3. ASSUME NEW n \in Nat, n \in T PROVE n + 1 \in T
  <2>1. ASSUME NEW a \in Nat, a + (n + 1) = Len(s) + 1 PROVE \E g : Afters(g, s, a)
    <3>1. a + 1 \in Nat /\ (a + 1) + n = Len(s) + 1
      BY <1>1, <2>1
    <3>2. PICK g : g = [p \in a + 1 .. Len(s) |-> AfterStep(g, s, p)]
      BY <1>3, <3>1 DEF Afters
    <3>3. PICK h : h = [p \in a .. Len(s) |-> AfterStep(g, s, p)]
      OBVIOUS
    <3>4. \A p \in a + 1 .. Len(s) : g[p] = AfterStep(g, s, p)
      BY <3>2, Zenon
    <3>5. \A p \in a .. Len(s) : h[p] = AfterStep(g, s, p)
      BY <3>3, Zenon
    <3>6. ASSUME NEW p \in a .. Len(s) PROVE AfterStep(h, s, p) = AfterStep(g, s, p)
      <4>1. CASE ~Whole(s, p)
        BY <4>1, NotWhole, Zenon
      <4>2. CASE Whole(s, p)
        <5>1. p \in Nat /\ a <= p
          BY <1>1
        <5>2. PICK b \in Nat : b = Behind(s, p) /\ p < b /\ b <= Len(s)
          BY <4>2, <5>1, BehindLater, Zenon
        <5>3. b \in a + 1 .. Len(s) /\ b \in a .. Len(s)
          BY <1>1, <5>1, <5>2
        <5>4. h[b] = g[b]
          BY <3>4, <3>5, <5>3, Zenon
        <5>5. QED
          BY <4>2, <5>2, <5>4, IfWhole, Zenon
      <4>3. QED
        BY <4>1, <4>2
    <3>7. h = [p \in a .. Len(s) |-> AfterStep(h, s, p)]
      BY <3>3, <3>6, Zenon
    <3>8. QED
      BY <3>7 DEF Afters
  <2>2. QED
    BY <2>1
<1>4. Nat \subseteq T
  <2> HIDE DEF T
  <2>1. QED
    BY <1>2, <1>3, Induction
<1>5. l + 1 \in Nat /\ 0 \in Nat /\ 0 + (l + 1) = Len(s) + 1
  BY <1>1
<1>6. \A a \in Nat : a + (l + 1) = Len(s) + 1 => \E g : Afters(g, s, a)
  BY <1>4, <1>5
<1>7. QED
  BY <1>5, <1>6, Zenon

LEMMA AfterAt ==
  ASSUME NEW s \in Seq(Byte)
  PROVE  \A p \in 0 .. Len(s) : After(s)[p] = AfterStep(After(s), s, p)
<1>1. Afters(After(s), s, 0)
  BY AfterExists, Zenon DEF After
<1>2. QED
  BY <1>1, Zenon DEF Afters

LEMMA ImagesAfter ==
  ASSUME NEW s
  PROVE  ImagesOf(s) = After(s)[0]
BY Zenon DEF ImagesOf, After, Afters, AfterStep

LEMMA AfterType ==
  ASSUME NEW s \in Seq(Byte)
  PROVE  \A p \in 0 .. Len(s) : After(s)[p] \in Reads
<1> DEFINE T == {n \in Nat : \A p \in 0 .. Len(s) : Len(s) < p + n => After(s)[p] \in Reads}
<1>1. Len(s) \in Nat
  BY LenType
<1>2. 0 \in T
  BY <1>1
<1>3. ASSUME NEW n \in Nat, n \in T PROVE n + 1 \in T
  <2>1. ASSUME NEW p \in 0 .. Len(s), Len(s) < p + (n + 1) PROVE After(s)[p] \in Reads
    <3>1. After(s)[p] = AfterStep(After(s), s, p)
      BY AfterAt, Zenon
    <3>2. CASE ~Whole(s, p)
      <4>1. <<>> \in Reads
        BY DEF Reads
      <4>2. QED
        BY <3>1, <3>2, <4>1, NotWhole, Zenon
    <3>3. CASE Whole(s, p)
      <4>1. p \in Nat
        BY <1>1
      <4>2. PICK a \in Nat, b \in Nat : /\ a = First(Marks(s, p, SOI)) /\ b = Behind(s, p)
                                        /\ a <= b /\ p < b /\ b <= Len(s)
        BY <3>3, <4>1, BehindLater, Zenon
      <4>3. b \in 0 .. Len(s) /\ Len(s) < b + n
        BY <1>1, <2>1, <4>2
      <4>4. PICK r \in Reads : r = After(s)[b]
        BY <1>3, <4>3
      <4>5. PICK d \in Seq(Byte) : d = Slice(s, a, b)
        <5>1. IsSlice(Slice(s, a, b), s, a, b)
          BY <4>2, SliceAt, Zenon
        <5>2. QED
          BY <5>1, Zenon DEF IsSlice
      <4>6. After(s)[p] = <<d>> \o r
        BY <3>1, <3>3, <4>2, <4>4, <4>5, IfWhole, Zenon
      <4>7. <<d>> \o r \in Reads
        BY DEF Reads
      <4>8. QED
        BY <4>6, <4>7, Zenon
    <3>4. QED
      BY <3>2, <3>3
  <2>2. QED
    BY <2>1
<1>4. Nat \subseteq T
  <2> HIDE DEF T
  <2>1. QED
    BY <1>2, <1>3, Induction
<1>5. ASSUME NEW p \in 0 .. Len(s) PROVE After(s)[p] \in Reads
  <2>1. Len(s) + 1 \in Nat /\ Len(s) < p + (Len(s) + 1)
    BY <1>1
  <2>2. Len(s) + 1 \in T
    BY <1>4, <2>1, Zenon
  <2>3. QED
    BY <2>1, <2>2, Zenon
<1>6. QED
  BY <1>5

(* Where the search begins does not matter, if it skips no marker.         *)
Alike(s, p, q, code) == Marks(s, p, code) = Marks(s, q, code)

SkipsNone(s, p, q, code) == \A i \in Nat : p <= i /\ IsMark(s, i, code) => q <= i

LEMMA SameMarks ==
  ASSUME NEW s \in Seq(Byte), NEW p \in Nat, NEW q \in Nat, NEW code, p <= q,
         SkipsNone(s, p, q, code)
  PROVE  Alike(s, p, q, code)
<1>1. /\ Marks(s, p, code) \subseteq Nat
      /\ \A i \in Nat : i \in Marks(s, p, code) <=> p <= i /\ IsMark(s, i, code)
  BY MarkIn, Zenon
<1>2. /\ Marks(s, q, code) \subseteq Nat
      /\ \A i \in Nat : i \in Marks(s, q, code) <=> q <= i /\ IsMark(s, i, code)
  BY MarkIn, Zenon
<1>3. \A i \in Nat : q <= i => p <= i
  OBVIOUS
<1>4. QED
  BY <1>1, <1>2, <1>3, Zenon DEF SkipsNone, Alike

Settled(s, p, m, code) ==
  /\ Marks(s, m, code) = Marks(s, p, code)
  /\ m \in Nat /\ p <= m /\ m + 2 <= Len(s)

LEMMA FirstToItself ==
  ASSUME NEW s \in Seq(Byte), NEW p \in Nat, NEW code, Marks(s, p, code) # {}
  PROVE  Settled(s, p, First(Marks(s, p, code)), code)
<1>1. PICK m \in Nat : m = First(Marks(s, p, code)) /\ IsFirst(m, s, p, code)
  BY FirstMark, Zenon
<1>2. p <= m /\ m + 2 <= Len(s) /\ SkipsNone(s, p, m, code)
  BY <1>1, Zenon DEF IsFirst, IsMark, SkipsNone
<1>3. Alike(s, p, m, code)
  BY <1>2, SameMarks, Zenon
<1>4. QED
  BY <1>1, <1>2, <1>3, Zenon DEF Alike, Settled

(* The bytes before a start marker are skipped,                            *)
LEMMA AfterSkips ==
  ASSUME NEW s \in Seq(Byte), NEW e \in Seq(Byte), NEW p \in Nat, Marks(s, p, SOI) # {}
  PROVE  After(s \o e)[p] = After(s \o e)[First(Marks(s, p, SOI))]
<1>1. PICK u \in Seq(Byte) : u = s \o e
  <2>1. IsConcat(s \o e, s, e)
    BY ConcatAt, Zenon
  <2>2. QED
    BY <2>1, Zenon DEF IsConcat
<1>2. PICK m : m = First(Marks(s, p, SOI))
  OBVIOUS
<1>3. Marks(u, p, SOI) # {} /\ m = First(Marks(u, p, SOI))
  <2>1. SameFirst(s \o e, s, p, SOI)
    BY LongerMarks, Zenon
  <2>2. QED
    BY <1>1, <1>2, <2>1, Zenon DEF SameFirst
<1>4. /\ Marks(u, m, SOI) = Marks(u, p, SOI)
      /\ m \in Nat /\ p <= m /\ m + 2 <= Len(u)
  <2>1. Settled(u, p, First(Marks(u, p, SOI)), SOI)
    BY <1>3, FirstToItself, Zenon
  <2>2. QED
    BY <1>3, <2>1, Zenon DEF Settled
<1>5. p \in 0 .. Len(u) /\ m \in 0 .. Len(u)
  <2>1. Len(u) \in Nat
    BY LenType
  <2>2. QED
    BY <1>4, <2>1
<1>6. AfterStep(After(u), u, p) = AfterStep(After(u), u, m)
  BY <1>4, Zenon DEF AfterStep
<1>7. After(u)[p] = After(u)[m]
  BY <1>1, <1>5, <1>6, AfterAt, Zenon
<1>8. QED
  BY <1>1, <1>2, <1>7, Zenon

(* a whole image is the next of all images, however the stream goes on,    *)
LEMMA AfterFinds ==
  ASSUME NEW s \in Seq(Byte), NEW e \in Seq(Byte), NEW p \in Nat, Whole(s, p)
  PROVE  After(s \o e)[p] = <<Slice(s, First(Marks(s, p, SOI)), Behind(s, p))>>
                              \o After(s \o e)[Behind(s, p)]
<1>1. PICK u \in Seq(Byte) : u = s \o e /\ IsConcat(u, s, e)
  <2>1. IsConcat(s \o e, s, e)
    BY ConcatAt, Zenon
  <2>2. QED
    BY <2>1, Zenon DEF IsConcat
<1>2. PICK m \in Nat, b \in Nat : /\ m = First(Marks(s, p, SOI)) /\ b = Behind(s, p)
                                  /\ p <= m /\ m <= b /\ p < b /\ b <= Len(s)
  BY BehindLater, Zenon
<1>3. Marks(s, p, SOI) # {} /\ Marks(s, m, EOI) # {}
  BY <1>2, Zenon DEF Whole
<1>4. /\ Marks(u, p, SOI) # {} /\ First(Marks(u, p, SOI)) = m
      /\ Marks(u, m, EOI) # {} /\ First(Marks(u, m, EOI)) = First(Marks(s, m, EOI))
  <2>1. SameFirst(s \o e, s, p, SOI)
    BY <1>3, LongerMarks, Zenon
  <2>2. SameFirst(s \o e, s, m, EOI)
    BY <1>3, LongerMarks, Zenon
  <2>3. QED
    BY <1>1, <1>2, <2>1, <2>2, Zenon DEF SameFirst
<1>5. Whole(u, p) /\ Behind(u, p) = b
  BY <1>2, <1>4, Zenon DEF Whole, Behind
<1>6. Slice(s, m, b) = Slice(u, m, b)
  <2>1. Len(s) <= Len(u) /\ \A i \in 1 .. b : s[i] = u[i]
    <3>1. Len(s) <= Len(u) /\ \A i \in 1 .. b : i \in 1 .. Len(s)
      BY <1>1, <1>2 DEF IsConcat
    <3>2. QED
      BY <1>1, <3>1, Zenon DEF IsConcat
  <2>2. m \in Nat /\ b \in Nat /\ m <= b /\ b <= Len(s)
    BY <1>2, Zenon
  <2>3. QED
    BY <2>1, <2>2, SliceBefore, SMT
<1>7. p \in 0 .. Len(u)
  BY <1>1, <1>2 DEF IsConcat
<1>8. After(u)[p] = <<Slice(u, m, b)>> \o After(u)[b]
  <2>1. After(u)[p] = AfterStep(After(u), u, p)
    BY <1>7, AfterAt, Zenon
  <2>2. AfterStep(After(u), u, p) = <<Slice(u, First(Marks(u, p, SOI)), Behind(u, p))>>
                                      \o After(u)[Behind(u, p)]
    BY <1>5, IfWhole, Zenon
  <2>3. QED
    BY <1>4, <1>5, <2>1, <2>2, Zenon
<1>9. QED
  BY <1>1, <1>2, <1>6, <1>8, Zenon

(* and without a whole image there is none yet.                            *)
LEMMA AfterNone ==
  ASSUME NEW s \in Seq(Byte), NEW p \in Nat, p <= Len(s), ~Whole(s, p)
  PROVE  After(s)[p] = <<>>
<1>1. p \in 0 .. Len(s)
  <2>1. Len(s) \in Nat
    BY LenType
  <2>2. QED
    BY <2>1
<1>2. After(s)[p] = AfterStep(After(s), s, p)
  BY <1>1, AfterAt, Zenon
<1>3. AfterStep(After(s), s, p) = <<>>
  BY NotWhole, Zenon
<1>4. QED
  BY <1>2, <1>3, Zenon

-----------------------------------------------------------------------------
(* What a read brings about.                                               *)

At == Len(Input) - size    \* the place in the stream where the content begins

SplitTypes ==
  /\ reads \in Reads /\ mem \in Seq(Byte)
  /\ base \in Nat /\ size \in Nat
  /\ base + size <= Len(mem) /\ size <= Len(Input)
  /\ images \in Seq([from : Nat, to : Nat, bytes : Seq(Byte)])

(* A slice is a sequence of bytes.                                         *)
LEMMA SliceType ==
  ASSUME NEW s \in Seq(Byte), NEW a \in Nat, NEW b \in Nat, a <= b, b <= Len(s)
  PROVE  Slice(s, a, b) \in Seq(Byte) /\ Len(Slice(s, a, b)) = b - a
<1>1. IsSlice(Slice(s, a, b), s, a, b)
  BY SliceAt, Zenon
<1>2. QED
  BY <1>1, Zenon DEF IsSlice

LEMMA SliceAll ==
  ASSUME NEW s \in Seq(Byte), NEW a \in Nat, a <= Len(s)
  PROVE  Slice(s, a, Len(s)) \in Seq(Byte) /\ Len(Slice(s, a, Len(s))) = Len(s) - a
<1>1. Len(s) \in Nat /\ Len(s) <= Len(s)
  OBVIOUS
<1>2. QED
  BY <1>1, SliceType, Zenon

LEMMA ConcatType ==
  ASSUME NEW s \in Seq(Byte), NEW t \in Seq(Byte)
  PROVE  s \o t \in Seq(Byte) /\ Len(s \o t) = Len(s) + Len(t)
OBVIOUS

(* What Write leaves in the array: the content, up to b, and the chunk.    *)
WrittenAs(w, data, chunk, b) ==
  /\ w \in Seq(Byte)
  /\ data \in Seq(Byte) /\ Len(data) = size + Len(chunk)
  /\ base + Len(data) <= Len(w)
  /\ Len(mem) <= Len(w)
  /\ Slice(w, base, base + Len(data)) = data
  /\ \A i \in 1 .. b : w[i] = mem[i]

LEMMA WrittenIs ==
  ASSUME NEW b \in Nat, b = base + size, base \in Nat, size \in Nat, mem \in Seq(Byte),
         b <= Len(mem), NEW chunk \in Seq(Byte),
         NEW data, data = Slice(mem, base, b) \o chunk
  PROVE  WrittenAs(Written(chunk), data, chunk, b)
<1>1. PICK n \in Nat, l \in Nat : n = Len(mem) /\ l = b + Len(chunk) /\ b <= n /\ b <= l
                                  /\ base <= b
  <2>1. Len(mem) \in Nat /\ b + Len(chunk) \in Nat /\ b <= b + Len(chunk) /\ base <= b
    OBVIOUS
  <2>2. QED
    BY <2>1
<1>2. PICK head \in Seq(Byte) : head = Slice(mem, 0, b) /\ Len(head) = b /\ IsSlice(head, mem, 0, b)
  <2>1. 0 \in Nat /\ 0 <= b /\ b - 0 = b
    OBVIOUS
  <2>2. IsSlice(Slice(mem, 0, b), mem, 0, b)
    BY <2>1, SliceAt, Zenon
  <2>3. QED
    BY <2>1, <2>2, Zenon DEF IsSlice
<1>3. PICK kept \in Seq(Byte) : kept = head \o chunk /\ Len(kept) = l /\ IsConcat(kept, head, chunk)
  <2>1. IsConcat(head \o chunk, head, chunk)
    BY ConcatAt, Zenon
  <2>2. head \o chunk \in Seq(Byte) /\ Len(head \o chunk) = b + Len(chunk)
    BY <1>2, <2>1, Zenon DEF IsConcat
  <2>3. QED
    BY <1>1, <2>1, <2>2, Zenon
<1>4. PICK tail \in Seq(Byte) : tail = Slice(mem, l, n) /\ n <= l + Len(tail)
  <2>1. CASE l <= n
    <3>1. Slice(mem, l, n) \in Seq(Byte) /\ Len(Slice(mem, l, n)) = n - l
      <4>1. n <= Len(mem)
        BY <1>1
      <4>2. QED
        BY <2>1, <4>1, SliceType, Zenon
    <3>2. n <= l + (n - l)
      OBVIOUS
    <3>3. QED
      BY <3>1, <3>2, Zenon
  <2>2. CASE ~(l <= n)
    <3>1. Slice(mem, l, n) = <<>>
      BY <1>1, <2>2 DEF Slice
    <3>2. <<>> \in Seq(Byte) /\ n <= l + Len(<<>>)
      BY <2>2
    <3>3. QED
      BY <3>1, <3>2, Zenon
  <2>3. QED
    BY <2>1, <2>2, Zenon
<1>5. PICK w \in Seq(Byte) : w = Written(chunk) /\ IsConcat(w, kept, tail)
  <2>1. Written(chunk) = kept \o tail
    BY <1>1, <1>2, <1>3, <1>4, Zenon DEF Written
  <2>2. IsConcat(kept \o tail, kept, tail)
    BY ConcatAt, Zenon
  <2>3. QED
    BY <2>1, <2>2, Zenon DEF IsConcat
<1>6. Len(tail) \in Nat /\ Len(w) = l + Len(tail) /\ \A i \in 1 .. l : w[i] = kept[i]
  BY <1>3, <1>5, Zenon DEF IsConcat
<1>7. l <= Len(w) /\ n <= Len(w)
  BY <1>4, <1>6
<1>8. \A i \in 1 .. b : w[i] = mem[i]
  <2>1. ASSUME NEW i \in 1 .. b PROVE w[i] = mem[i]
    <3>1. i \in 1 .. l /\ i \in 1 .. b - 0 /\ 0 + i = i
      BY <1>1
    <3>2. w[i] = kept[i] /\ kept[i] = head[i] /\ head[i] = mem[0 + i]
      BY <1>2, <1>3, <1>6, <3>1, Zenon DEF IsConcat, IsSlice
    <3>3. QED
      BY <3>1, <3>2, Zenon
  <2>2. QED
    BY <2>1
<1>9. Slice(kept, base, l) = data
  <2>1. base <= Len(head)
    BY <1>1, <1>2, Zenon
  <2>2. Slice(head, base, Len(head)) \o chunk = Slice(head \o chunk, base, Len(head \o chunk))
    BY <2>1, SliceLonger, Zenon
  <2>3. Slice(head, base, b) \o chunk = Slice(kept, base, l)
    BY <1>2, <1>3, <2>2, Zenon
  <2>4. 0 \in Nat /\ 0 <= b /\ base <= b /\ b <= b - 0 /\ 0 + base = base /\ 0 + b = b
    BY <1>1
  <2>5. Slice(Slice(mem, 0, b), base, b) = Slice(mem, 0 + base, 0 + b)
    BY <2>4, SliceOfSlice, SMT
  <2>6. Slice(head, base, b) = Slice(mem, base, b)
    BY <1>2, <2>4, <2>5, Zenon
  <2>7. QED
    BY <2>3, <2>6, Zenon
<1>10. Slice(kept, base, l) = Slice(w, base, l)
  <2>1. Len(kept) <= Len(w) /\ base <= l /\ l <= Len(kept)
    BY <1>1, <1>3, <1>7
  <2>2. \A i \in 1 .. l : kept[i] = w[i]
    BY <1>6, Zenon
  <2>3. QED
    BY <1>1, <2>1, <2>2, SliceBefore, SMT
<1>11. data \in Seq(Byte) /\ Len(data) = size + Len(chunk) /\ base + Len(data) = l
  <2>1. Slice(mem, base, b) \in Seq(Byte) /\ Len(Slice(mem, base, b)) = b - base
    BY <1>1, SliceType, Zenon
  <2>2. data \in Seq(Byte) /\ Len(data) = (b - base) + Len(chunk)
    BY <2>1, ConcatType, Zenon
  <2>3. (b - base) + Len(chunk) = size + Len(chunk) /\ base + (size + Len(chunk)) = l
    BY <1>1
  <2>4. QED
    BY <2>2, <2>3, Zenon
<1>12. QED
  BY <1>1, <1>5, <1>7, <1>8, <1>9, <1>10, <1>11, Zenon DEF WrittenAs

(* The search finds the first marker of the stream from c on, be it the    *)
(* one with which the content begins,                                      *)
StartFound(data, s, c) ==
  /\ FindStart(data) = {} <=> Marks(s, c, SOI) = {}
  /\ FindStart(data) # {} => /\ First(FindStart(data)) \in Nat
                             /\ c + First(FindStart(data)) = First(Marks(s, c, SOI))

LEMMA SearchStart ==
  ASSUME NEW old \in Seq(Byte), NEW chunk \in Seq(Byte), NEW s \in Seq(Byte), s = old \o chunk,
         NEW c \in Nat, c <= Len(s), NEW data, data = Slice(s, c, Len(s)),
         imgStart => c \in Marks(old, c, SOI)
  PROVE  StartFound(data, s, c)
<1>1. CASE imgStart
  <2>1. FindStart(data) = {0}
    BY <1>1, Zenon DEF FindStart
  <2>2. First({0}) = 0
    <3>1. {0} \subseteq Nat /\ {0} # {}
      OBVIOUS
    <3>2. First({0}) \in {0}
      BY <3>1, FirstIn, Zenon
    <3>3. QED
      BY <3>2
  <2>3. Marks(old, c, SOI) # {} /\ First(Marks(old, c, SOI)) = c
    <3>1. c <= c /\ \A i \in Nat : c <= i /\ IsMark(old, i, SOI) => c <= i
      OBVIOUS
    <3>2. IsMark(old, c, SOI)
      BY <1>1, MarkIn, Zenon
    <3>3. IsFirst(c, old, c, SOI)
      BY <3>1, <3>2, Zenon DEF IsFirst
    <3>4. QED
      BY <3>3, FirstMarkIs, Zenon
  <2>4. SameFirst(old \o chunk, old, c, SOI)
    BY <2>3, LongerMarks, Zenon
  <2>5. Marks(s, c, SOI) # {} /\ First(Marks(s, c, SOI)) = c
    BY <2>3, <2>4, Zenon DEF SameFirst
  <2>6. c + 0 = c /\ 0 \in Nat
    OBVIOUS
  <2>7. QED
    BY <2>1, <2>2, <2>5, <2>6, Zenon DEF StartFound
<1>2. CASE ~imgStart
  <2>1. FindStart(data) = Marks(data, 0, SOI)
    BY <1>2, Zenon DEF FindStart
  <2>2. 0 \in Nat /\ c + 0 = c
    OBVIOUS
  <2>3. /\ Marks(data, 0, SOI) = {} <=> Marks(s, c + 0, SOI) = {}
        /\ Marks(data, 0, SOI) # {} => c + First(Marks(data, 0, SOI)) = First(Marks(s, c + 0, SOI))
    BY <2>2, ShiftMarks, Zenon
  <2>4. data \in Seq(Byte)
    BY SliceAll, Zenon
  <2>5. Marks(data, 0, SOI) # {} => First(Marks(data, 0, SOI)) \in Nat
    BY <2>2, <2>4, FirstMark, Zenon
  <2>6. QED
    BY <2>1, <2>2, <2>3, <2>5, Zenon DEF StartFound
<1>3. QED
  BY <1>1, <1>2, Zenon

(* and, from where the last search gave up, the first end marker behind    *)
(* it: only a marker that lay across the two reads can have been missed.   *)
EndFound(jpeg, p, s, m) ==
  /\ Marks(jpeg, p, EOI) = {} <=> Marks(s, m, EOI) = {}
  /\ Marks(jpeg, p, EOI) # {} => /\ First(Marks(jpeg, p, EOI)) \in Nat
                                 /\ m + First(Marks(jpeg, p, EOI)) = First(Marks(s, m, EOI))

LEMMA SearchEnd ==
  ASSUME NEW old \in Seq(Byte), NEW chunk \in Seq(Byte), NEW s \in Seq(Byte), s = old \o chunk,
         NEW m \in Nat, m <= Len(s), NEW jpeg, jpeg = Slice(s, m, Len(s)), NEW p \in Nat,
         p = 0 \/ ((m + p) + 1 = Len(old) /\ Marks(old, m, EOI) = {})
  PROVE  EndFound(jpeg, p, s, m)
<1>1. PICK q \in Nat : q = m + p /\ m <= q
  <2>1. m + p \in Nat /\ m <= m + p
    OBVIOUS
  <2>2. QED
    BY <2>1
<1>2. /\ Marks(jpeg, p, EOI) = {} <=> Marks(s, q, EOI) = {}
      /\ Marks(jpeg, p, EOI) # {} => m + First(Marks(jpeg, p, EOI)) = First(Marks(s, q, EOI))
  BY <1>1, ShiftMarks, Zenon
<1>3. Marks(s, m, EOI) = Marks(s, q, EOI)
  <2>1. CASE p = 0
    BY <1>1, <2>1
  <2>2. CASE p # 0
    <3>1. q + 1 = Len(old) /\ Marks(old, m, EOI) = {}
      BY <1>1, <2>2, Zenon
    <3>2. ASSUME NEW i \in Nat, m <= i, IsMark(s, i, EOI) PROVE q <= i
      <4>1. CASE i + 2 <= Len(old)
        <5>1. IsMark(old \o chunk, i, EOI) <=> IsMark(old, i, EOI)
          BY <4>1, LongerMark, Zenon
        <5>2. ~(m <= i /\ IsMark(old, i, EOI))
          BY <3>1, NoMark, Zenon
        <5>3. QED
          BY <3>2, <5>1, <5>2, Zenon
      <4>2. CASE ~(i + 2 <= Len(old))
        BY <3>1, <4>2
      <4>3. QED
        BY <4>1, <4>2
    <3>3. SkipsNone(s, m, q, EOI)
      BY <3>2, Zenon DEF SkipsNone
    <3>4. Alike(s, m, q, EOI)
      BY <1>1, <3>3, SameMarks, Zenon
    <3>5. QED
      BY <3>4, Zenon DEF Alike
  <2>3. QED
    BY <2>1, <2>2
<1>4. jpeg \in Seq(Byte)
  BY SliceAll, Zenon
<1>5. Marks(jpeg, p, EOI) # {} => First(Marks(jpeg, p, EOI)) \in Nat
  BY <1>4, FirstMark, Zenon
<1>6. QED
  BY <1>2, <1>3, <1>5, Zenon DEF EndFound

(* The reads up to the j-th, and the one that was added.                   *)
LEMMA UpToAppend ==
  ASSUME NEW q \in Reads, NEW c \in Seq(Byte)
  PROVE  /\ Len(q) \in Nat /\ Len(Append(q, c)) = Len(q) + 1
         /\ SubSeq(q, 1, Len(q)) = q
         /\ SubSeq(Append(q, c), 1, Len(q) + 1) = Append(q, c)
         /\ \A j \in 0 .. Len(q) : SubSeq(Append(q, c), 1, j) = SubSeq(q, 1, j)
<1>1. Len(q) \in Nat /\ Len(Append(q, c)) = Len(q) + 1 /\ SubSeq(q, 1, Len(q)) = q
  BY DEF Reads
<1>2. PICK p \in Reads : p = Append(q, c)
  <2>1. Append(q, c) \in Reads
    BY DEF Reads
  <2>2. QED
    BY <2>1
<1>3. Len(p) = Len(q) + 1 /\ \A i \in 1 .. Len(q) : p[i] = q[i]
  BY <1>2 DEF Reads
<1>4. SubSeq(p, 1, Len(p)) = p
  BY DEF Reads
<1>5. ASSUME NEW j \in 0 .. Len(q) PROVE SubSeq(p, 1, j) = SubSeq(q, 1, j)
  BY <1>1, <1>3 DEF Reads
<1>6. QED
  BY <1>1, <1>2, <1>3, <1>4, <1>5, Zenon

(* No read completes two images of p.                                      *)
OneEnds(p) ==
  \A k \in 1 .. Len(p) :
    Len(ImagesOf(FlattenSeq(SubSeq(p, 1, k)))) <= Len(ImagesOf(FlattenSeq(SubSeq(p, 1, k - 1)))) + 1

LEMMA OneEndsAppend ==
  ASSUME NEW q \in Reads, NEW c \in Seq(Byte), OneEnds(Append(q, c))
  PROVE  /\ OneEnds(q)
         /\ Len(ImagesOf(FlattenSeq(Append(q, c)))) <= Len(ImagesOf(FlattenSeq(q))) + 1
<1>1. PICK p : p = Append(q, c)
  OBVIOUS
<1>2. PICK n \in Nat : n = Len(q)
  BY UpToAppend, Zenon
<1>3. /\ Len(p) = n + 1 /\ SubSeq(q, 1, n) = q /\ SubSeq(p, 1, n + 1) = p
      /\ \A j \in 0 .. n : SubSeq(p, 1, j) = SubSeq(q, 1, j)
  BY <1>1, <1>2, UpToAppend, Zenon
<1>4. \A k \in 1 .. n + 1 :
        Len(ImagesOf(FlattenSeq(SubSeq(p, 1, k))))
          <= Len(ImagesOf(FlattenSeq(SubSeq(p, 1, k - 1)))) + 1
  BY <1>1, <1>3, Zenon DEF OneEnds
<1>5. ASSUME NEW k \in 1 .. n
      PROVE  Len(ImagesOf(FlattenSeq(SubSeq(q, 1, k))))
               <= Len(ImagesOf(FlattenSeq(SubSeq(q, 1, k - 1)))) + 1
  <2>1. k \in 0 .. n /\ k - 1 \in 0 .. n /\ k \in 1 .. n + 1
    OBVIOUS
  <2>2. SubSeq(p, 1, k) = SubSeq(q, 1, k) /\ SubSeq(p, 1, k - 1) = SubSeq(q, 1, k - 1)
    BY <1>3, <2>1, Zenon
  <2>3. QED
    BY <1>4, <2>1, <2>2, Zenon
<1>6. OneEnds(q)
  BY <1>2, <1>5, Zenon DEF OneEnds
<1>7. n + 1 \in 1 .. n + 1 /\ (n + 1) - 1 = n /\ n \in 0 .. n
  OBVIOUS
<1>8. Len(ImagesOf(FlattenSeq(p))) <= Len(ImagesOf(FlattenSeq(q))) + 1
  <2>1. SubSeq(p, 1, n) = q
    BY <1>3, <1>7, Zenon
  <2>2. Len(ImagesOf(FlattenSeq(SubSeq(p, 1, n + 1))))
          <= Len(ImagesOf(FlattenSeq(SubSeq(p, 1, (n + 1) - 1)))) + 1
    BY <1>4, <1>7, Zenon
  <2>3. QED
    BY <1>3, <1>7, <2>1, <2>2, Zenon
<1>9. QED
  BY <1>1, <1>6, <1>8, Zenon

LEMMA OneEndsIs ==
  AtMostOneEnds <=> OneEnds(reads)
BY Zenon DEF AtMostOneEnds, OneEnds

(* The image is the end of the bytes that one of the reads q ended with.   *)
EndsWith(q, bytes) ==
  \E j \in 1 .. Len(q) : IsSuffix(bytes, FlattenSeq(SubSeq(q, 1, j)))

LEMMA EndsWithAppend ==
  ASSUME NEW q \in Reads, NEW c \in Seq(Byte), NEW bytes
  PROVE  /\ EndsWith(q, bytes) => EndsWith(Append(q, c), bytes)
         /\ IsSuffix(bytes, FlattenSeq(Append(q, c))) => EndsWith(Append(q, c), bytes)
<1>1. PICK p : p = Append(q, c)
  OBVIOUS
<1>2. PICK n \in Nat : n = Len(q)
  BY UpToAppend, Zenon
<1>3. /\ Len(p) = n + 1 /\ SubSeq(p, 1, n + 1) = p
      /\ \A j \in 0 .. n : SubSeq(p, 1, j) = SubSeq(q, 1, j)
  BY <1>1, <1>2, UpToAppend, Zenon
<1>4. n + 1 \in 1 .. n + 1 /\ \A j \in 1 .. n : j \in 0 .. n /\ j \in 1 .. n + 1
  OBVIOUS
<1>5. EndsWith(q, bytes) => EndsWith(p, bytes)
  BY <1>2, <1>3, <1>4, Zenon DEF EndsWith
<1>6. IsSuffix(bytes, FlattenSeq(p)) => EndsWith(p, bytes)
  BY <1>3, <1>4, Zenon DEF EndsWith
<1>7. QED
  BY <1>1, <1>5, <1>6, Zenon

(* The content goes on where the search left it.                           *)
Same(w, b, s, c, i, j) == Slice(w, b + i, b + j) = Slice(s, c + i, c + j)

LEMMA ContentFrom ==
  ASSUME NEW w \in Seq(Byte), NEW s \in Seq(Byte), NEW b \in Nat, NEW c \in Nat, NEW n \in Nat,
         b + n <= Len(w), c + n = Len(s), Slice(w, b, b + n) = Slice(s, c, c + n),
         NEW i \in Nat, NEW j \in Nat, i <= j, j <= n
  PROVE  Same(w, b, s, c, i, j)
<1>1. c + n \in Nat /\ c + n <= Len(s) /\ c <= c + n /\ j <= (c + n) - c
      /\ b + n \in Nat /\ b <= b + n /\ j <= (b + n) - b
  OBVIOUS
<1>2. PICK m \in Nat, o \in Nat : m = b + n /\ o = c + n
  BY <1>1
<1>3. Slice(Slice(w, b, m), i, j) = Slice(w, b + i, b + j)
  BY <1>1, <1>2, SliceOfSlice, SMT
<1>4. Slice(Slice(s, c, o), i, j) = Slice(s, c + i, c + j)
  BY <1>1, <1>2, SliceOfSlice, SMT
<1>5. QED
  BY <1>2, <1>3, <1>4, Zenon DEF Same

LEMMA BytesAssoc ==
  ASSUME NEW f \in Seq(Byte), NEW x \in Seq(Byte), NEW r \in Seq(Byte)
  PROVE  (f \o x) \o r = f \o (x \o r)
OBVIOUS

LEMMA ReadsAssoc ==
  ASSUME NEW f \in Reads, NEW x \in Reads, NEW r \in Reads
  PROVE  (f \o x) \o r = f \o (x \o r)
BY DEF Reads

MoreBy(f, x, r) ==
  /\ f \o (<<x>> \o r) = Append(f, x) \o r
  /\ Append(f, x) \in Reads
  /\ Len(Append(f, x) \o r) = (Len(f) + 1) + Len(r)
  /\ Len(f) \in Nat /\ Len(r) \in Nat
  /\ Len(r) = 0 => r = <<>>

LEMMA OneMore ==
  ASSUME NEW f \in Reads, NEW x \in Seq(Byte), NEW r \in Reads
  PROVE  MoreBy(f, x, r)
<1>1. f \o (<<x>> \o r) = Append(f, x) \o r
  <2>1. <<x>> \in Reads
    BY DEF Reads
  <2>2. (f \o <<x>>) \o r = f \o (<<x>> \o r)
    BY <2>1, ReadsAssoc, SMT
  <2>3. Append(f, x) = f \o <<x>>
    BY DEF Reads
  <2>4. QED
    BY <2>2, <2>3, Zenon
<1>2. Append(f, x) \in Reads /\ Len(Append(f, x)) = Len(f) + 1
  BY DEF Reads
<1>3. Len(f) \in Nat /\ Len(r) \in Nat /\ (Len(r) = 0 => r = <<>>)
  BY DEF Reads
<1>4. Len(Append(f, x) \o r) = (Len(f) + 1) + Len(r)
  BY <1>2 DEF Reads
<1>5. QED
  BY <1>1, <1>2, <1>3, <1>4, Zenon DEF MoreBy

-----------------------------------------------------------------------------
(* The invariant.                                                          *)

(* However s goes on, its images are those in f and then those from c on.  *)
Onward(s, f, c) ==
  \A e \in Seq(Byte) : ImagesOf(s \o e) = f \o After(s \o e)[c]

LEMMA OnwardWith ==
  ASSUME NEW s \in Seq(Byte), NEW t \in Seq(Byte), NEW f, NEW c, Onward(s, f, c)
  PROVE  Onward(s \o t, f, c)
<1>1. ASSUME NEW e \in Seq(Byte)
      PROVE  ImagesOf((s \o t) \o e) = f \o After((s \o t) \o e)[c]
  <2>1. PICK u \in Seq(Byte) : u = t \o e
    BY ConcatType
  <2>2. (s \o t) \o e = s \o (t \o e)
    BY BytesAssoc, SMT
  <2>3. ImagesOf(s \o u) = f \o After(s \o u)[c]
    BY Zenon DEF Onward
  <2>4. QED
    BY <2>1, <2>2, <2>3, Zenon
<1>2. QED
  BY <1>1, Zenon DEF Onward

LEMMA OnwardSkips ==
  ASSUME NEW s \in Seq(Byte), NEW f, NEW c \in Nat, Onward(s, f, c), Marks(s, c, SOI) # {}
  PROVE  Onward(s, f, First(Marks(s, c, SOI)))
<1>1. ASSUME NEW e \in Seq(Byte)
      PROVE  ImagesOf(s \o e) = f \o After(s \o e)[First(Marks(s, c, SOI))]
  <2>1. After(s \o e)[c] = After(s \o e)[First(Marks(s, c, SOI))]
    BY AfterSkips, SMT
  <2>2. ImagesOf(s \o e) = f \o After(s \o e)[c]
    BY Zenon DEF Onward
  <2>3. QED
    BY <2>1, <2>2, Zenon
<1>2. QED
  BY <1>1, Zenon DEF Onward

LEMMA OnwardFinds ==
  ASSUME NEW s \in Seq(Byte), NEW f \in Reads, NEW c \in Nat, Onward(s, f, c), Whole(s, c)
  PROVE  Onward(s, Append(f, Slice(s, First(Marks(s, c, SOI)), Behind(s, c))), Behind(s, c))
<1>1. PICK m \in Nat, b \in Nat : /\ m = First(Marks(s, c, SOI)) /\ b = Behind(s, c)
                                  /\ m <= b /\ b <= Len(s)
  BY BehindLater, Zenon
<1>2. PICK x \in Seq(Byte) : x = Slice(s, m, b)
  BY <1>1, SliceType, SMT
<1>3. ASSUME NEW e \in Seq(Byte)
      PROVE  ImagesOf(s \o e) = Append(f, x) \o After(s \o e)[b]
  <2>1. After(s \o e)[c] = <<Slice(s, First(Marks(s, c, SOI)), Behind(s, c))>>
                              \o After(s \o e)[Behind(s, c)]
    BY AfterFinds, SMT
  <2>2. PICK r \in Reads : r = After(s \o e)[b]
    <3>1. PICK u \in Seq(Byte) : u = s \o e /\ Len(u) = Len(s) + Len(e)
      <4>1. s \o e \in Seq(Byte) /\ Len(s \o e) = Len(s) + Len(e)
        BY ConcatType, Zenon
      <4>2. QED
        BY <4>1, Zenon
    <3>2. b \in 0 .. Len(u)
      BY <1>1, <3>1
    <3>3. After(u)[b] \in Reads
      BY <3>2, AfterType, Zenon
    <3>4. QED
      BY <3>1, <3>3, Zenon
  <2>3. After(s \o e)[c] = <<x>> \o r
    BY <1>1, <1>2, <2>1, <2>2, Zenon
  <2>4. ImagesOf(s \o e) = f \o After(s \o e)[c]
    BY Zenon DEF Onward
  <2>5. f \o (<<x>> \o r) = Append(f, x) \o r
    <3>1. MoreBy(f, x, r)
      BY OneMore, Zenon
    <3>2. QED
      BY <3>1, Zenon DEF MoreBy
  <2>6. QED
    BY <2>2, <2>3, <2>4, <2>5, Zenon
<1>4. Onward(s, Append(f, x), b)
  BY <1>3, Zenon DEF Onward
<1>5. QED
  BY <1>1, <1>2, <1>4, Zenon

Now(s, f, c) == ImagesOf(s) = f \o After(s)[c]

LEMMA OnwardNow ==
  ASSUME NEW s \in Seq(Byte), NEW f, NEW c, Onward(s, f, c)
  PROVE  Now(s, f, c)
<1>1. s \o <<>> = s /\ <<>> \in Seq(Byte)
  OBVIOUS
<1>2. ImagesOf(s \o <<>>) = f \o After(s \o <<>>)[c]
  BY <1>1, Zenon DEF Onward
<1>3. QED
  BY <1>1, <1>2, Zenon DEF Now

(* The frame im is intact in the array m, before b, or ends with a read.   *)
Stays(im, q, m, b) ==
  /\ im.from <= im.to /\ im.to <= Len(m)
  /\ EndsWith(q, im.bytes) \/ (im.to <= b /\ Slice(m, im.from, im.to) = im.bytes)

Frames == [from : Nat, to : Nat, bytes : Seq(Byte)]

LEMMA StaysOn ==
  ASSUME NEW im \in Frames, NEW q \in Reads, NEW chunk \in Seq(Byte),
         NEW m \in Seq(Byte), NEW w \in Seq(Byte), Len(m) <= Len(w),
         NEW b \in Nat, NEW z \in Nat, NEW d \in Nat, b <= z, b <= d, \A i \in 1 .. z : w[i] = m[i],
         Stays(im, q, m, b)
  PROVE  Stays(im, Append(q, chunk), w, d)
<1>1. PICK from \in Nat, to \in Nat : from = im.from /\ to = im.to
  BY DEF Frames
<1>2. from <= to /\ to <= Len(m)
  BY <1>1, Zenon DEF Stays
<1>3. to <= Len(w)
  BY <1>2
<1>4. CASE EndsWith(q, im.bytes)
  <2>1. EndsWith(Append(q, chunk), im.bytes)
    BY <1>4, EndsWithAppend, SMT
  <2>2. QED
    BY <1>1, <1>2, <1>3, <2>1, Zenon DEF Stays
<1>5. CASE to <= b /\ Slice(m, from, to) = im.bytes
  <2>1. to <= d /\ \A i \in 1 .. to : m[i] = w[i]
    <3>1. to <= d /\ \A i \in 1 .. to : i \in 1 .. z
      BY <1>5
    <3>2. QED
      BY <3>1, Zenon
  <2>2. Slice(m, from, to) = Slice(w, from, to)
    BY <1>2, <2>1, SliceBefore, SMT
  <2>3. QED
    BY <1>1, <1>2, <1>3, <1>5, <2>1, <2>2, Zenon DEF Stays
<1>6. QED
  BY <1>1, <1>4, <1>5, Zenon DEF Stays

SplitInv ==
  /\ SplitTypes
  /\ Slice(mem, base, base + size) = Slice(Input, At, Len(Input))
  /\ imgStart => /\ At \in Marks(Input, At, SOI)
                 /\ Marks(Input, At, EOI) = {}
                 /\ markerPos \in Nat /\ markerPos + 1 = size
  /\ ~imgStart => markerPos = 0
  /\ Onward(Input, Found, At)
  /\ OneEnds(reads) => After(Input)[At] = <<>>
  /\ \A k \in 1 .. Len(images) : Stays(images[k], reads, mem, base)

LEMMA FoundType ==
  ASSUME images \in Seq(Frames)
  PROVE  Found \in Reads /\ Len(Found) = Len(images)
<1>1. PICK n \in Nat : n = Len(images)
  OBVIOUS
<1>2. \A k \in 1 .. n : images[k].bytes \in Seq(Byte)
  <2>1. ASSUME NEW k \in 1 .. n PROVE images[k].bytes \in Seq(Byte)
    <3>1. images[k] \in Frames
      BY <1>1
    <3>2. QED
      BY <3>1 DEF Frames
  <2>2. QED
    BY <2>1
<1>3. PICK f : f = [k \in 1 .. n |-> images[k].bytes]
  OBVIOUS
<1>4. f \in Seq(Seq(Byte)) /\ Len(f) = n
  BY <1>2, <1>3
<1>5. QED
  BY <1>1, <1>3, <1>4, Zenon DEF Found, Reads

LEMMA ReadAt ==
  ASSUME NEW q \in Reads
  PROVE  \A k \in 1 .. Len(q) : q[k] \in Seq(Byte)
BY DEF Reads

LEMMA IsReads ==
  ASSUME NEW n \in Nat, NEW g, DOMAIN g = 1 .. n, g = [k \in DOMAIN g |-> g[k]],
         \A k \in 1 .. n : g[k] \in Seq(Byte)
  PROVE  g \in Reads /\ Len(g) = n
BY DEF Reads

LEMMA FoundAppend ==
  ASSUME images \in Seq(Frames), NEW im \in Frames, images' = Append(images, im)
  PROVE  Found' = Append(Found, im.bytes)
<1>1. PICK n \in Nat : n = Len(images)
  OBVIOUS
<1>2. Len(images') = n + 1 /\ images'[n + 1] = im /\ \A k \in 1 .. n : images'[k] = images[k]
  BY <1>1
<1>3. PICK g : g = Found'
  OBVIOUS
<1>4. g = [k \in 1 .. n + 1 |-> images'[k].bytes]
  BY <1>2, <1>3, Zenon DEF Found
<1>5. PICK f \in Reads : f = Found /\ Len(f) = n
  BY <1>1, FoundType
<1>6. \A k \in 1 .. n : f[k] = images[k].bytes
  BY <1>1, <1>5, Zenon DEF Found
<1>7. PICK x \in Seq(Byte) : x = im.bytes
  BY DEF Frames
<1>8. \A k \in 1 .. n + 1 : k = n + 1 \/ k \in 1 .. n
  OBVIOUS
<1>9. n + 1 \in 1 .. n + 1 /\ \A k \in 1 .. n : k \in 1 .. n + 1
  OBVIOUS
<1>10. g[n + 1] = x /\ \A k \in 1 .. n : g[k] = f[k]
  BY <1>2, <1>4, <1>6, <1>7, <1>9, Zenon
<1>11. g \in Seq(Seq(Byte)) /\ Len(g) = n + 1
  <2>1. \A k \in 1 .. n : f[k] \in Seq(Byte)
    <3>1. \A k \in 1 .. Len(f) : f[k] \in Seq(Byte)
      BY ReadAt, Zenon
    <3>2. QED
      BY <1>5, <3>1, Zenon
  <2>2. \A k \in 1 .. n + 1 : images'[k].bytes \in Seq(Byte)
    BY <1>2, <1>6, <1>7, <1>8, <2>1, Zenon
  <2>3. n + 1 \in Nat
    OBVIOUS
  <2>4. /\ DOMAIN g = 1 .. n + 1 /\ g = [k \in DOMAIN g |-> g[k]]
        /\ \A k \in 1 .. n + 1 : g[k] \in Seq(Byte)
    BY <1>4, <2>2, Zenon
  <2>5. QED
    BY <2>3, <2>4, IsReads, Zenon DEF Reads
<1>12. g = Append(f, x)
  BY <1>5, <1>8, <1>10, <1>11 DEF Reads
<1>13. QED
  BY <1>3, <1>5, <1>7, <1>12, Zenon

(* The empty stream holds no image.                                        *)
LEMMA SplitStart ==
  ASSUME SplitterInit
  PROVE  SplitInv
<1>1. PICK q : q = <<>>
  OBVIOUS
<1>2. q \in Seq(Byte) /\ q \in Reads /\ Len(q) = 0 /\ 0 \in Nat /\ q \in Seq(Frames)
  BY <1>1 DEF Reads
<1>3. reads = q /\ mem = q /\ base = 0 /\ size = 0 /\ ~imgStart /\ markerPos = 0 /\ images = q
  BY <1>1, Zenon DEF SplitterInit
<1>4. Input = q
  <2>1. FlattenSeq(q) = <<>>
    BY <1>2, FlatLast, Zenon
  <2>2. QED
    BY <1>1, <1>3, <2>1, Zenon DEF Input
<1>5. At = 0
  BY <1>2, <1>3, <1>4 DEF At
<1>6. SplitTypes
  <2>1. 0 + 0 <= 0 /\ 0 <= 0
    OBVIOUS
  <2>2. QED
    BY <1>2, <1>3, <1>4, <2>1, Zenon DEF SplitTypes, Frames
<1>7. Slice(mem, base, base + size) = Slice(Input, At, Len(Input))
  <2>1. 0 + 0 = 0
    OBVIOUS
  <2>2. QED
    BY <1>2, <1>3, <1>4, <1>5, <2>1, Zenon
<1>8. Onward(Input, Found, At)
  <2>1. Found = <<>>
    <3>1. Found \in Reads /\ Len(Found) = 0
      BY <1>2, <1>3, FoundType, Zenon
    <3>2. QED
      BY <3>1 DEF Reads
  <2>2. ASSUME NEW e \in Seq(Byte)
        PROVE  ImagesOf(q \o e) = <<>> \o After(q \o e)[0]
    <3>1. q \o e = e
      BY <1>1
    <3>2. 0 \in 0 .. Len(e)
      OBVIOUS
    <3>3. PICK r \in Reads : r = After(e)[0]
      BY <3>2, AfterType
    <3>4. <<>> \o r = r
      BY DEF Reads
    <3>5. ImagesOf(e) = r
      BY <3>3, ImagesAfter, Zenon
    <3>6. QED
      BY <3>1, <3>3, <3>4, <3>5, Zenon
  <2>3. QED
    BY <1>4, <1>5, <2>1, <2>2, Zenon DEF Onward
<1>9. After(q)[0] = <<>>
  <2>1. ~Whole(q, 0)
    <3>1. SUFFICES ASSUME Whole(q, 0) PROVE FALSE
      OBVIOUS
    <3>2. PICK b \in Nat : 0 < b /\ b <= Len(q)
      BY <1>2, <3>1, BehindLater, Zenon
    <3>3. QED
      BY <1>2, <3>2
  <2>2. 0 <= Len(q)
    BY <1>2
  <2>3. QED
    BY <1>2, <2>1, <2>2, AfterNone, Zenon
<1>10. \A k \in 1 .. Len(images) : Stays(images[k], reads, mem, base)
  <2>1. 1 .. Len(q) = {}
    BY <1>2
  <2>2. QED
    BY <1>3, <2>1, Zenon
<1>11. QED
  BY <1>3, <1>4, <1>5, <1>6, <1>7, <1>8, <1>9, <1>10, Zenon DEF SplitInv

(* What a read finds: the stream was old and is s, its part from c on is   *)
(* data, n bytes, and the array is w.                                      *)
Has(chunk, old, s, c, data, n, w) ==
  /\ old = Input /\ s = Input' /\ s = old \o chunk /\ c = At
  /\ c + size = Len(old) /\ c <= Len(s) /\ c + n = Len(s)
  /\ n = Len(data) /\ data = Slice(s, c, Len(s))
  /\ reads' \in Reads /\ reads' = Append(reads, chunk)
  /\ s = FlattenSeq(reads')
  /\ w = mem' /\ base + n <= Len(w) /\ Len(mem) <= Len(w)
  /\ Slice(w, base, base + n) = data
  /\ \A i \in 1 .. base + size : w[i] = mem[i]

LEMMA ReadHas ==
  ASSUME SplitInv, NEW chunk \in Seq(Byte), reads' = Append(reads, chunk), mem' = Written(chunk),
         NEW data, data = Slice(mem, base, base + size) \o chunk
  PROVE  /\ data \in Seq(Byte)
         /\ \E old \in Seq(Byte), s \in Seq(Byte), c \in Nat, n \in Nat, w \in Seq(Byte) :
              Has(chunk, old, s, c, data, n, w)
<1>1. /\ reads \in Reads /\ mem \in Seq(Byte) /\ base \in Nat /\ size \in Nat
      /\ base + size <= Len(mem) /\ size <= Len(Input)
      /\ Slice(mem, base, base + size) = Slice(Input, At, Len(Input))
  BY Zenon DEF SplitInv, SplitTypes
<1>2. PICK old \in Seq(Byte), s \in Seq(Byte) :
        /\ old = Input /\ s = Input' /\ s = old \o chunk
        /\ reads' \in Reads /\ s = FlattenSeq(reads')
  <2>1. /\ Append(reads, chunk) \in Reads /\ FlattenSeq(reads) \in Seq(Byte)
        /\ FlattenSeq(Append(reads, chunk)) = FlattenSeq(reads) \o chunk
    BY <1>1, FlattenAppend, Zenon
  <2>2. FlattenSeq(reads) \o chunk \in Seq(Byte)
    BY <2>1, ConcatType, Zenon
  <2>3. QED
    BY <2>1, <2>2, Zenon DEF Input
<1>3. Len(old) \in Nat /\ Len(chunk) \in Nat /\ Len(s) = Len(old) + Len(chunk)
  BY <1>2, ConcatType, LenType, Zenon
<1>4. PICK c \in Nat : c = At /\ c + size = Len(old) /\ c <= Len(old) /\ c <= Len(s)
  <2>1. Len(old) - size \in Nat /\ (Len(old) - size) + size = Len(old)
        /\ Len(old) - size <= Len(old) /\ Len(old) - size <= Len(s)
    BY <1>1, <1>2, <1>3
  <2>2. At = Len(old) - size
    BY <1>2, Zenon DEF At
  <2>3. QED
    BY <2>1, <2>2, Zenon
<1>5. data = Slice(s, c, Len(s))
  <2>1. Slice(old, c, Len(old)) \o chunk = Slice(old \o chunk, c, Len(old \o chunk))
    BY <1>4, SliceLonger, SMT
  <2>2. QED
    BY <1>1, <1>2, <1>4, <2>1, Zenon
<1>6. PICK b \in Nat : b = base + size
  BY <1>1
<1>7. WrittenAs(Written(chunk), data, chunk, b)
  <2>1. b <= Len(mem) /\ data = Slice(mem, base, b) \o chunk
    BY <1>1, <1>6, Zenon
  <2>2. QED
    BY <1>1, <1>6, <2>1, WrittenIs, Zenon
<1>8. PICK n \in Nat : n = Len(data) /\ c + n = Len(s)
  <2>1. size \in Nat /\ c + size = Len(old)
    BY <1>1, <1>4, Zenon
  <2>2. \A l \in Nat : size + l \in Nat /\ c + (size + l) = (c + size) + l
    <3>1. size \in Nat
      BY <2>1, Zenon
    <3>2. QED
      BY <3>1
  <2>3. QED
    BY <1>3, <1>7, <2>1, <2>2, Zenon DEF WrittenAs
<1>9. PICK w \in Seq(Byte) : w = mem' /\ WrittenAs(w, data, chunk, b)
  BY <1>7, Zenon DEF WrittenAs
<1>10. Has(chunk, old, s, c, data, n, w)
  BY <1>2, <1>4, <1>5, <1>6, <1>8, <1>9, Zenon DEF Has, WrittenAs
<1>11. QED
  BY <1>7, <1>10, Zenon DEF WrittenAs

(* What remains to be shown of the state after a read.                     *)
LEMMA ReadLeaves ==
  ASSUME NEW chunk, NEW old \in Seq(Byte), NEW s \in Seq(Byte), NEW c \in Nat, NEW n \in Nat,
         NEW data, NEW w \in Seq(Byte), Has(chunk, old, s, c, data, n, w),
         NEW d \in Nat, NEW z \in Nat, NEW b \in Nat, size' = z, base' = b, d + z = Len(s),
         b + z <= Len(w), Slice(w, b, b + z) = Slice(s, d, Len(s)),
         imgStart' => /\ d \in Marks(s, d, SOI) /\ Marks(s, d, EOI) = {}
                      /\ markerPos' \in Nat /\ markerPos' + 1 = z,
         ~imgStart' => markerPos' = 0,
         Onward(s, Found', d), OneEnds(reads') => After(s)[d] = <<>>,
         images' \in Seq(Frames),
         \A k \in 1 .. Len(images') : Stays(images'[k], reads', w, b)
  PROVE  SplitInv'
<1>1. s = Input' /\ w = mem' /\ reads' \in Reads
  BY Zenon DEF Has
<1>2. At' = d
  <2>1. Len(s) - z = d
    OBVIOUS
  <2>2. QED
    BY <1>1, <2>1, Zenon DEF At
<1>3. z <= Len(s)
  OBVIOUS
<1>4. SplitTypes'
  BY <1>1, <1>3, Zenon DEF SplitTypes, Frames
<1>5. QED
  BY <1>1, <1>2, <1>4, Zenon DEF SplitInv

LEMMA StayAll ==
  ASSUME SplitInv, NEW chunk \in Seq(Byte), NEW old, NEW s, NEW c, NEW n, NEW data,
         NEW w \in Seq(Byte), Has(chunk, old, s, c, data, n, w), NEW b \in Nat, base <= b
  PROVE  \A k \in 1 .. Len(images) : Stays(images[k], reads', w, b)
<1>1. /\ reads \in Reads /\ mem \in Seq(Byte) /\ images \in Seq(Frames)
      /\ base \in Nat /\ size \in Nat
      /\ \A k \in 1 .. Len(images) : Stays(images[k], reads, mem, base)
  BY Zenon DEF SplitInv, SplitTypes, Frames
<1>2. /\ reads' = Append(reads, chunk) /\ Len(mem) <= Len(w)
      /\ \A i \in 1 .. base + size : w[i] = mem[i]
  BY Zenon DEF Has
<1>3. ASSUME NEW k \in 1 .. Len(images) PROVE Stays(images[k], reads', w, b)
  <2>1. PICK im \in Frames : im = images[k]
    BY <1>1
  <2>2. PICK a \in Nat, z \in Nat : a = base /\ z = base + size /\ a <= z /\ a <= b
    BY <1>1
  <2>3. Stays(im, reads, mem, a)
    BY <1>1, <2>1, <2>2, Zenon
  <2>4. \A i \in 1 .. z : w[i] = mem[i]
    BY <1>2, <2>2, Zenon
  <2>5. Stays(im, Append(reads, chunk), w, b)
    BY <1>1, <1>2, <2>2, <2>3, <2>4, StaysOn, Zenon
  <2>6. QED
    BY <1>2, <2>1, <2>5, Zenon
<1>4. QED
  BY <1>3

LEMMA OnwardStill ==
  ASSUME SplitInv, NEW chunk \in Seq(Byte), NEW old \in Seq(Byte), NEW s, NEW c, NEW n, NEW data,
         NEW w, Has(chunk, old, s, c, data, n, w)
  PROVE  Onward(s, Found, c)
<1>1. old = Input /\ s = old \o chunk /\ c = At
  BY Zenon DEF Has
<1>2. Onward(old, Found, c)
  BY <1>1, Zenon DEF SplitInv
<1>3. Onward(old \o chunk, Found, c)
  BY <1>2, OnwardWith, Zenon
<1>4. QED
  BY <1>1, <1>3, Zenon

(* No start marker in the content.                                         *)
LEMMA NoStartKeeps ==
  ASSUME SplitInv, NEW chunk \in Seq(Byte), NEW old \in Seq(Byte), NEW s \in Seq(Byte),
         NEW c \in Nat, NEW n \in Nat, NEW data \in Seq(Byte), NEW w \in Seq(Byte),
         Has(chunk, old, s, c, data, n, w), NoStart(data)
  PROVE  SplitInv'
<1>1. /\ base \in Nat /\ images \in Seq(Frames)
      /\ imgStart => c \in Marks(old, c, SOI)
      /\ ~imgStart => markerPos = 0
  BY Zenon DEF SplitInv, SplitTypes, Frames, Has
<1>2. /\ s = old \o chunk /\ c <= Len(s) /\ c + n = Len(s) /\ n = Len(data)
      /\ data = Slice(s, c, Len(s)) /\ base + n <= Len(w) /\ Slice(w, base, base + n) = data
  BY Zenon DEF Has
<1>3. /\ FindStart(data) = {} /\ size' = n /\ base' = base /\ imgStart' = imgStart
      /\ markerPos' = markerPos /\ images' = images
  BY <1>2, Zenon DEF NoStart
<1>4. ~imgStart
  <2>1. {0} # {}
    OBVIOUS
  <2>2. QED
    BY <1>3, <2>1, Zenon DEF FindStart
<1>5. Marks(s, c, SOI) = {}
  <2>1. StartFound(data, s, c)
    BY <1>1, <1>2, SearchStart, Zenon
  <2>2. QED
    BY <1>3, <2>1, Zenon DEF StartFound
<1>6. After(s)[c] = <<>>
  <2>1. ~Whole(s, c)
    BY <1>5, Zenon DEF Whole
  <2>2. QED
    BY <1>2, <2>1, AfterNone, Zenon
<1>7. Found' = Found
  BY <1>3, Zenon DEF Found
<1>8. Onward(s, Found', c)
  BY <1>7, OnwardStill, Zenon
<1>9. \A k \in 1 .. Len(images') : Stays(images'[k], reads', w, base)
  <2>1. base <= base
    BY <1>1
  <2>2. \A k \in 1 .. Len(images) : Stays(images[k], reads', w, base)
    BY <1>1, <2>1, StayAll, Zenon
  <2>3. QED
    BY <1>3, <2>2, Zenon
<1>10. PICK b \in Nat : b = base
  BY <1>1
<1>11. QED
  BY <1>1, <1>2, <1>3, <1>4, <1>6, <1>8, <1>9, <1>10, ReadLeaves, Zenon

Twice(s, a, b, i, j) == Slice(Slice(s, a, b), i, j) = Slice(s, a + i, a + j)

LEMMA SliceTwice ==
  ASSUME NEW s \in Seq(Byte), NEW a \in Nat, NEW b \in Nat, a <= b, b <= Len(s),
         NEW i \in Nat, NEW j \in Nat, i <= j, j <= b - a
  PROVE  Twice(s, a, b, i, j)
BY SliceOfSlice, SMT DEF Twice

InStream(c, n, k, m, l) ==
  /\ l \in Nat /\ c <= l /\ l <= l /\ n <= l - c /\ c + n = l
  /\ k <= n /\ n <= n /\ m <= l /\ m + (n - k) = l /\ n - k \in Nat

LEMMA Lengths ==
  ASSUME NEW c \in Nat, NEW n \in Nat, NEW k \in Nat, NEW m \in Nat, NEW l,
         c + n = l, m = c + k, m + 2 <= l
  PROVE  InStream(c, n, k, m, l)
BY DEF InStream

(* Where the image begins: k bytes on, at the stream's place m.            *)
Starts(s, c, data, n, k, m, jpeg) ==
  /\ k = First(FindStart(data)) /\ m = c + k /\ k <= n
  /\ Marks(s, c, SOI) # {} /\ m = First(Marks(s, c, SOI))
  /\ m \in Marks(s, m, SOI) /\ m + 2 <= Len(s)
  /\ jpeg = Slice(data, k, Len(data))
  /\ jpeg = Slice(s, m, Len(s)) /\ Len(jpeg) = n - k
  /\ (m + (n - k)) = Len(s)
  /\ markerPos \in Nat
  /\ EndFound(jpeg, markerPos, s, m)

LEMMA ReadStarts ==
  ASSUME SplitInv, NEW chunk \in Seq(Byte), NEW old \in Seq(Byte), NEW s \in Seq(Byte),
         NEW c \in Nat, NEW n \in Nat, NEW data \in Seq(Byte), NEW w \in Seq(Byte),
         Has(chunk, old, s, c, data, n, w), FindStart(data) # {}
  PROVE  \E k \in Nat, m \in Nat, jpeg \in Seq(Byte) : Starts(s, c, data, n, k, m, jpeg)
<1>1. /\ imgStart => c \in Marks(old, c, SOI) /\ Marks(old, c, EOI) = {}
                     /\ markerPos \in Nat /\ markerPos + 1 = size
      /\ ~imgStart => markerPos = 0
  BY Zenon DEF SplitInv, Has
<1>2. /\ s = old \o chunk /\ c <= Len(s) /\ c + n = Len(s) /\ n = Len(data)
      /\ data = Slice(s, c, Len(s)) /\ c + size = Len(old)
  BY Zenon DEF Has
<1>3. PICK k \in Nat : k = First(FindStart(data)) /\ c + k = First(Marks(s, c, SOI))
                       /\ Marks(s, c, SOI) # {}
  <2>1. StartFound(data, s, c)
    BY <1>1, <1>2, SearchStart, Zenon
  <2>2. QED
    BY <2>1, Zenon DEF StartFound
<1>4. PICK m \in Nat : m = c + k
  OBVIOUS
<1>5. /\ Marks(s, First(Marks(s, c, SOI)), SOI) = Marks(s, c, SOI)
      /\ First(Marks(s, c, SOI)) + 2 <= Len(s)
  <2>1. Settled(s, c, First(Marks(s, c, SOI)), SOI)
    BY <1>3, FirstToItself, Zenon
  <2>2. QED
    BY <2>1, Zenon DEF Settled
<1>6. m \in Marks(s, m, SOI) /\ m + 2 <= Len(s) /\ m = First(Marks(s, c, SOI))
  <2>1. Marks(s, c, SOI) \subseteq Nat
    BY MarkIn, Zenon
  <2>2. First(Marks(s, c, SOI)) \in Marks(s, c, SOI)
    BY <1>3, <2>1, FirstIn, Zenon
  <2>3. QED
    BY <1>3, <1>4, <1>5, <2>2, Zenon
<1>7. k <= n /\ n <= n /\ m <= Len(s) /\ m + (n - k) = Len(s) /\ InStream(c, n, k, m, Len(s))
  <2>1. c + n = Len(s) /\ m = c + k /\ m + 2 <= Len(s)
    BY <1>2, <1>4, <1>6, Zenon
  <2>2. InStream(c, n, k, m, Len(s))
    BY <2>1, Lengths, Zenon
  <2>3. QED
    BY <2>2, Zenon DEF InStream
<1>8. PICK jpeg \in Seq(Byte) : jpeg = Slice(data, k, n) /\ Len(jpeg) = n - k
  <2>1. k <= n /\ n <= Len(data)
    BY <1>2, <1>7, Zenon
  <2>2. QED
    BY <2>1, SliceType, Zenon
<1>9. jpeg = Slice(s, m, Len(s))
  <2>1. PICK l \in Nat : l = Len(s) /\ c <= l /\ l <= Len(s) /\ n <= l - c /\ c + n = l
    BY <1>7, Zenon DEF InStream
  <2>2. Twice(s, c, l, k, n)
    BY <1>7, <2>1, SliceTwice, Zenon
  <2>3. QED
    BY <1>2, <1>4, <1>8, <2>1, <2>2, Zenon DEF Twice
<1>10. markerPos \in Nat
       /\ (markerPos = 0 \/ ((m + markerPos) + 1 = Len(old) /\ Marks(old, m, EOI) = {}))
  <2>1. CASE imgStart
    <3>1. FindStart(data) = {0}
      BY <2>1, Zenon DEF FindStart
    <3>2. k = 0
      <4>1. {0} \subseteq Nat /\ {0} # {}
        OBVIOUS
      <4>2. First({0}) \in {0}
        BY <4>1, FirstIn, Zenon
      <4>3. QED
        BY <1>3, <3>1, <4>2
    <3>3. m = c
      BY <1>4, <3>2
    <3>4. markerPos \in Nat /\ markerPos + 1 = size /\ Marks(old, m, EOI) = {}
      BY <1>1, <2>1, <3>3, Zenon
    <3>5. (m + markerPos) + 1 = m + size
      BY <3>4
    <3>6. QED
      BY <1>2, <3>3, <3>4, <3>5, Zenon
  <2>2. CASE ~imgStart
    <3>1. markerPos = 0 /\ 0 \in Nat
      BY <1>1, <2>2
    <3>2. QED
      BY <3>1, Zenon
  <2>3. QED
    BY <2>1, <2>2, Zenon
<1>11. PICK p \in Nat : p = markerPos
  BY <1>10
<1>12. EndFound(jpeg, p, s, m)
  BY <1>2, <1>7, <1>9, <1>10, <1>11, SearchEnd, Zenon
<1>13. Starts(s, c, data, n, k, m, jpeg)
  BY <1>2, <1>3, <1>4, <1>6, <1>7, <1>8, <1>9, <1>11, <1>12, Zenon DEF Starts
<1>14. QED
  BY <1>13

(* A start marker, and no end marker behind it.                            *)
LEMMA NoEndKeeps ==
  ASSUME SplitInv, NEW chunk \in Seq(Byte), NEW old \in Seq(Byte), NEW s \in Seq(Byte),
         NEW c \in Nat, NEW n \in Nat, NEW data \in Seq(Byte), NEW w \in Seq(Byte),
         Has(chunk, old, s, c, data, n, w), NoEnd(data)
  PROVE  SplitInv'
<1>1. base \in Nat /\ images \in Seq(Frames)
  BY Zenon DEF SplitInv, SplitTypes, Frames
<1>2. /\ c + n = Len(s) /\ n = Len(data) /\ c <= Len(s)
      /\ data = Slice(s, c, Len(s)) /\ base + n <= Len(w) /\ Slice(w, base, base + n) = data
  BY Zenon DEF Has
<1>3. FindStart(data) # {}
  BY Zenon DEF NoEnd
<1>4. PICK k \in Nat, m \in Nat, jpeg \in Seq(Byte) : Starts(s, c, data, n, k, m, jpeg)
  BY <1>3, ReadStarts, Zenon
<1>5. /\ k = First(FindStart(data)) /\ m = c + k /\ k <= n
      /\ Marks(s, c, SOI) # {} /\ m = First(Marks(s, c, SOI))
      /\ m \in Marks(s, m, SOI) /\ m + 2 <= Len(s)
      /\ jpeg = Slice(data, k, Len(data))
      /\ jpeg = Slice(s, m, Len(s)) /\ Len(jpeg) = n - k /\ m + (n - k) = Len(s)
      /\ Marks(jpeg, markerPos, EOI) = {} <=> Marks(s, m, EOI) = {}
  BY <1>4, Zenon DEF Starts, EndFound
<1>6. /\ Marks(jpeg, markerPos, EOI) = {}
      /\ base' = base + k /\ size' = Len(jpeg) /\ imgStart'
      /\ markerPos' = Len(jpeg) - 1 /\ images' = images
  BY <1>5, Zenon DEF NoEnd
<1>7. PICK b \in Nat, z \in Nat :
        /\ b = base + k /\ z = n - k /\ base <= b /\ b + z = base + n /\ m + z = Len(s)
        /\ z - 1 \in Nat /\ (z - 1) + 1 = z /\ m <= Len(s)
  <2>1. k <= n /\ m + (n - k) = Len(s) /\ m + 2 <= Len(s)
    BY <1>5, Zenon
  <2>2. PICK z \in Nat : z = n - k
    BY <2>1
  <2>3. m + z = Len(s) /\ 2 <= z /\ m <= Len(s)
    BY <2>1, <2>2
  <2>4. PICK b \in Nat : b = base + k /\ base <= b
    BY <1>1
  <2>5. b + z = base + n
    BY <1>1, <2>2, <2>4
  <2>6. z - 1 \in Nat /\ (z - 1) + 1 = z
    BY <2>3
  <2>7. QED
    BY <2>2, <2>3, <2>4, <2>5, <2>6, Zenon
<1>8. size' = z /\ base' = b /\ markerPos' = z - 1
  BY <1>5, <1>6, <1>7, Zenon
<1>9. Slice(w, b, b + z) = Slice(s, m, Len(s))
  <2>1. /\ base + n <= Len(w) /\ c + n = Len(s) /\ Slice(w, base, base + n) = Slice(s, c, c + n)
        /\ k <= n
    BY <1>2, <1>5, Zenon
  <2>2. n <= n
    OBVIOUS
  <2>3. Same(w, base, s, c, k, n)
    BY <1>1, <2>1, <2>2, ContentFrom, Zenon
  <2>4. QED
    BY <1>5, <1>7, <2>1, <2>3, Zenon DEF Same
<1>10. Marks(s, m, EOI) = {}
  BY <1>5, <1>6, Zenon
<1>11. After(s)[m] = <<>>
  <2>1. Settled(s, c, First(Marks(s, c, SOI)), SOI)
    BY <1>5, FirstToItself, Zenon
  <2>2. ~Whole(s, m)
    BY <1>5, <1>10, <2>1, Zenon DEF Whole, Settled
  <2>3. QED
    BY <1>7, <2>2, AfterNone, Zenon
<1>12. Onward(s, Found', m)
  <2>1. Onward(s, Found, c)
    BY OnwardStill, Zenon
  <2>2. Onward(s, Found, First(Marks(s, c, SOI)))
    BY <1>5, <2>1, OnwardSkips, Zenon
  <2>3. QED
    BY <1>5, <1>6, <2>2, Zenon DEF Found
<1>13. \A i \in 1 .. Len(images') : Stays(images'[i], reads', w, b)
  <2>1. \A i \in 1 .. Len(images) : Stays(images[i], reads', w, b)
    BY <1>7, StayAll, Zenon
  <2>2. QED
    BY <1>6, <2>1, Zenon
<1>14. b + z <= Len(w)
  BY <1>2, <1>7, Zenon
<1>15. QED
  BY <1>1, <1>5, <1>6, <1>7, <1>8, <1>9, <1>10, <1>11, <1>12, <1>13, <1>14,
     ReadLeaves, ZenonT(60)

(* A whole image: what follows it is the new content.                      *)
Cuts(n, k, m, l, z, len) ==
  /\ z \in Nat /\ z = (n - k) - l /\ l <= n - k /\ (m + l) + z = len
  /\ k + l \in Nat /\ k + l <= n /\ (k + l) + z = n /\ m + l \in Nat
  /\ m <= m + l /\ m + l <= len /\ m + 0 = m /\ 0 <= l /\ l <= len - m /\ len <= len

LEMMA CutsIn ==
  ASSUME NEW n \in Nat, NEW k \in Nat, NEW m \in Nat, NEW l \in Nat, NEW len,
         k <= n, m + (n - k) = len, m + l <= len
  PROVE  Cuts(n, k, m, l, (n - k) - l, len)
BY DEF Cuts

EndsAt(s, c, d) == Whole(s, c) /\ Behind(s, c) = d /\ d <= Len(s)

LEMMA WholeIs ==
  ASSUME NEW s \in Seq(Byte), NEW c \in Nat, NEW m \in Nat, NEW i \in Nat, NEW l, l = i + 2,
         Marks(s, c, SOI) # {}, m = First(Marks(s, c, SOI)), Marks(s, m, EOI) # {},
         m + i = First(Marks(s, m, EOI))
  PROVE  EndsAt(s, c, m + l)
<1>1. Whole(s, c)
  BY Zenon DEF Whole
<1>2. Behind(s, c) = (m + i) + 2
  BY Zenon DEF Behind
<1>3. (m + i) + 2 = m + l
  OBVIOUS
<1>4. Behind(s, c) <= Len(s)
  BY <1>1, BehindLater, Zenon
<1>5. QED
  BY <1>1, <1>2, <1>3, <1>4, Zenon DEF EndsAt

LEMMA FrameIs ==
  ASSUME NEW from \in Nat, NEW to \in Nat, NEW x \in Seq(Byte)
  PROVE  [from |-> from, to |-> to, bytes |-> x] \in Frames
BY DEF Frames

LEMMA AppendEach ==
  ASSUME NEW q \in Seq(Frames), NEW im \in Frames
  PROVE  /\ Append(q, im) \in Seq(Frames)
         /\ \A i \in 1 .. Len(Append(q, im)) :
              (i \in 1 .. Len(q) /\ Append(q, im)[i] = q[i]) \/ Append(q, im)[i] = im
OBVIOUS

(* If no read completes two images, none is left behind the one found.     *)
LEMMA NoneLeft ==
  ASSUME SplitInv, NEW chunk \in Seq(Byte), NEW old \in Seq(Byte), NEW s \in Seq(Byte),
         NEW c, NEW n, NEW data, NEW w, Has(chunk, old, s, c, data, n, w),
         NEW x \in Seq(Byte), NEW d \in Nat, d <= Len(s), Onward(s, Append(Found, x), d),
         OneEnds(reads')
  PROVE  After(s)[d] = <<>>
<1>1. /\ old = Input /\ c = At /\ reads' = Append(reads, chunk) /\ s = FlattenSeq(reads')
      /\ reads \in Reads /\ images \in Seq(Frames) /\ Onward(old, Found, c)
      /\ OneEnds(reads) => After(old)[c] = <<>>
  BY Zenon DEF Has, SplitInv, SplitTypes, Frames
<1>2. PICK f \in Reads : f = Found
  BY <1>1, FoundType, Zenon
<1>3. /\ OneEnds(reads)
      /\ Len(ImagesOf(FlattenSeq(Append(reads, chunk)))) <= Len(ImagesOf(FlattenSeq(reads))) + 1
  <2>1. OneEnds(Append(reads, chunk))
    BY <1>1, Zenon
  <2>2. QED
    BY <1>1, <2>1, OneEndsAppend, Zenon
<1>4. Len(ImagesOf(s)) <= Len(ImagesOf(old)) + 1
  BY <1>1, <1>3, Zenon DEF Input
<1>5. ImagesOf(old) = f
  <2>1. ImagesOf(old) = f \o After(old)[c]
    <3>1. Now(old, f, c)
      BY <1>1, <1>2, OnwardNow, Zenon
    <3>2. QED
      BY <3>1, Zenon DEF Now
  <2>2. f \o <<>> = f
    BY DEF Reads
  <2>3. QED
    BY <1>1, <1>3, <2>1, <2>2, Zenon
<1>6. PICK r \in Reads : r = After(s)[d]
  <2>1. d \in 0 .. Len(s)
    <3>1. Len(s) \in Nat
      BY LenType
    <3>2. QED
      BY <3>1
  <2>2. QED
    BY <2>1, AfterType, Zenon
<1>7. ImagesOf(s) = Append(f, x) \o r
  <2>1. Now(s, Append(f, x), d)
    BY <1>2, OnwardNow, Zenon
  <2>2. QED
    BY <1>6, <2>1, Zenon DEF Now
<1>8. /\ Len(Append(f, x) \o r) = (Len(f) + 1) + Len(r)
      /\ Len(f) \in Nat /\ Len(r) \in Nat
      /\ Len(r) = 0 => r = <<>>
  <2>1. MoreBy(f, x, r)
    BY OneMore, Zenon
  <2>2. QED
    BY <2>1, Zenon DEF MoreBy
<1>9. (Len(f) + 1) + Len(r) <= Len(f) + 1
  BY <1>4, <1>5, <1>7, <1>8, Zenon
<1>10. Len(r) = 0
  BY <1>8, <1>9
<1>11. QED
  BY <1>6, <1>8, <1>10, Zenon

LEMMA CompleteKeeps ==
  ASSUME SplitInv, NEW chunk \in Seq(Byte), NEW old \in Seq(Byte), NEW s \in Seq(Byte),
         NEW c \in Nat, NEW n \in Nat, NEW data \in Seq(Byte), NEW w \in Seq(Byte),
         Has(chunk, old, s, c, data, n, w), Complete(data)
  PROVE  SplitInv'
<1>1. base \in Nat /\ images \in Seq(Frames)
  BY Zenon DEF SplitInv, SplitTypes, Frames
<1>2. /\ c + n = Len(s) /\ n = Len(data)
      /\ data = Slice(s, c, Len(s)) /\ base + n <= Len(w) /\ Slice(w, base, base + n) = data
      /\ reads \in Reads /\ reads' = Append(reads, chunk) /\ s = FlattenSeq(reads')
  BY Zenon DEF Has, SplitInv, SplitTypes
<1>3. FindStart(data) # {}
  BY Zenon DEF Complete
<1>4. PICK k \in Nat, m \in Nat, jpeg \in Seq(Byte) : Starts(s, c, data, n, k, m, jpeg)
  BY <1>3, ReadStarts, Zenon
<1>5. /\ k = First(FindStart(data)) /\ m = c + k /\ k <= n
      /\ Marks(s, c, SOI) # {} /\ m = First(Marks(s, c, SOI))
      /\ jpeg = Slice(data, k, Len(data))
      /\ jpeg = Slice(s, m, Len(s)) /\ Len(jpeg) = n - k /\ m + (n - k) = Len(s)
      /\ EndFound(jpeg, markerPos, s, m)
  BY <1>4, Zenon DEF Starts
<1>6. Marks(jpeg, markerPos, EOI) # {}
  BY <1>5, Zenon DEF Complete
<1>7. PICK i \in Nat : /\ i = First(Marks(jpeg, markerPos, EOI))
                       /\ m + i = First(Marks(s, m, EOI)) /\ Marks(s, m, EOI) # {}
  BY <1>5, <1>6, Zenon DEF EndFound
<1>8. PICK l \in Nat : l = i + 2
  OBVIOUS
<1>9. Whole(s, c) /\ Behind(s, c) = m + l /\ m + l <= Len(s)
  <2>1. EndsAt(s, c, m + l)
    BY <1>5, <1>7, <1>8, WholeIs, Zenon
  <2>2. QED
    BY <2>1, Zenon DEF EndsAt
<1>10. PICK z \in Nat : z = (n - k) - l /\ Cuts(n, k, m, l, z, Len(s))
  <2>1. Cuts(n, k, m, l, (n - k) - l, Len(s))
    BY <1>5, <1>9, CutsIn, Zenon
  <2>2. QED
    BY <2>1, Zenon DEF Cuts
<1>11. PICK x \in Seq(Byte) : x = Slice(jpeg, 0, l) /\ x = Slice(s, m, m + l)
  <2>1. PICK o \in Nat : o = Len(s)
    BY LenType
  <2>2. 0 \in Nat /\ 0 <= l /\ l <= o - m /\ m <= o /\ o <= Len(s) /\ m + 0 = m
        /\ m + l \in Nat /\ m <= m + l /\ m + l <= Len(s)
    <3>1. 0 \in Nat
      OBVIOUS
    <3>2. m <= o
      BY <1>9, <2>1
    <3>3. QED
      BY <1>10, <2>1, <3>1, <3>2, Zenon DEF Cuts
  <2>3. Twice(s, m, o, 0, l)
    BY <2>2, SliceTwice, Zenon
  <2>4. Slice(jpeg, 0, l) = Slice(s, m, m + l)
    BY <1>5, <2>1, <2>2, <2>3, Zenon DEF Twice
  <2>5. Slice(s, m, m + l) \in Seq(Byte)
    BY <2>2, SliceType, Zenon
  <2>6. QED
    BY <2>4, <2>5, Zenon
<1>12. PICK im \in Frames : /\ im = [from |-> base + k, to |-> (base + k) + l, bytes |-> x]
                            /\ im.from = base + k /\ im.to = (base + k) + l /\ im.bytes = x
  <2>1. base + k \in Nat /\ (base + k) + l \in Nat
    BY <1>1
  <2>2. PICK im : im = [from |-> base + k, to |-> (base + k) + l, bytes |-> x]
    OBVIOUS
  <2>3. im \in Frames
    BY <2>1, <2>2, FrameIs, Zenon
  <2>4. im.from = base + k /\ im.to = (base + k) + l /\ im.bytes = x
    BY <2>2, Zenon
  <2>5. QED
    BY <2>2, <2>3, <2>4, Zenon
<1>13. /\ images' = Append(images, im) /\ size' = (n - k) - l
       /\ base' = (base + k) + (IF l < n - k THEN l ELSE 0)
       /\ ~imgStart' /\ markerPos' = 0
  BY <1>5, <1>7, <1>8, <1>11, <1>12, Zenon DEF Complete
<1>14. PICK d \in Nat : d = m + l /\ d <= Len(s) /\ d + z = Len(s)
  BY <1>10, Zenon DEF Cuts
<1>15. Onward(s, Found', d)
  <2>1. Onward(s, Found, c) /\ Found \in Reads
    BY <1>1, OnwardStill, FoundType, Zenon
  <2>2. Onward(s, Append(Found, Slice(s, First(Marks(s, c, SOI)), Behind(s, c))), Behind(s, c))
    BY <1>9, <2>1, OnwardFinds, Zenon
  <2>3. Found' = Append(Found, im.bytes)
    BY <1>1, <1>13, FoundAppend, Zenon
  <2>4. QED
    BY <1>5, <1>9, <1>11, <1>12, <1>14, <2>2, <2>3, Zenon
<1>16. OneEnds(reads') => After(s)[d] = <<>>
  <2>1. Found' = Append(Found, x)
    BY <1>1, <1>12, <1>13, FoundAppend, Zenon
  <2>2. Onward(s, Append(Found, x), d)
    BY <1>15, <2>1, Zenon
  <2>3. QED
    BY <1>14, <2>2, NoneLeft, Zenon
<1>17. PICK b \in Nat :
         /\ base' = b /\ base <= b /\ b + z <= Len(w) /\ Slice(w, b, b + z) = Slice(s, d, Len(s))
         /\ Stays(im, reads', w, b)
  <2>1. Slice(w, base, base + n) = Slice(s, c, c + n) /\ c + n = Len(s) /\ base + n <= Len(w)
    BY <1>2, Zenon
  <2>2. /\ base + k <= (base + k) + l /\ (base + k) + l = base + (k + l)
        /\ base <= (base + k) + l /\ base <= base + k
    BY <1>1
  <2>3. /\ k + l \in Nat /\ k + l <= n /\ (k + l) + z = n /\ z \in Nat
    BY <1>10, Zenon DEF Cuts
  <2>4. im.to <= Len(w)
    <3>1. Len(w) \in Nat
      BY LenType
    <3>2. QED
      BY <1>1, <1>12, <2>1, <2>2, <2>3, <3>1
  <2>5. CASE l < n - k
    <3>1. PICK b \in Nat : b = (base + k) + l
      BY <1>1
    <3>2. base' = b
      BY <1>13, <2>5, <3>1, Zenon
    <3>3. b + z = base + n /\ c + (k + l) = m + l /\ c + k = m /\ b <= b
      <4>1. base \in Nat /\ m = c + k
        BY <1>1, <1>5, Zenon
      <4>2. b + z = base + n
        BY <2>3, <3>1, <4>1
      <4>3. c + (k + l) = m + l /\ b <= b
        BY <4>1
      <4>4. QED
        BY <4>1, <4>2, <4>3, Zenon
    <3>4. n <= n /\ k <= k + l
      OBVIOUS
    <3>5. Same(w, base, s, c, k + l, n)
      BY <1>1, <2>1, <2>3, <3>4, ContentFrom, Zenon
    <3>6. Slice(w, b, b + z) = Slice(s, d, Len(s))
      BY <1>14, <2>1, <2>2, <3>1, <3>3, <3>5, Zenon DEF Same
    <3>7. Same(w, base, s, c, k, k + l)
      BY <1>1, <2>1, <2>3, <3>4, ContentFrom, Zenon
    <3>8. Slice(w, im.from, im.to) = im.bytes
      BY <1>11, <1>12, <2>2, <3>3, <3>7, Zenon DEF Same
    <3>9. Stays(im, reads', w, b)
      BY <1>12, <2>2, <2>4, <3>1, <3>3, <3>8, Zenon DEF Stays
    <3>10. QED
      BY <2>1, <2>2, <3>1, <3>2, <3>3, <3>6, <3>9, Zenon
  <2>6. CASE ~(l < n - k)
    <3>1. z = 0 /\ l = n - k
      <4>1. z = (n - k) - l /\ l <= n - k
        BY <1>10, Zenon DEF Cuts
      <4>2. QED
        BY <2>6, <4>1
    <3>2. PICK b \in Nat : b = base + k
      BY <1>1
    <3>3. base' = b
      <4>1. (base + k) + 0 = base + k
        BY <1>1
      <4>2. QED
        BY <1>13, <2>6, <3>2, <4>1, Zenon
    <3>4. d = Len(s) /\ b + 0 = b
      BY <1>14, <3>1
    <3>5. Slice(w, b, b) = <<>> /\ Slice(s, d, d) = <<>>
      BY DEF Slice
    <3>6. IsSuffix(x, s)
      <4>1. m <= Len(s)
        BY <1>10, <1>14, <3>4
      <4>2. x = Slice(s, m, Len(s))
        BY <1>11, <1>14, <3>4, Zenon
      <4>3. QED
        BY <4>1, <4>2, SliceIsSuffix, Zenon
    <3>7. EndsWith(reads', x)
      <4>1. IsSuffix(x, FlattenSeq(Append(reads, chunk)))
        BY <1>2, <3>6, Zenon
      <4>2. EndsWith(Append(reads, chunk), x)
        BY <1>2, <4>1, EndsWithAppend, Zenon
      <4>3. QED
        BY <1>2, <4>2, Zenon
    <3>8. Stays(im, reads', w, b)
      BY <1>12, <2>2, <2>4, <3>7, Zenon DEF Stays
    <3>9. b <= Len(w)
      BY <1>12, <2>2, <2>4, <3>2
    <3>10. QED
      BY <2>2, <3>1, <3>2, <3>3, <3>4, <3>5, <3>8, <3>9, Zenon
  <2>7. QED
    BY <2>5, <2>6, Zenon
<1>18. /\ images' \in Seq(Frames)
       /\ \A j \in 1 .. Len(images') : Stays(images'[j], reads', w, b)
  <2>1. /\ Append(images, im) \in Seq(Frames)
        /\ \A j \in 1 .. Len(Append(images, im)) :
             (j \in 1 .. Len(images) /\ Append(images, im)[j] = images[j])
               \/ Append(images, im)[j] = im
    BY <1>1, AppendEach, Zenon
  <2>2. \A j \in 1 .. Len(images) : Stays(images[j], reads', w, b)
    BY <1>17, StayAll, Zenon
  <2>3. QED
    BY <1>13, <1>17, <2>1, <2>2, Zenon
<1>19. size' = z
  BY <1>10, <1>13, Zenon
<1>20. QED
  BY <1>13, <1>14, <1>15, <1>16, <1>17, <1>18, <1>19, ReadLeaves, Zenon

LEMMA SplitStep ==
  ASSUME SplitInv, [SplitterNext]_splitterVars
  PROVE  SplitInv'
<1>1. CASE SplitterNext
  <2>1. PICK l \in 1 .. MaxRead : \E chunk \in [1 .. l -> Byte] : Read(chunk)
    BY <1>1, Zenon DEF SplitterNext
  <2>2. PICK chunk \in [1 .. l -> Byte] : Read(chunk)
    BY <2>1
  <2>3. chunk \in Seq(Byte)
    OBVIOUS
  <2>4. PICK data : data = Slice(mem, base, base + size) \o chunk
    OBVIOUS
  <2>5. /\ reads' = Append(reads, chunk) /\ mem' = Written(chunk)
        /\ NoStart(data) \/ NoEnd(data) \/ Complete(data)
    BY <2>2, <2>4, Zenon DEF Read
  <2>6. /\ data \in Seq(Byte)
        /\ \E old \in Seq(Byte), s \in Seq(Byte), c \in Nat, n \in Nat, w \in Seq(Byte) :
             Has(chunk, old, s, c, data, n, w)
    BY <2>3, <2>4, <2>5, ReadHas, Zenon
  <2>7. PICK old \in Seq(Byte), s \in Seq(Byte), c \in Nat, n \in Nat, w \in Seq(Byte) :
          Has(chunk, old, s, c, data, n, w)
    BY <2>6, Zenon
  <2>8. CASE NoStart(data)
    BY <2>3, <2>6, <2>7, <2>8, NoStartKeeps, Zenon
  <2>9. CASE NoEnd(data)
    BY <2>3, <2>6, <2>7, <2>9, NoEndKeeps, Zenon
  <2>10. CASE Complete(data)
    BY <2>3, <2>6, <2>7, <2>10, CompleteKeeps, Zenon
  <2>11. QED
    BY <2>5, <2>8, <2>9, <2>10, Zenon
<1>2. CASE UNCHANGED splitterVars
  <2>1. /\ reads' = reads /\ mem' = mem /\ base' = base /\ size' = size
        /\ imgStart' = imgStart /\ markerPos' = markerPos /\ images' = images
    BY <1>2, Zenon DEF splitterVars
  <2>2. Input' = Input /\ Found' = Found
    BY <2>1, Zenon DEF Input, Found
  <2>3. At' = At
    BY <2>1, <2>2, Zenon DEF At
  <2>4. SplitTypes'
    BY <2>1, <2>2, Zenon DEF SplitInv, SplitTypes
  <2>5. QED
    BY <2>1, <2>2, <2>3, <2>4, Zenon DEF SplitInv
<1>3. QED
  BY <1>1, <1>2

LEMMA SplitAlways == SplitterSpec => []SplitInv
BY SplitStart, SplitStep, PTL DEF SplitterSpec

LEMMA PrefixOfConcat ==
  ASSUME NEW f \in Reads, NEW r \in Reads
  PROVE  IsPrefix(f, f \o r)
<1>1. PICK R : R = Seq(Byte)
  OBVIOUS
<1>2. f \in Seq(R) /\ r \in Seq(R)
  BY <1>1, Zenon DEF Reads
<1>3. QED
  BY <1>2 DEF IsPrefix

(* However ffmpeg's output is cut into reads, the images that readIMG      *)
(* hands on are the first images of that output, in order, and, as long as *)
(* no read completes two of them, they are all of them.                    *)
THEOREM SplitsAlways == SplitterSpec => []SplitsInput
<1>1. ASSUME SplitInv PROVE SplitsInput
  <2>1. /\ images \in Seq(Frames) /\ reads \in Reads /\ size \in Nat /\ size <= Len(Input)
        /\ Onward(Input, Found, At)
        /\ OneEnds(reads) => After(Input)[At] = <<>>
    BY <1>1, Zenon DEF SplitInv, SplitTypes, Frames
  <2>2. PICK f \in Reads : f = Found /\ Len(f) = Len(images)
    BY <2>1, FoundType, Zenon
  <2>3. PICK s \in Seq(Byte) : s = Input
    <3>1. <<>> \in Seq(Byte)
      OBVIOUS
    <3>2. FlattenSeq(reads) \in Seq(Byte)
      BY <2>1, <3>1, FlattenAppend, Zenon
    <3>3. QED
      BY <3>2, Zenon DEF Input
  <2>4. PICK r \in Reads : r = After(s)[At]
    <3>1. Len(s) \in Nat
      BY LenType
    <3>2. At = Len(s) - size /\ size <= Len(s) /\ size \in Nat
      BY <2>1, <2>3, Zenon DEF At
    <3>3. At \in 0 .. Len(s)
      BY <3>1, <3>2
    <3>4. QED
      BY <3>3, AfterType, Zenon
  <2>5. ImagesOf(s) = f \o r
    <3>1. Onward(s, f, At)
      BY <2>1, <2>2, <2>3, Zenon
    <3>2. Now(s, f, At)
      BY <3>1, OnwardNow, Zenon
    <3>3. QED
      BY <2>4, <3>2, Zenon DEF Now
  <2>6. IsPrefix(Found, ImagesOf(Input))
    BY <2>2, <2>3, <2>5, PrefixOfConcat, Zenon
  <2>7. ASSUME AtMostOneEnds PROVE Len(images) = Len(ImagesOf(Input))
    <3>1. OneEnds(reads)
      BY <2>7, OneEndsIs, Zenon
    <3>2. r = <<>>
      BY <2>1, <2>3, <2>4, <3>1, Zenon
    <3>3. f \o <<>> = f
      BY DEF Reads
    <3>4. QED
      BY <2>2, <2>3, <2>5, <3>2, <3>3, Zenon
  <2>8. QED
    BY <2>6, <2>7, Zenon DEF SplitsInput
<1>2. QED
  BY <1>1, SplitAlways, PTL

(* A frame's bytes are overwritten only if the image ended with its read:  *)
(* then readIMG resets the buffer under it.                                *)
THEOREM OverwrittenAlways == SplitterSpec => []OverwrittenOnlyAfterReset
<1>1. ASSUME SplitInv PROVE OverwrittenOnlyAfterReset
  <2>1. \A k \in 1 .. Len(images) : Stays(images[k], reads, mem, base)
    BY <1>1, Zenon DEF SplitInv
  <2>2. QED
    BY <2>1, Zenon DEF Stays, EndsWith, OverwrittenOnlyAfterReset, EndedRead
<1>2. QED
  BY <1>1, SplitAlways, PTL
=============================================================================
