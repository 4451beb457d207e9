--------------------------- MODULE Pictures_proofs ---------------------------
(***************************************************************************)
(* What the clients of mjpg_streamer are sent, for any number of buffers,  *)
(* clients, frames and changes of the resolution: whole pictures, fresh    *)
(* ones, in the order they were taken.  Each theorem names the choices of  *)
(* the constants it needs; they are the ones without which the property is *)
(* false.                                                                  *)
(***************************************************************************)
EXTENDS MjpgStreamer_proofs

\* The camera thread drops every empty frame, or never gets one: with -m a
\* frame without content is too small.
EmptiesDropped == MinimumSize \/ "empty" \notin Kinds

\* The frames the driver holds are of the kinds the camera delivers.
KindsOK == \A i \in DOMAIN filled : filled[i].kind \in Kinds

\* While stop is not set nothing is torn down: main waits, the camera thread
\* is in its loop, the buffer is there.
RunningOK ==
  ~stop => /\ sigPc = "pause" /\ ~cancelled
           /\ camPc \notin {"cleanup", "done"} /\ bufAlive

\* Before the first resolution change no setter is under way.
SettersIdle == resizes = 0 => \A s \in Setters : setPc[s] = "idle"

-----------------------------------------------------------------------------
(***************************************************************************)
(* Three invariants that need nothing else.                                *)
(***************************************************************************)

LEMMA RunningHolds == Spec => []RunningOK
<1>1. Init => RunningOK
  BY DEF Init, FrameInit, InputInit, RunningOK
<1>2. RunningOK /\ [Next]_vars => RunningOK'
  <2> SUFFICES ASSUME RunningOK, [Next]_vars PROVE RunningOK'
    OBVIOUS
  <2> USE DEF RunningOK
  <2>1. CASE CamThread /\ UNCHANGED <<clientVars, sigVars>>
    <3>1. stop' = stop /\ UNCHANGED <<sigPc, cancelled>>
      BY <2>1 DEF CamThread, CamTop, CamResume, CamDequeue, CamMemcpy, CamRequeue, CamCheck,
                  CamLock, CamCopy, CamSize, CamPublish, CamCleanup, CamDequeueFails, sigVars
    <3>2. ~stop => bufAlive' = bufAlive /\ camPc' \notin {"cleanup", "done"}
      BY <2>1 DEF CamThread, CamTop, CamResume, CamDequeue, CamMemcpy, CamRequeue, CamCheck,
                  CamLock, CamCopy, CamSize, CamPublish, CamCleanup, CamDequeueFails,
                  frameVars, inputVars
    <3> QED BY <3>1, <3>2
  <2>2. CASE Deliver /\ UNCHANGED <<clientVars, sigVars>>
    BY <2>2 DEF Deliver, frameVars, sigVars
  <2>3. CASE UNCHANGED sigVars /\ \E s \in Setters : Setter(s)
    BY <2>3 DEF Setter, SetPause, SetStreamOff, SetClose, SetInit, SetEnable, SetFrame,
                frameVars, sigVars
  <2>4. CASE \E r \in Clients : ClientStep(r)
    BY <2>4 DEF ClientStep, Client, ClientRun, Request, StreamTop, ClientLock, CondWait, Relock,
                ReadSize, ReadStamp, ReadPixels, ClientUnlock, Send, SpuriousWakeup, Others,
                inputVars, sigVars
  <2>5. CASE CamCancelled
    BY <2>5 DEF CamCancelled, frameVars, sigVars
  <2>6. CASE SigStep
    BY <2>6 DEF SigStep, SignalHandler, SigStop, SigCancel, SigDestroy, SigExit,
                frameVars, inputVars, sigVars
  <2>7. CASE UNCHANGED vars
    BY <2>7 DEF vars, frameVars, inputVars, sigVars
  <2> QED BY <2>1, <2>2, <2>3, <2>4, <2>5, <2>6, <2>7 DEF Next, InputStep
<1> QED BY <1>1, <1>2, PTL DEF Spec

\* Only setters change what setters depend on.
LEMMA SettersUndisturbed ==
  ASSUME [Next]_vars, ~ \E s \in Setters : Setter(s)
  PROVE  UNCHANGED <<setPc, resizes>>
<1>1. CASE CamThread
  BY <1>1 DEF CamThread, CamTop, CamResume, CamDequeue, CamMemcpy, CamRequeue, CamCheck,
              CamLock, CamCopy, CamSize, CamPublish, CamCleanup, CamDequeueFails, inputVars
<1>2. CASE Deliver
  BY <1>2 DEF Deliver
<1>3. CASE UNCHANGED inputVars
  BY <1>3 DEF inputVars
<1>4. CASE CamCancelled
  BY <1>4 DEF CamCancelled
<1> QED BY <1>1, <1>2, <1>3, <1>4 DEF Next, InputStep, ClientStep, SigStep, vars

LEMMA SettersHold == Spec => []SettersIdle
<1>1. Init => SettersIdle
  BY DEF Init, InputInit, SettersIdle
<1>2. TypeInv /\ SettersIdle /\ [Next]_vars => SettersIdle'
  <2> SUFFICES ASSUME TypeInv, SettersIdle, [Next]_vars PROVE SettersIdle'
    OBVIOUS
  <2>1. ASSUME NEW s \in Setters, Setter(s) PROVE SettersIdle'
    <3>1. CASE SetPause(s)
      <4>1. resizes' = resizes + 1 /\ resizes \in Nat
        BY <3>1 DEF SetPause, TypeInv, TypeOK, InputTypeOK
      <4> QED BY <4>1 DEF SettersIdle
    <3>2. CASE SetStreamOff(s) \/ SetClose(s) \/ SetInit(s) \/ SetEnable(s)
      <4>1. setPc[s] # "idle" /\ resizes' = resizes
        BY <3>2 DEF SetStreamOff, SetClose, SetInit, SetEnable, SetStep
      <4> QED BY <4>1 DEF SettersIdle
    <3> QED BY <2>1, <3>1, <3>2 DEF Setter
  <2>2. CASE UNCHANGED <<setPc, resizes>>
    BY <2>2 DEF SettersIdle
  <2> QED BY <2>1, <2>2, SettersUndisturbed
<1> QED BY <1>1, <1>2, TypesHold, PTL DEF Spec

\* What the camera thread and the driver do to the queue of filled buffers.
LEMMA QueueSteps ==
  ASSUME TypeInv, [Next]_vars
  PROVE  \/ filled' = filled
         \/ filled' = <<>>
         \/ CamDequeue /\ filled # <<>> /\ filled' = Tail(filled)
         \/ Deliver /\ \E k \in Kinds : filled' = Append(filled, [n |-> nxt + 1, kind |-> k])
<1>1. CASE CamThread
  BY <1>1 DEF CamThread, CamTop, CamResume, CamDequeue, CamMemcpy, CamRequeue, CamCheck,
              CamLock, CamCopy, CamSize, CamPublish, CamCleanup, CamDequeueFails,
              inputVars, cameraVars
<1>2. CASE Deliver
  BY <1>2 DEF Deliver
<1>3. CASE UNCHANGED inputVars
  BY <1>3 DEF inputVars, cameraVars
<1>4. CASE CamCancelled
  BY <1>4 DEF CamCancelled, cameraVars
<1>5. CASE \E s \in Setters : Setter(s)
  BY <1>5 DEF Setter, SetPause, SetStreamOff, SetClose, SetInit, SetEnable
<1> QED BY <1>1, <1>2, <1>3, <1>4, <1>5 DEF Next, InputStep, ClientStep, SigStep, vars

\* The elements of a queue after an element is taken or put.
LEMMA TailElements ==
  ASSUME NEW f \in Seq(Frame), f # <<>>
  PROVE  /\ 1 \in DOMAIN f /\ Head(f) = f[1] /\ Len(Tail(f)) = Len(f) - 1
         /\ \A i \in DOMAIN Tail(f) : i + 1 \in DOMAIN f /\ Tail(f)[i] = f[i + 1]
         /\ \A i \in DOMAIN Tail(f) : i \in Nat
BY HeadTailProperties, LenProperties, EmptySeq

LEMMA AppendElements ==
  ASSUME NEW f \in Seq(Frame), NEW e \in Frame
  PROVE  /\ Len(Append(f, e)) = Len(f) + 1
         /\ \A i \in DOMAIN Append(f, e) :
              \/ i \in DOMAIN f /\ Append(f, e)[i] = f[i]
              \/ i = Len(f) + 1 /\ Append(f, e)[i] = e
BY AppendProperties, LenProperties

LEMMA KindsHold == Spec => []KindsOK
<1>1. Init => KindsOK
  BY DEF Init, InputInit, KindsOK
<1>2. TypeInv /\ KindsOK /\ [Next]_vars => KindsOK'
  <2> SUFFICES ASSUME TypeInv, KindsOK, [Next]_vars PROVE KindsOK'
    OBVIOUS
  <2> USE DEF KindsOK
  <2>0. filled \in Seq(Frame) /\ nxt \in 0..MaxFrames
    BY DEF TypeInv, TypeOK, InputTypeOK
  <2>1. CASE filled' = filled \/ filled' = <<>>
    BY <2>1
  <2>2. CASE filled # <<>> /\ filled' = Tail(filled)
    BY <2>0, <2>2, TailElements
  <2>3. ASSUME Deliver, NEW k \in Kinds, filled' = Append(filled, [n |-> nxt + 1, kind |-> k])
        PROVE  KindsOK'
    <3>1. [n |-> nxt + 1, kind |-> k] \in Frame
      BY <2>0, <2>3, InputAssumption DEF Deliver, Frame
    <3> QED BY <2>0, <2>3, <3>1, AppendElements
  <2> QED BY <2>1, <2>2, <2>3, QueueSteps
<1> QED BY <1>1, <1>2, TypesHold, PTL DEF Spec

\* A client leaves everything but its own copy and the mutex.
LEMMA ClientLeaves ==
  ASSUME NEW r \in Clients, Client(r)
  PROVE  UNCHANGED <<stop, pic, bufAlive>>
BY DEF Client, ClientRun, Request, StreamTop, ClientLock, CondWait, Relock, ReadSize, ReadStamp,
       ReadPixels, ClientUnlock, Send, SpuriousWakeup, Others

\* Clients and the signal handler leave the input's state and the picture.
LEMMA OtherSteps ==
  ASSUME (\E r \in Clients : ClientStep(r)) \/ SigStep \/ UNCHANGED vars
  PROVE  UNCHANGED <<inputVars, pic, bufAlive>>
<1>1. CASE \E r \in Clients : ClientStep(r)
  BY <1>1, ClientLeaves DEF ClientStep
<1>2. CASE SigStep
  BY <1>2 DEF SigStep, SignalHandler, SigStop, SigCancel, SigDestroy, SigExit, frameVars
<1>3. CASE UNCHANGED vars
  BY <1>3 DEF vars, frameVars
<1> QED BY <1>1, <1>2, <1>3

-----------------------------------------------------------------------------
(***************************************************************************)
(* BuffersConserved: a buffer leaves the driver when it is dequeued and    *)
(* comes back when it is queued; the thread has one between the two, and   *)
(* never queues the one of an empty frame.                                 *)
(***************************************************************************)

LEMMA CamConserves ==
  ASSUME TypeInv, BuffersConserved, CamThread
  PROVE  BuffersConserved'
<1> USE DEF BuffersConserved
<1>0. /\ filled \in Seq(Frame) /\ free \in Nat /\ NB_BUFFER \in Nat /\ Len(filled) \in Nat
      /\ ignored \in Nat
  BY InputAssumption, LenProperties DEF TypeInv, TypeOK, InputTypeOK
<1>1. CASE CamDequeue
  <2>1. filled # <<>> /\ filled' = Tail(filled) /\ Len(Tail(filled)) = Len(filled) - 1
    BY <1>0, <1>1, TailElements DEF CamDequeue
  <2>2. camPc = "dqbuf" /\ UNCHANGED <<free, resizes, bufAlive>>
    BY <1>1 DEF CamDequeue, frameVars
  <2>3. \/ camPc' = "check" /\ ignored' = ignored + 1
        \/ camPc' = "memcpy" /\ ignored' = ignored
    BY <1>1 DEF CamDequeue
  <2> QED BY <1>0, <2>1, <2>2, <2>3
<1>2. CASE CamRequeue
  <2>1. camPc = "qbuf" /\ UNCHANGED <<filled, ignored, resizes, bufAlive>>
    BY <1>2 DEF CamRequeue, frameVars
  <2>2. UNCHANGED <<free, camPc>> \/ (free' = free + 1 /\ camPc' = "check")
    BY <1>2 DEF CamRequeue
  <2> QED BY <1>0, <2>1, <2>2
<1>3. CASE CamMemcpy
  <2>1. /\ camPc = "memcpy" /\ camPc' \in {"memcpy", "qbuf"}
        /\ UNCHANGED <<filled, free, ignored, resizes, bufAlive>>
    BY <1>3 DEF CamMemcpy, frameVars
  <2> QED BY <2>1
<1>4. CASE CamCleanup
  BY <1>4 DEF CamCleanup
<1>5. CASE CamTop \/ CamResume \/ CamCheck \/ CamLock \/ CamCopy \/ CamSize \/ CamPublish
           \/ CamDequeueFails
  <2>1. /\ UNCHANGED <<filled, free, ignored, resizes, bufAlive>>
        /\ camPc \notin {"memcpy", "qbuf"} /\ camPc' \notin {"memcpy", "qbuf"}
    BY <1>5 DEF CamTop, CamResume, CamCheck, CamLock, CamCopy, CamSize, CamPublish,
                CamDequeueFails, cameraVars, inputVars, frameVars
  <2> QED BY <2>1
<1> QED BY <1>1, <1>2, <1>3, <1>4, <1>5 DEF CamThread

LEMMA NextConserves ==
  ASSUME TypeInv, SettersIdle, BuffersConserved, [Next]_vars
  PROVE  BuffersConserved'
<1>1. CASE CamThread
  BY <1>1, CamConserves
<1>2. CASE Deliver
  <2>1. PICK k \in Kinds : filled' = Append(filled, [n |-> nxt + 1, kind |-> k])
    BY <1>2 DEF Deliver
  <2>2. [n |-> nxt + 1, kind |-> k] \in Frame /\ filled \in Seq(Frame)
    BY <1>2, InputAssumption DEF Deliver, Frame, TypeInv, TypeOK, InputTypeOK
  <2>3. Len(filled') = Len(filled) + 1
    BY <2>1, <2>2, AppendElements
  <2>4. free' = free - 1 /\ UNCHANGED <<camPc, ignored, resizes, bufAlive>>
    BY <1>2 DEF Deliver, frameVars
  <2>5. free \in Nat /\ NB_BUFFER \in Nat /\ Len(filled) \in Nat /\ ignored \in Nat
    BY <2>2, InputAssumption, LenProperties DEF TypeInv, TypeOK, InputTypeOK
  <2> QED BY <2>3, <2>4, <2>5 DEF BuffersConserved
<1>3. ASSUME NEW s \in Setters, Setter(s)
      PROVE  BuffersConserved'
  <2>1. CASE SetPause(s)
    <3>1. resizes \in Nat /\ resizes' = resizes + 1
      BY <2>1 DEF SetPause, TypeInv, TypeOK, InputTypeOK
    <3> QED BY <3>1 DEF BuffersConserved
  <2>2. CASE SetStreamOff(s) \/ SetClose(s) \/ SetInit(s) \/ SetEnable(s)
    <3>1. setPc[s] # "idle" /\ resizes' = resizes
      BY <2>2 DEF SetStreamOff, SetClose, SetInit, SetEnable, SetStep
    <3> QED BY <3>1 DEF BuffersConserved, SettersIdle
  <2> QED BY <1>3, <2>1, <2>2 DEF Setter
<1>4. CASE (\E r \in Clients : ClientStep(r)) \/ SigStep \/ UNCHANGED vars
  <2>1. UNCHANGED <<inputVars, pic, bufAlive>>
    BY <1>4, OtherSteps
  <2> QED BY <2>1 DEF inputVars, cameraVars, BuffersConserved
<1>5. CASE CamCancelled
  BY <1>5 DEF CamCancelled, cameraVars, frameVars, BuffersConserved
<1> QED BY <1>1, <1>2, <1>3, <1>4, <1>5 DEF Next, InputStep

\* Until the resolution is changed a buffer is lost to each frame taken as
\* empty and to nothing else, whatever the camera delivers: what is dropped for
\* being too small is queued again, and none is queued twice.
THEOREM Conservation == Spec => []BuffersConserved
<1>1. Init => BuffersConserved
  <2>1. Len(<<>>) = 0 /\ NB_BUFFER \in Nat
    BY InputAssumption
  <2> QED BY <2>1 DEF Init, InputInit, BuffersConserved
<1>2. TypeInv /\ SettersIdle /\ BuffersConserved /\ [Next]_vars => BuffersConserved'
  BY NextConserves
<1> QED BY <1>1, <1>2, TypesHold, SettersHold, PTL DEF Spec

-----------------------------------------------------------------------------
(***************************************************************************)
(* WholePictures.  Whenever memcpy_picture is called, vd->buf either       *)
(* describes what is in tmpbuffer or was reset by a resolution change, and *)
(* then nothing is copied; and while a client reads, the mutex keeps the   *)
(* camera thread from writing.  For the timestamp vd->buf has to stay as   *)
(* it is until the publication.                                            *)
(***************************************************************************)

GrabWhole ==
  /\ camPc = "qbuf" => tmp = vbuf.n \/ vbuf.n = 0
  /\ camPc = "check" => TooSmall \/ tmp = vbuf.n \/ vbuf.n = 0
  /\ camPc \in {"lock", "copy"} => tmp = vbuf.n \/ vbuf.n = 0
  /\ camPc = "size" => len \in {0, pic.pixels}
  /\ camPc # "size" => pic.size \in {0, pic.pixels}

GrabStamp ==
  /\ camPc = "size" => len \in {0, vbuf.n}
  /\ camPc = "publish" => pic.size \in {0, vbuf.n}
  /\ camPc \notin {"size", "publish"} => pic.size \in {0, pic.stamp}

CopiesWhole ==
  \A r \in Clients :
    /\ rpc[r] = "stamp" => got[r].size = pic.size
    /\ rpc[r] = "copy" => got[r].size = pic.size /\ got[r].stamp = pic.stamp
    /\ rpc[r] \in {"unlock", "send"} => got[r].size \in {0, got[r].pixels}

CopiesStamp ==
  \A r \in Clients : rpc[r] \in {"unlock", "send"} => got[r].size \in {0, got[r].stamp}

WholeInv ==
  ~stop => /\ GrabWhole /\ CopiesWhole
           /\ resizes = 0 => GrabStamp /\ CopiesStamp

LEMMA CamGrabsWhole ==
  ASSUME TypeInv, KindsOK, RunningOK, EmptiesDropped, GrabWhole, ~stop, CamThread
  PROVE  GrabWhole'
<1> USE DEF GrabWhole
<1>0. filled \in Seq(Frame) /\ pic \in Picture
  BY DEF TypeInv, TypeOK, InputTypeOK
<1>1. CASE CamDequeue
  <2>1. /\ vbuf' = Head(filled) /\ Head(filled).kind \in Kinds
        /\ camPc' = IF vbuf'.kind = "empty" THEN "check" ELSE "memcpy"
    BY <1>0, <1>1, TailElements DEF CamDequeue, KindsOK
  <2>2. camPc = "dqbuf" /\ pic' = pic
    BY <1>1 DEF CamDequeue, frameVars
  <2>3. CASE vbuf'.kind = "empty"
    <3>1. TooSmall' /\ camPc' = "check"
      BY <2>1, <2>3 DEF TooSmall, EmptiesDropped
    <3> QED BY <2>2, <3>1
  <2>4. CASE vbuf'.kind # "empty"
    BY <2>1, <2>2, <2>4
  <2> QED BY <2>3, <2>4
<1>2. CASE CamMemcpy
  <2>1. camPc = "memcpy" /\ UNCHANGED <<vbuf, pic>>
    BY <1>2 DEF CamMemcpy, frameVars
  <2>2. camPc' = camPc \/ (camPc' = "qbuf" /\ (tmp' = vbuf.n \/ vbuf.n = 0))
    BY <1>2 DEF CamMemcpy, NoFrame
  <2> QED BY <2>1, <2>2
<1>3. CASE CamRequeue
  BY <1>3 DEF CamRequeue, frameVars
<1>4. CASE CamCheck
  BY <1>4 DEF CamCheck, cameraVars, frameVars
<1>5. CASE CamLock
  BY <1>5 DEF CamLock, cameraVars
<1>6. CASE CamCopy
  <2>1. camPc' = "size" /\ camPc = "copy"
    BY <1>6 DEF CamCopy
  <2>2. len' \in {0, pic'.pixels}
    BY <1>0, <1>6, <2>1 DEF CamCopy, Picture
  <2> QED BY <2>1, <2>2
<1>7. CASE CamSize
  <2>1. /\ pic'.size = len /\ pic'.pixels = pic.pixels
        /\ camPc = "size" /\ camPc' = "publish"
    BY <1>0, <1>7 DEF CamSize, Picture
  <2> QED BY <2>1
<1>8. CASE CamPublish
  <2>1. /\ pic'.pixels = pic.pixels /\ pic'.size = pic.size
        /\ camPc = "publish" /\ camPc' = "top"
    BY <1>0, <1>8 DEF CamPublish, Picture
  <2> QED BY <2>1
<1>9. CASE CamTop \/ CamResume \/ CamDequeueFails
  <2>1. /\ UNCHANGED <<vbuf, tmp, pic>>
        /\ camPc \in {"top", "paused", "dqbuf"} /\ camPc' \in {"paused", "cleanup", "dqbuf"}
    BY <1>9 DEF CamTop, CamResume, CamDequeueFails, inputVars, cameraVars, frameVars
  <2> QED BY <2>1
<1>10. ~ CamCleanup
  BY DEF CamCleanup, RunningOK
<1> QED BY <1>1, <1>2, <1>3, <1>4, <1>5, <1>6, <1>7, <1>8, <1>9, <1>10 DEF CamThread

LEMMA CamStamps ==
  ASSUME TypeInv, RunningOK, GrabStamp, ~stop, CamThread
  PROVE  GrabStamp'
<1> USE DEF GrabStamp
<1>0. pic \in Picture
  BY DEF TypeInv, TypeOK
<1>1. CASE CamCopy
  <2>1. camPc' = "size" /\ vbuf' = vbuf /\ len' \in {0, vbuf.n}
    BY <1>1 DEF CamCopy
  <2> QED BY <2>1
<1>2. CASE CamSize
  <2>1. /\ pic'.size = len /\ vbuf' = vbuf
        /\ camPc = "size" /\ camPc' = "publish"
    BY <1>0, <1>2 DEF CamSize, cameraVars, Picture
  <2> QED BY <2>1
<1>3. CASE CamPublish
  <2>1. /\ pic'.stamp = vbuf.n /\ pic'.size = pic.size
        /\ camPc = "publish" /\ camPc' = "top"
    BY <1>0, <1>3 DEF CamPublish, Picture
  <2> QED BY <2>1
<1>4. CASE CamTop \/ CamResume \/ CamDequeue \/ CamMemcpy \/ CamRequeue \/ CamCheck
           \/ CamLock \/ CamDequeueFails
  <2>1. /\ pic' = pic
        /\ camPc \notin {"size", "publish"} /\ camPc' \notin {"size", "publish"}
    BY <1>4 DEF CamTop, CamResume, CamDequeue, CamMemcpy, CamRequeue, CamCheck,
                CamLock, CamDequeueFails, inputVars, frameVars
  <2> QED BY <2>1
<1>5. ~ CamCleanup
  BY DEF CamCleanup, RunningOK
<1> QED BY <1>1, <1>2, <1>3, <1>4, <1>5 DEF CamThread

\* A setter leaves what the thread has grabbed, or resets vd->buf.
LEMMA SetterKeepsWhole ==
  ASSUME GrabWhole, NEW s \in Setters, Setter(s)
  PROVE  GrabWhole'
<1>1. /\ UNCHANGED <<camPc, tmp, len, pic>>
      /\ vbuf' = vbuf \/ vbuf' = NoFrame
  BY DEF Setter, SetPause, SetStreamOff, SetClose, SetInit, SetInitDone, SetInitFails, SetEnable,
         SetFrame, frameVars
<1>2. CASE vbuf' = vbuf
  BY <1>1, <1>2 DEF GrabWhole, TooSmall
<1>3. CASE vbuf' = NoFrame
  BY <1>1, <1>3 DEF GrabWhole, NoFrame
<1> QED BY <1>1, <1>2, <1>3

\* No client stands between lock and unlock while the thread writes pic.
LEMMA CamLeavesCopies ==
  ASSUME TypeInv, MutualExclusion, CopiesWhole, CamThread, UNCHANGED clientVars
  PROVE  CopiesWhole' /\ (CopiesStamp => CopiesStamp')
<1>0. CopiesStamp => CopiesStamp'
  BY DEF CopiesStamp, clientVars
<1>1. CASE CamCopy \/ CamSize \/ CamPublish
  <2>1. \A r \in Clients : rpc[r] \notin {"stamp", "copy"}
    BY <1>1, Threads DEF CamCopy, CamSize, CamPublish, MutualExclusion, Holding
  <2> QED BY <1>0, <2>1 DEF CopiesWhole, clientVars
<1>2. CASE ~ (CamCopy \/ CamSize \/ CamPublish)
  <2>1. pic' = pic
    BY <1>2 DEF CamThread, CamTop, CamResume, CamDequeue, CamMemcpy, CamRequeue, CamCheck,
                CamLock, CamCleanup, CamDequeueFails, frameVars
  <2> QED BY <1>0, <2>1 DEF CopiesWhole, clientVars
<1> QED BY <1>1, <1>2

LEMMA ClientCopiesWhole ==
  ASSUME TypeInv, MutualExclusion, RunningOK, GrabWhole, CopiesWhole, ~stop,
         NEW r \in Clients, Client(r)
  PROVE  CopiesWhole' /\ (GrabStamp /\ CopiesStamp => CopiesStamp')
<1> USE DEF CopiesWhole, CopiesStamp
<1>0. /\ got \in [Clients -> Picture] /\ pic \in Picture
      /\ DOMAIN rpc = Clients /\ DOMAIN got = Clients /\ pic' = pic
  BY ClientLeaves DEF TypeInv, TypeOK, ClientTypeOK
<1>1. ASSUME rpc[r] = "copy"
      PROVE  /\ pic.size \in {0, pic.pixels} /\ (GrabStamp => pic.size \in {0, pic.stamp})
             /\ got[r].size = pic.size /\ got[r].stamp = pic.stamp
  BY <1>1, Threads DEF MutualExclusion, Holding, GrabWhole, GrabStamp
<1>2. ASSUME NEW to, rpc' = [rpc EXCEPT ![r] = to], got' = got,
             to \notin {"stamp", "copy", "unlock", "send"}
      PROVE  CopiesWhole' /\ (CopiesStamp => CopiesStamp')
  BY <1>0, <1>2
<1>3. CASE ReadSize(r)
  <2>1. CASE Goto(r, "size", "stamp") /\ got' = [got EXCEPT ![r].size = pic.size]
    BY <1>0, <2>1 DEF Goto, Picture
  <2>2. CASE Goto(r, "size", "done") /\ got' = got
    BY <1>2, <2>2 DEF Goto
  <2> QED BY <1>3, <2>1, <2>2 DEF ReadSize
<1>4. CASE ReadStamp(r)
  BY <1>0, <1>4 DEF ReadStamp, Goto, Picture
<1>5. CASE ReadPixels(r)
  <2>1. /\ Goto(r, "copy", "unlock")
        /\ \/ got[r].size = 0 /\ got' = got
           \/ got' = [got EXCEPT ![r].pixels = pic.pixels]
    BY <1>5 DEF ReadPixels, RunningOK
  <2>2. /\ got'[r].size \in {0, got'[r].pixels}
        /\ GrabStamp => got'[r].size \in {0, got'[r].stamp}
    BY <1>0, <1>1, <2>1 DEF Goto, Picture
  <2>3. \A q \in Clients : q # r => got'[q] = got[q]
    BY <1>0, <2>1
  <2> QED BY <1>0, <2>1, <2>2, <2>3 DEF Goto
<1>6. CASE ClientUnlock(r)
  BY <1>0, <1>6 DEF ClientUnlock, Goto
<1>7. CASE Request(r) \/ StreamTop(r) \/ ClientLock(r) \/ CondWait(r) \/ Relock(r) \/ Send(r)
  <2>1. PICK to : /\ rpc' = [rpc EXCEPT ![r] = to] /\ got' = got
                  /\ to \notin {"stamp", "copy", "unlock", "send"}
    BY <1>7 DEF Request, StreamTop, ClientLock, CondWait, Relock, Send, Goto
  <2> QED BY <1>2, <2>1
<1>8. CASE SpuriousWakeup(r)
  BY <1>0, <1>8 DEF SpuriousWakeup, clientVars
<1> QED BY <1>3, <1>4, <1>5, <1>6, <1>7, <1>8 DEF Client, ClientRun

LEMMA NextWhole ==
  ASSUME TypeInv, KindsOK, RunningOK, SettersIdle, MutualExclusion, EmptiesDropped,
         WholeInv, [Next]_vars
  PROVE  WholeInv'
<1> SUFFICES ASSUME ~stop'
             PROVE  (GrabWhole /\ CopiesWhole /\ (resizes = 0 => GrabStamp /\ CopiesStamp))'
  BY DEF WholeInv
<1>1. CASE CamThread /\ UNCHANGED clientVars
  <2>1. stop' = stop /\ resizes' = resizes
    BY <1>1 DEF CamThread, CamTop, CamResume, CamDequeue, CamMemcpy, CamRequeue, CamCheck,
                CamLock, CamCopy, CamSize, CamPublish, CamCleanup, CamDequeueFails, inputVars
  <2> QED BY <1>1, <2>1, CamGrabsWhole, CamStamps, CamLeavesCopies DEF WholeInv
<1>2. CASE \E r \in Clients : ClientStep(r)
  <2>1. PICK r \in Clients : Client(r) /\ UNCHANGED <<inputVars, sigVars>>
    BY <1>2 DEF ClientStep
  <2>2. stop' = stop /\ resizes' = resizes /\ UNCHANGED <<camPc, vbuf, tmp, len, pic>>
    BY <2>1, ClientLeaves DEF inputVars, cameraVars
  <2>3. GrabWhole' /\ (GrabStamp => GrabStamp')
    BY <2>2 DEF WholeInv, GrabWhole, GrabStamp, TooSmall
  <2> QED BY <2>1, <2>2, <2>3, ClientCopiesWhole DEF WholeInv
<1>3. CASE UNCHANGED clientVars /\ \E s \in Setters : Setter(s)
  <2>1. PICK s \in Setters : Setter(s)
    BY <1>3
  <2>2. UNCHANGED <<pic, stop>>
    BY <2>1 DEF Setter, SetPause, SetStreamOff, SetClose, SetInit, SetEnable, SetFrame, frameVars
  <2>3. GrabWhole' /\ CopiesWhole'
    BY <1>3, <2>1, <2>2, SetterKeepsWhole DEF WholeInv, CopiesWhole, clientVars
  <2>4. resizes' # 0
    <3>1. resizes \in Nat
      BY DEF TypeInv, TypeOK, InputTypeOK
    <3>2. CASE SetPause(s)
      BY <3>1, <3>2 DEF SetPause
    <3>3. CASE SetStreamOff(s) \/ SetClose(s) \/ SetInit(s) \/ SetEnable(s)
      <4>1. setPc[s] # "idle" /\ resizes' = resizes
        BY <3>3 DEF SetStreamOff, SetClose, SetInit, SetEnable, SetStep
      <4> QED BY <4>1 DEF SettersIdle
    <3> QED BY <2>1, <3>2, <3>3 DEF Setter
  <2> QED BY <2>3, <2>4
<1>4. CASE Deliver /\ UNCHANGED clientVars
  <2>1. UNCHANGED <<camPc, vbuf, tmp, len, pic, stop, resizes>>
    BY <1>4 DEF Deliver, frameVars
  <2> QED BY <1>4, <2>1 DEF clientVars, WholeInv, GrabWhole, GrabStamp, CopiesWhole, CopiesStamp,
                           TooSmall
<1>5. CASE CamCancelled
  BY <1>5 DEF CamCancelled, RunningOK
<1>6. CASE SigStep \/ UNCHANGED vars
  <2>1. UNCHANGED <<inputVars, clientVars, pic>> /\ (stop' = stop \/ stop')
    BY <1>6, OtherSteps DEF SigStep, SignalHandler, SigStop, SigCancel, SigDestroy, SigExit, vars
  <2> QED BY <2>1 DEF inputVars, cameraVars, clientVars, WholeInv, GrabWhole, GrabStamp,
                      CopiesWhole, CopiesStamp, TooSmall
<1> QED BY <1>1, <1>2, <1>3, <1>4, <1>5, <1>6 DEF Next, InputStep

\* Length and content of what a client writes are of one grab, for any number
\* of clients, spuriously woken or not, and over any changes of the resolution,
\* until the program is told to stop; so is the timestamp until the first
\* change of the resolution.
THEOREM Wholeness ==
  ASSUME EmptiesDropped
  PROVE  Spec => []WholePictures
<1>1. Init => WholeInv
  <2> SUFFICES ASSUME Init PROVE WholeInv
    OBVIOUS
  <2>1. camPc = "top" /\ pic.size = 0 /\ \A r \in Clients : rpc[r] = "new"
    BY DEF Init, FrameInit, InputInit, ClientInit, NoPicture
  <2> QED BY <2>1 DEF WholeInv, GrabWhole, GrabStamp, CopiesWhole, CopiesStamp
<1>2. /\ TypeInv /\ KindsOK /\ RunningOK /\ SettersIdle /\ MutualExclusion
      /\ WholeInv /\ [Next]_vars
      => WholeInv'
  BY NextWhole
<1>3. WholeInv => WholePictures
  BY DEF WholeInv, CopiesWhole, CopiesStamp, WholePictures
<1> QED BY <1>1, <1>2, <1>3, TypesHold, KindsHold, RunningHolds, SettersHold, Exclusion, PTL DEF Spec

-----------------------------------------------------------------------------
(***************************************************************************)
(* FreshPictures.  Frames are numbered as they are taken, so the order of  *)
(* the queue makes every frame the camera thread takes newer than all it   *)
(* took before.                                                            *)
(***************************************************************************)

OrderOK ==
  /\ vbuf.n <= nxt /\ tmp <= nxt /\ pic.pixels <= nxt
  /\ \A i \in DOMAIN filled :
       /\ vbuf.n < filled[i].n /\ tmp < filled[i].n /\ pic.pixels < filled[i].n
       /\ filled[i].n <= nxt
  /\ \A i, j \in DOMAIN filled : i < j => filled[i].n < filled[j].n

LEMMA NextOrder ==
  ASSUME TypeInv, OrderOK, [Next]_vars
  PROVE  OrderOK'
<1> USE DEF OrderOK
<1>0. /\ filled \in Seq(Frame) /\ nxt \in Nat /\ vbuf.n \in Nat /\ tmp \in Nat
      /\ pic \in Picture /\ pic.pixels \in Nat
      /\ \A i \in DOMAIN filled : filled[i].n \in Nat
  <2>1. filled \in Seq(Frame)
    BY DEF TypeInv, TypeOK, InputTypeOK
  <2>2. \A i \in DOMAIN filled : filled[i] \in Frame
    BY <2>1, ElementOfSeq, LenProperties
  <2>3. /\ nxt \in Nat /\ vbuf.n \in Nat /\ tmp \in Nat /\ pic \in Picture /\ pic.pixels \in Nat
    BY InputAssumption DEF TypeInv, TypeOK, InputTypeOK, Frame
  <2>4. \A e \in Frame : e.n \in Nat
    BY InputAssumption DEF Frame
  <2> QED BY <2>1, <2>2, <2>3, <2>4
<1>1. CASE Deliver
  <2>1. PICK k \in Kinds : filled' = Append(filled, [n |-> nxt + 1, kind |-> k])
    BY <1>1 DEF Deliver
  <2>2. [n |-> nxt + 1, kind |-> k] \in Frame
    BY <1>1, InputAssumption DEF Deliver, Frame, TypeInv, TypeOK, InputTypeOK
  <2>3. nxt' = nxt + 1 /\ UNCHANGED <<vbuf, tmp, pic>>
    BY <1>1 DEF Deliver, frameVars
  <2>4. \A i \in DOMAIN filled' : \/ i \in DOMAIN filled /\ filled'[i].n = filled[i].n
                                  \/ i = Len(filled) + 1 /\ filled'[i].n = nxt + 1
    BY <1>0, <2>1, <2>2, AppendElements
  <2>5. \A i \in DOMAIN filled : i \in Nat /\ i <= Len(filled)
    BY <1>0, LenProperties
  <2>6. Len(filled) \in Nat
    BY <1>0, LenProperties
  <2> QED BY <1>0, <2>3, <2>4, <2>5, <2>6
<1>2. CASE CamDequeue
  <2>1. filled # <<>> /\ filled' = Tail(filled) /\ vbuf' = filled[1] /\ 1 \in DOMAIN filled
    BY <1>0, <1>2, TailElements DEF CamDequeue
  <2>2. \A i \in DOMAIN filled' : i \in Nat /\ i # 0 /\ i + 1 \in DOMAIN filled
                                  /\ filled'[i].n = filled[i + 1].n
    BY <1>0, <2>1, TailElements, LenProperties
  <2>3. UNCHANGED <<tmp, pic, nxt>>
    BY <1>2 DEF CamDequeue, frameVars
  <2> QED BY <1>0, <2>1, <2>2, <2>3
<1>3. CASE CamMemcpy
  <2>1. UNCHANGED <<filled, vbuf, pic, nxt>> /\ (tmp' = tmp \/ tmp' = vbuf.n)
    BY <1>3 DEF CamMemcpy, frameVars
  <2> QED BY <2>1
<1>4. CASE CamCopy \/ CamSize \/ CamPublish
  <2>1. UNCHANGED <<filled, vbuf, tmp, nxt>> /\ pic'.pixels \in {tmp, pic.pixels}
    BY <1>0, <1>4 DEF CamCopy, CamSize, CamPublish, cameraVars, Picture
  <2> QED BY <2>1
<1>5. CASE CamTop \/ CamResume \/ CamRequeue \/ CamCheck \/ CamLock \/ CamDequeueFails
           \/ CamCancelled
  <2>1. UNCHANGED <<filled, vbuf, tmp, nxt, pic>>
    BY <1>5 DEF CamTop, CamResume, CamRequeue, CamCheck, CamLock, CamDequeueFails, CamCancelled,
                inputVars, cameraVars, frameVars
  <2> QED BY <2>1
<1>6. CASE CamCleanup \/ \E s \in Setters : Setter(s)
  <2>1. /\ filled' = filled \/ filled' = <<>>
        /\ UNCHANGED <<tmp, nxt, pic>> /\ (vbuf' = vbuf \/ vbuf'.n = 0)
    BY <1>6 DEF CamCleanup, Setter, SetPause, SetStreamOff, SetClose, SetInit, SetInitDone,
                SetInitFails, SetEnable, SetFrame, frameVars, NoFrame
  <2> QED BY <1>0, <2>1
<1>7. CASE (\E r \in Clients : ClientStep(r)) \/ SigStep \/ UNCHANGED vars
  <2>1. UNCHANGED <<filled, vbuf, tmp, nxt, pic>>
    BY <1>7, OtherSteps DEF inputVars, cameraVars
  <2> QED BY <2>1
<1> QED BY <1>1, <1>2, <1>3, <1>4, <1>5, <1>6, <1>7 DEF Next, InputStep, CamThread

\* What the thread has grabbed is newer than the shared picture, unless a
\* resolution change has reset vd->buf meanwhile: then nothing will be copied.
GrabFresh ==
  /\ camPc = "memcpy" => vbuf.n > pic.pixels \/ vbuf.n = 0
  /\ camPc = "qbuf" => tmp > pic.pixels \/ vbuf.n = 0
  /\ camPc = "check" => TooSmall \/ tmp > pic.pixels \/ vbuf.n = 0
  /\ camPc \in {"lock", "copy"} => tmp > pic.pixels \/ vbuf.n = 0

\* The thread has put a picture in place that is not broadcast yet.
Writing == (camPc = "size" /\ len # 0) \/ (camPc = "publish" /\ pic.size # 0)

\* What the client is about to copy is newer than what it sent last, or has no
\* byte.
NewFor(r) == pic.size = 0 \/ sent[r].pixels < pic.pixels

ClientsFresh ==
  \A r \in Clients :
    /\ r \in waiting => rpc[r] = "woken"
    /\ got[r].pixels <= pic.pixels /\ sent[r].pixels <= pic.pixels
    /\ Writing => got[r].pixels < pic.pixels /\ sent[r].pixels < pic.pixels
    /\ rpc[r] = "woken" /\ r \notin waiting => NewFor(r)
    /\ rpc[r] \in {"size", "stamp", "copy"} => NewFor(r)
    /\ rpc[r] \in {"stamp", "copy"} => got[r].size = pic.size
    /\ rpc[r] \in {"unlock", "send"} /\ ~stop => got[r].size = 0 \/ sent[r].pixels < got[r].pixels

FreshInv == OrderOK /\ GrabFresh /\ ClientsFresh

LEMMA SetterKeepsFresh ==
  ASSUME GrabFresh, NEW s \in Setters, Setter(s)
  PROVE  GrabFresh'
<1>1. /\ UNCHANGED <<camPc, tmp, pic>>
      /\ vbuf' = vbuf \/ vbuf' = NoFrame
  BY DEF Setter, SetPause, SetStreamOff, SetClose, SetInit, SetInitDone, SetInitFails, SetEnable,
         SetFrame, frameVars
<1>2. CASE vbuf' = vbuf
  BY <1>1, <1>2 DEF GrabFresh, TooSmall
<1>3. CASE vbuf' = NoFrame
  BY <1>1, <1>3 DEF GrabFresh, NoFrame
<1> QED BY <1>1, <1>2, <1>3

LEMMA CamKeepsFresh ==
  ASSUME TypeInv, KindsOK, EmptiesDropped, OrderOK, GrabFresh, CamThread
  PROVE  GrabFresh'
<1> USE DEF GrabFresh
<1>0. /\ filled \in Seq(Frame) /\ pic \in Picture /\ pic.pixels \in Nat /\ tmp \in Nat
      /\ vbuf.n \in Nat
  BY InputAssumption DEF TypeInv, TypeOK, InputTypeOK, Frame
<1>1. CASE CamDequeue
  <2>1. /\ vbuf' = Head(filled) /\ Head(filled).kind \in Kinds /\ Head(filled).n > pic.pixels
        /\ camPc' = IF vbuf'.kind = "empty" THEN "check" ELSE "memcpy"
    BY <1>0, <1>1, TailElements, ElementOfSeq DEF CamDequeue, KindsOK, OrderOK, Frame
  <2>2. pic' = pic
    BY <1>1 DEF CamDequeue, frameVars
  <2>3. CASE vbuf'.kind = "empty"
    <3>1. TooSmall' /\ camPc' = "check"
      BY <2>1, <2>3 DEF TooSmall, EmptiesDropped
    <3> QED BY <3>1
  <2>4. CASE vbuf'.kind # "empty"
    BY <2>1, <2>2, <2>4
  <2> QED BY <2>3, <2>4
<1>2. CASE CamMemcpy
  <2>1. UNCHANGED <<vbuf, pic>> /\ camPc = "memcpy"
    BY <1>2 DEF CamMemcpy, frameVars
  <2>2. CASE camPc' = "memcpy"
    BY <2>1, <2>2
  <2>3. CASE camPc' = "qbuf" /\ vbuf.n > pic.pixels
    <3>1. vbuf # NoFrame
      BY <1>0, <2>3 DEF NoFrame
    <3>2. tmp' = vbuf.n
      BY <1>2, <2>3, <3>1 DEF CamMemcpy
    <3> QED BY <2>1, <2>3, <3>2
  <2>4. CASE camPc' = "qbuf" /\ vbuf.n = 0
    BY <2>1, <2>4
  <2> QED BY <1>2, <2>1, <2>2, <2>3, <2>4 DEF CamMemcpy
<1>3. CASE CamRequeue
  BY <1>3 DEF CamRequeue, frameVars
<1>4. CASE CamCheck
  BY <1>4 DEF CamCheck, cameraVars, frameVars
<1>5. CASE CamLock
  BY <1>5 DEF CamLock, cameraVars
<1>6. CASE CamTop \/ CamResume \/ CamDequeueFails \/ CamCopy \/ CamSize \/ CamPublish \/ CamCleanup
  <2>1. camPc' \notin {"memcpy", "qbuf", "check", "lock", "copy"}
    BY <1>6 DEF CamTop, CamResume, CamDequeueFails, CamCopy, CamSize, CamPublish, CamCleanup,
                inputVars
  <2> QED BY <2>1
<1> QED BY <1>1, <1>2, <1>3, <1>4, <1>5, <1>6 DEF CamThread

\* The camera thread moves: it overwrites the shared picture only with a newer
\* one, which is then newer than anything a client has, and wakes the clients
\* that wait; those between lock and unlock do not exist meanwhile.
LEMMA CamKeepsClients ==
  ASSUME TypeInv, MutualExclusion, GrabFresh, ClientsFresh, CamThread, UNCHANGED clientVars
  PROVE  ClientsFresh'
<1> USE DEF ClientsFresh, clientVars, NewFor, Writing
<1>0. /\ pic \in Picture /\ tmp \in Nat /\ pic.pixels \in Nat
      /\ \A r \in Clients : got[r].pixels \in Int /\ sent[r].pixels \in Int
  BY InputAssumption DEF TypeInv, TypeOK, InputTypeOK, ClientTypeOK, Picture
<1>1. ASSUME camPc \in {"copy", "size", "publish"}
      PROVE  \A r \in Clients : rpc[r] \notin Holding
  BY <1>1, Threads DEF MutualExclusion
<1>2. CASE CamCopy
  <2>1. /\ camPc = "copy" /\ camPc' = "size" /\ pic'.size = pic.size
        /\ UNCHANGED <<stop, waiting>>
    BY <1>0, <1>2 DEF CamCopy, Picture
  <2>2. \/ len' # 0 /\ pic'.pixels = tmp /\ tmp > pic.pixels
        \/ len' = 0 /\ pic'.pixels = pic.pixels
    BY <1>0, <1>2 DEF CamCopy, GrabFresh, Picture
  <2> QED BY <1>0, <1>1, <2>1, <2>2 DEF Holding
<1>3. CASE CamSize
  <2>1. /\ camPc = "size" /\ camPc' = "publish" /\ pic'.pixels = pic.pixels /\ pic'.size = len
        /\ UNCHANGED <<stop, waiting>>
    BY <1>0, <1>3 DEF CamSize, Picture
  <2> QED BY <1>0, <1>1, <2>1 DEF Holding
<1>4. CASE CamPublish
  <2>1. /\ camPc = "publish" /\ camPc' = "top"
        /\ pic'.pixels = pic.pixels /\ pic'.size = pic.size
        /\ waiting' = {} /\ stop' = stop
    BY <1>0, <1>4 DEF CamPublish, Picture
  <2> QED BY <1>1, <2>1 DEF Holding
<1>5. CASE CamTop \/ CamResume \/ CamDequeue \/ CamMemcpy \/ CamRequeue \/ CamCheck
           \/ CamLock \/ CamCleanup \/ CamDequeueFails
  <2>1. UNCHANGED <<stop, waiting, pic>>
        /\ (camPc' \notin {"size", "publish"} \/ UNCHANGED <<camPc, len>>)
    BY <1>5 DEF CamTop, CamResume, CamDequeue, CamMemcpy, CamRequeue, CamCheck,
                CamLock, CamCleanup, CamDequeueFails, inputVars, cameraVars, frameVars
  <2> QED BY <2>1
<1> QED BY <1>2, <1>3, <1>4, <1>5 DEF CamThread

LEMMA ClientKeepsFresh ==
  ASSUME TypeInv, MutualExclusion, RunningOK, ~SpuriousWakeups, ClientsFresh,
         NEW r \in Clients, Client(r), UNCHANGED <<camPc, len>>
  PROVE  ClientsFresh'
<1> USE DEF ClientsFresh, Goto, NewFor, Writing
<1>0. /\ got \in [Clients -> Picture] /\ sent \in [Clients -> Picture] /\ pic.pixels \in Nat
      /\ DOMAIN rpc = Clients /\ pic' = pic /\ stop' = stop
      /\ \A q \in Clients : got[q].pixels \in Int /\ sent[q].pixels \in Int
  BY ClientLeaves, InputAssumption DEF TypeInv, TypeOK, ClientTypeOK, Picture
<1>1. CASE Request(r) \/ StreamTop(r) \/ ClientLock(r)
  <2>1. PICK from, to : /\ rpc[r] = from /\ rpc' = [rpc EXCEPT ![r] = to]
                        /\ from \in {"new", "top", "lock"}
                        /\ to \in {"top", "lock", "wait", "done"}
    BY <1>1 DEF Request, StreamTop, ClientLock
  <2>2. UNCHANGED <<got, sent, waiting>>
    BY <1>1 DEF Request, StreamTop, ClientLock
  <2> QED BY <1>0, <2>1, <2>2
<1>2. CASE CondWait(r)
  BY <1>0, <1>2 DEF CondWait
<1>3. CASE Relock(r)
  BY <1>0, <1>3 DEF Relock
<1>4. CASE ReadSize(r) \/ ReadStamp(r)
  <2>1. PICK to \in {"stamp", "copy", "done"} : rpc' = [rpc EXCEPT ![r] = to]
    BY <1>4 DEF ReadSize, ReadStamp
  <2>2. rpc[r] \in {"size", "stamp"} /\ UNCHANGED <<sent, waiting>>
    BY <1>4 DEF ReadSize, ReadStamp
  <2>3. /\ \A q \in Clients : got'[q].pixels = got[q].pixels
        /\ \A q \in Clients : q # r => got'[q] = got[q]
    BY <1>0, <1>4 DEF ReadSize, ReadStamp, Picture
  <2>4. rpc'[r] # "done" => got'[r].size = pic.size
    BY <1>0, <1>4 DEF ReadSize, ReadStamp, Picture
  <2> QED BY <1>0, <2>1, <2>2, <2>3, <2>4
<1>5. CASE ReadPixels(r)
  <2>1. CASE UNCHANGED <<rpc, got>>
    BY <1>0, <1>5, <2>1 DEF ReadPixels
  <2>2. CASE Goto(r, "copy", "unlock")
    <3>1. /\ got'[r].size = got[r].size
          /\ \/ got[r].size = 0 /\ got'[r].pixels = got[r].pixels
             \/ got'[r].pixels = (IF bufAlive THEN pic.pixels ELSE -1)
          /\ \A q \in Clients : q # r => got'[q] = got[q]
      BY <1>0, <1>5, <2>2 DEF ReadPixels, Picture
    <3>2. ~stop => bufAlive
      BY DEF RunningOK
    <3>3. camPc \notin {"size", "publish"}
      BY <2>2, Threads DEF MutualExclusion, Holding
    <3>4. UNCHANGED <<sent, waiting>>
      BY <1>5 DEF ReadPixels
    <3> QED BY <1>0, <2>2, <3>1, <3>2, <3>3, <3>4
  <2> QED BY <1>5, <2>1, <2>2 DEF ReadPixels
<1>6. CASE ClientUnlock(r)
  BY <1>0, <1>6 DEF ClientUnlock
<1>7. CASE Send(r)
  <2>1. PICK to \in {"top", "done"} : rpc' = [rpc EXCEPT ![r] = to]
    BY <1>7 DEF Send
  <2>2. rpc[r] = "send" /\ UNCHANGED <<got, waiting>>
    BY <1>7 DEF Send
  <2>3. \A q \in Clients : sent'[q] = sent[q] \/ sent'[q] = got[q]
    BY <1>0, <1>7 DEF Send
  <2>4. \A q \in Clients : q # r => sent'[q] = sent[q]
    BY <1>0, <1>7 DEF Send
  <2> QED BY <1>0, <2>1, <2>2, <2>3, <2>4
<1>8. ~ SpuriousWakeup(r)
  BY DEF SpuriousWakeup
<1> QED BY <1>1, <1>2, <1>3, <1>4, <1>5, <1>6, <1>7, <1>8 DEF Client, ClientRun

LEMMA NextFresh ==
  ASSUME TypeInv, KindsOK, RunningOK, MutualExclusion, EmptiesDropped,
         ~SpuriousWakeups, FreshInv, [Next]_vars
  PROVE  FreshInv'
<1>1. OrderOK'
  BY NextOrder DEF FreshInv
<1> SUFFICES (GrabFresh /\ ClientsFresh)'
  BY <1>1 DEF FreshInv
<1>2. OrderOK /\ GrabFresh /\ ClientsFresh
  BY DEF FreshInv
<1>3. CASE CamThread /\ UNCHANGED clientVars
  BY <1>2, <1>3, CamKeepsFresh, CamKeepsClients
<1>4. CASE UNCHANGED clientVars /\ \E s \in Setters : Setter(s)
  <2>1. UNCHANGED <<pic, waiting, stop, camPc, len>>
    BY <1>4 DEF Setter, SetPause, SetStreamOff, SetClose, SetInit, SetEnable, SetFrame, frameVars
  <2>2. ClientsFresh'
    BY <1>2, <1>4, <2>1 DEF ClientsFresh, NewFor, Writing, clientVars
  <2> QED BY <1>2, <1>4, <2>2, SetterKeepsFresh
<1>5. CASE \E r \in Clients : ClientStep(r)
  <2>1. PICK r \in Clients : Client(r) /\ UNCHANGED <<inputVars, sigVars>>
    BY <1>5 DEF ClientStep
  <2>2. UNCHANGED <<camPc, vbuf, tmp, len, pic>>
    BY <2>1, ClientLeaves DEF inputVars, cameraVars
  <2>3. GrabFresh'
    BY <1>2, <2>2 DEF GrabFresh, TooSmall
  <2> QED BY <1>2, <2>1, <2>2, <2>3, ClientKeepsFresh
<1>6. CASE Deliver /\ UNCHANGED clientVars
  <2>1. UNCHANGED <<camPc, vbuf, tmp, len, pic, stop, waiting>>
    BY <1>6 DEF Deliver, frameVars
  <2> QED BY <1>2, <1>6, <2>1 DEF GrabFresh, TooSmall, ClientsFresh, NewFor, Writing, clientVars
<1>7. CASE CamCancelled
  <2>1. /\ UNCHANGED <<pic, stop, waiting, clientVars>>
        /\ camPc' = "cleanup"
    BY <1>7 DEF CamCancelled, frameVars
  <2> QED BY <1>2, <2>1 DEF GrabFresh, ClientsFresh, NewFor, Writing, clientVars
<1>8. CASE SigStep \/ UNCHANGED vars
  <2>1. UNCHANGED <<inputVars, clientVars, pic, waiting>> /\ (stop' = stop \/ stop')
    BY <1>8, OtherSteps DEF SigStep, SignalHandler, SigStop, SigCancel, SigDestroy, SigExit,
                            vars, frameVars
  <2>2. GrabFresh'
    BY <1>2, <2>1 DEF GrabFresh, TooSmall, inputVars, cameraVars
  <2>3. ClientsFresh'
    BY <1>2, <2>1 DEF ClientsFresh, NewFor, Writing, clientVars, inputVars, cameraVars
  <2> QED BY <2>2, <2>3
<1> QED BY <1>3, <1>4, <1>5, <1>6, <1>7, <1>8 DEF Next, InputStep

LEMMA InitFresh == Init => FreshInv
<1> SUFFICES ASSUME Init PROVE FreshInv
  OBVIOUS
<1>1. /\ vbuf.n = 0 /\ tmp = 0 /\ nxt = 0 /\ pic.pixels = 0 /\ filled = <<>>
      /\ camPc = "top" /\ waiting = {}
      /\ \A r \in Clients : rpc[r] = "new" /\ got[r].pixels = 0 /\ sent[r].pixels = 0
  BY DEF Init, FrameInit, InputInit, ClientInit, NoPicture, NoFrame
<1> QED BY <1>1 DEF FreshInv, OrderOK, GrabFresh, ClientsFresh, Writing

LEMMA FreshHolds ==
  ASSUME EmptiesDropped, ~SpuriousWakeups
  PROVE  Spec => []FreshInv
<1>1. /\ TypeInv /\ KindsOK /\ RunningOK /\ MutualExclusion /\ FreshInv /\ [Next]_vars
      => FreshInv'
  BY NextFresh
<1> QED BY <1>1, InitFresh, TypesHold, KindsHold, RunningHolds, Exclusion, PTL DEF Spec

\* What a client is about to write is newer than what it wrote before, or has
\* no byte, for any number of buffers and clients and over any number of
\* changes of the resolution, which take no lock.
THEOREM Freshness ==
  ASSUME EmptiesDropped, ~SpuriousWakeups
  PROVE  Spec => []FreshPictures
<1>1. FreshInv => FreshPictures
  <2>1. \A x, y \in Int : x < y => y > x
    OBVIOUS
  <2> QED BY <2>1 DEF FreshInv, ClientsFresh, FreshPictures
<1> QED BY <1>1, FreshHolds, PTL

-----------------------------------------------------------------------------
(***************************************************************************)
(* The refinement of FrameFeed.  published grows upwards, and the shared   *)
(* picture is published unless the camera thread is writing it.            *)
(***************************************************************************)

PublishedOK ==
  /\ \A m \in published : 1 <= m /\ m <= pic.pixels
  /\ Writing => 1 <= pic.pixels /\ \A m \in published : m < pic.pixels
  /\ ~Writing => pic.pixels = 0 \/ pic.pixels \in published
  /\ \A r \in Clients :
       /\ sent[r].pixels >= 0 /\ (got[r].pixels = 0 \/ got[r].pixels \in published)
       /\ rpc[r] \notin {"unlock", "send", "done"} => sent[r].pixels = got[r].pixels
       /\ rpc[r] \in {"unlock", "send"} /\ got[r].size = 0 => sent[r].pixels = got[r].pixels

FeedInv == ~stop /\ PublishedOK

LEMMA CamPublishes ==
  ASSUME TypeInv, GrabFresh, PublishedOK, CamThread, UNCHANGED clientVars
  PROVE  PublishedOK'
<1> USE DEF PublishedOK, Writing, clientVars
<1>0. /\ pic \in Picture /\ tmp \in Nat /\ pic.pixels \in Nat
      /\ \A m \in published : m \in Nat
  BY InputAssumption DEF TypeInv, TypeOK, InputTypeOK
<1>1. CASE CamCopy
  <2>1. camPc = "copy" /\ camPc' = "size" /\ published' = published
    BY <1>1 DEF CamCopy
  <2>2. \/ len' # 0 /\ pic'.pixels = tmp /\ tmp > pic.pixels
        \/ len' = 0 /\ pic'.pixels = pic.pixels
    BY <1>0, <1>1 DEF CamCopy, GrabFresh, Picture
  <2> QED BY <1>0, <2>1, <2>2
<1>2. CASE CamSize
  <2>1. /\ camPc = "size" /\ camPc' = "publish" /\ pic'.pixels = pic.pixels /\ pic'.size = len
        /\ published' = published
    BY <1>0, <1>2 DEF CamSize, Picture
  <2> QED BY <2>1
<1>3. CASE CamPublish
  <2>1. /\ camPc = "publish" /\ camPc' = "top" /\ pic'.pixels = pic.pixels
        /\ published' = IF pic.size = 0 THEN published ELSE published \cup {pic.pixels}
    BY <1>0, <1>3 DEF CamPublish, Broadcast, Picture
  <2> QED BY <1>0, <2>1
<1>4. CASE CamTop \/ CamResume \/ CamDequeue \/ CamMemcpy \/ CamRequeue \/ CamCheck
           \/ CamLock \/ CamCleanup \/ CamDequeueFails
  <2>1. /\ UNCHANGED <<published, pic>>
        /\ camPc \notin {"size", "publish"} /\ camPc' \notin {"size", "publish"}
    BY <1>4 DEF CamTop, CamResume, CamDequeue, CamMemcpy, CamRequeue, CamCheck,
                CamLock, CamCleanup, CamDequeueFails, inputVars, frameVars
  <2> QED BY <2>1
<1> QED BY <1>1, <1>2, <1>3, <1>4 DEF CamThread

LEMMA ClientShowsPublished ==
  ASSUME TypeInv, MutualExclusion, RunningOK, PublishedOK, ~stop,
         NEW r \in Clients, Client(r), UNCHANGED <<camPc, len, published>>
  PROVE  PublishedOK'
<1> USE DEF PublishedOK, Writing, Goto
<1>0. /\ got \in [Clients -> Picture] /\ sent \in [Clients -> Picture] /\ pic.pixels \in Nat
      /\ DOMAIN rpc = Clients /\ pic' = pic /\ \A m \in published : m \in Nat
  BY ClientLeaves, InputAssumption DEF TypeInv, TypeOK, InputTypeOK, ClientTypeOK
<1>1. CASE Request(r) \/ StreamTop(r) \/ ClientLock(r) \/ CondWait(r) \/ Relock(r)
  <2>1. PICK to \in {"top", "lock", "done", "wait", "woken", "size"} :
          rpc' = [rpc EXCEPT ![r] = to] /\ UNCHANGED <<got, sent>>
    BY <1>1 DEF Request, StreamTop, ClientLock, CondWait, Relock
  <2>2. rpc[r] \in {"new", "top", "lock", "wait", "woken"}
    BY <1>1 DEF Request, StreamTop, ClientLock, CondWait, Relock
  <2> QED BY <1>0, <2>1, <2>2
<1>2. CASE ReadSize(r) \/ ReadStamp(r)
  <2>1. PICK to \in {"stamp", "copy", "done"} : rpc' = [rpc EXCEPT ![r] = to] /\ sent' = sent
    BY <1>2 DEF ReadSize, ReadStamp
  <2>2. rpc[r] \in {"size", "stamp"}
    BY <1>2 DEF ReadSize, ReadStamp
  <2>3. /\ \A q \in Clients : got'[q].pixels = got[q].pixels
        /\ \A q \in Clients : q # r => got'[q] = got[q]
    BY <1>0, <1>2 DEF ReadSize, ReadStamp, Picture
  <2> QED BY <1>0, <2>1, <2>2, <2>3
<1>3. CASE ReadPixels(r)
  <2>1. Goto(r, "copy", "unlock") /\ sent' = sent
    BY <1>3 DEF ReadPixels, RunningOK
  <2>2. \/ got[r].size = 0 /\ got' = got
        \/ got[r].size # 0 /\ got' = [got EXCEPT ![r].pixels = pic.pixels]
    BY <1>3 DEF ReadPixels, RunningOK
  <2>3. ~Writing
    BY <2>1, Threads DEF MutualExclusion, Holding
  <2>4. pic.pixels = 0 \/ pic.pixels \in published
    BY <2>3
  <2>5. /\ \A q \in Clients : q # r => got'[q] = got[q]
        /\ got'[r].size = got[r].size
        /\ got'[r].pixels \in {got[r].pixels, pic.pixels}
        /\ got[r].size = 0 => got'[r].pixels = got[r].pixels
    BY <1>0, <2>2 DEF Picture
  <2> QED BY <1>0, <2>1, <2>4, <2>5
<1>4. CASE ClientUnlock(r)
  BY <1>0, <1>4 DEF ClientUnlock
<1>5. CASE Send(r)
  <2>1. PICK to \in {"top", "done"} :
          /\ rpc' = [rpc EXCEPT ![r] = to] /\ got' = got
          /\ to = "top" => sent' = [sent EXCEPT ![r] = got[r]]
    BY <1>5 DEF Send
  <2>2. /\ sent'[r] = sent[r] \/ sent'[r] = got[r]
        /\ \A q \in Clients : q # r => sent'[q] = sent[q]
    BY <1>0, <1>5 DEF Send
  <2>3. got[r].pixels >= 0
    BY <1>0
  <2> QED BY <1>0, <2>1, <2>2, <2>3
<1>6. CASE SpuriousWakeup(r)
  BY <1>0, <1>6 DEF SpuriousWakeup, clientVars
<1> QED BY <1>1, <1>2, <1>3, <1>4, <1>5, <1>6 DEF Client, ClientRun

\* The choices of the constants under which the feed is proved.
Undisturbed == EmptiesDropped /\ ~SpuriousWakeups /\ ~Interrupts

LEMMA NextFeed ==
  ASSUME TypeInv, RunningOK, MutualExclusion, Undisturbed, FreshInv, FeedInv, [Next]_vars
  PROVE  FeedInv'
<1> USE DEF FeedInv
<1>1. GrabFresh /\ ClientsFresh
  BY DEF FreshInv
<1>2. CASE CamThread /\ UNCHANGED clientVars
  <2>1. stop' = stop
    BY <1>2 DEF CamThread, CamTop, CamResume, CamDequeue, CamMemcpy, CamRequeue, CamCheck,
                CamLock, CamCopy, CamSize, CamPublish, CamCleanup, CamDequeueFails
  <2> QED BY <1>1, <1>2, <2>1, CamPublishes
<1>3. CASE \E r \in Clients : ClientStep(r)
  <2>1. PICK r \in Clients : Client(r) /\ UNCHANGED <<inputVars, sigVars>>
    BY <1>3 DEF ClientStep
  <2> QED BY <2>1, ClientShowsPublished, ClientLeaves DEF inputVars, cameraVars
<1>4. CASE UNCHANGED clientVars /\ (Deliver \/ \E s \in Setters : Setter(s))
  <2>1. UNCHANGED <<pic, stop, camPc, len, published>>
    BY <1>4 DEF Deliver, Setter, SetPause, SetStreamOff, SetClose, SetInit, SetEnable,
                SetFrame, frameVars
  <2> QED BY <1>4, <2>1 DEF PublishedOK, Writing, clientVars
<1>5. ~ CamCancelled
  BY DEF CamCancelled, RunningOK
<1>6. ~ SigStep
  BY DEF SigStep, SignalHandler, SigStop, SigCancel, SigDestroy, SigExit, RunningOK, Undisturbed
<1>7. CASE UNCHANGED vars
  BY <1>7 DEF vars, frameVars, inputVars, cameraVars, clientVars, PublishedOK, Writing
<1> QED BY <1>2, <1>3, <1>4, <1>5, <1>6, <1>7 DEF Next, InputStep

LEMMA InitFeed == Init => FeedInv
<1> SUFFICES ASSUME Init PROVE FeedInv
  OBVIOUS
<1>1. /\ ~stop /\ camPc = "top" /\ pic.pixels = 0 /\ published = {}
      /\ \A r \in Clients : rpc[r] = "new" /\ got[r].pixels = 0 /\ sent[r].pixels = 0
  BY DEF Init, FrameInit, InputInit, ClientInit, NoPicture
<1> QED BY <1>1 DEF FeedInv, PublishedOK, Writing

LEMMA FeedHolds ==
  ASSUME Undisturbed
  PROVE  Spec => []FeedInv
<1>1. EmptiesDropped /\ ~SpuriousWakeups
  BY DEF Undisturbed
<1>2. TypeInv /\ RunningOK /\ MutualExclusion /\ FreshInv /\ FeedInv /\ [Next]_vars => FeedInv'
  BY NextFeed
<1>3. Spec => []FreshInv
  BY <1>1, FreshHolds
<1> QED BY <1>2, <1>3, InitFeed, TypesHold, RunningHolds, Exclusion, PTL DEF Spec

\* One step of the program is one step of the feed, or none.
LEMMA StepRefines ==
  ASSUME TypeInv, RunningOK, FreshInv, FeedInv, Undisturbed, [Next]_vars
  PROVE  [Feed!Next]_(Feed!feedVars)
<1> USE DEF Feed!feedVars
<1>1. CASE CamPublish /\ UNCHANGED clientVars
  <2>1. camPc = "publish" /\ sent' = sent /\ Broadcast
    BY <1>1 DEF CamPublish, clientVars
  <2>2. CASE pic.size = 0
    BY <2>1, <2>2 DEF Broadcast
  <2>3. CASE pic.size # 0
    <3>1. pic.pixels \in 1..MaxFrames /\ \A m \in published : m < pic.pixels
      BY <2>1, <2>3, InputAssumption DEF FeedInv, PublishedOK, Writing, TypeInv
    <3>2. Feed!Publish
      BY <2>1, <2>3, <3>1 DEF Broadcast, Feed!Publish
    <3> QED BY <3>2 DEF Feed!Next
  <2> QED BY <2>2, <2>3
<1>2. ASSUME NEW r \in Clients, ClientStep(r)
      PROVE  [Feed!Next]_(Feed!feedVars)
  <2>1. published' = published
    BY <1>2 DEF ClientStep, inputVars
  <2>2. CASE sent' = sent
    BY <2>1, <2>2
  <2>3. CASE sent' # sent
    <3>1. rpc[r] = "send" /\ sent' = [sent EXCEPT ![r] = got[r]]
      BY <1>2, <2>3 DEF ClientStep, Client, ClientRun, Request, StreamTop, ClientLock, CondWait,
                        Relock, ReadSize, ReadStamp, ReadPixels, ClientUnlock, Send,
                        SpuriousWakeup, Goto, clientVars
    <3>2. sent \in [Clients -> Picture]
      BY DEF TypeInv, TypeOK, ClientTypeOK
    <3>3. [q \in Clients |-> sent'[q].pixels]
            = [[q \in Clients |-> sent[q].pixels] EXCEPT ![r] = got[r].pixels]
      BY <3>1, <3>2
    <3>4. CASE got[r].size = 0
      <4>1. got[r].pixels = sent[r].pixels
        BY <3>1, <3>4 DEF FeedInv, PublishedOK
      <4>2. [q \in Clients |-> sent'[q].pixels] = [q \in Clients |-> sent[q].pixels]
        BY <3>3, <4>1
      <4> QED BY <2>1, <4>2
    <3>5. CASE got[r].size # 0
      <4>1. sent[r].pixels < got[r].pixels
        BY <3>1, <3>5 DEF FreshInv, ClientsFresh, FeedInv
      <4>2. got[r].pixels \in published
        <5>1. sent[r].pixels \in Int /\ sent[r].pixels >= 0
          BY <3>2 DEF FeedInv, PublishedOK, Picture
        <5>2. got[r].pixels # 0
          BY <4>1, <5>1
        <5> QED BY <5>2 DEF FeedInv, PublishedOK
      <4>3. got[r].pixels > [q \in Clients |-> sent[q].pixels][r]
        BY <4>1
      <4>4. Feed!Show(r)
        BY <2>1, <3>3, <4>2, <4>3 DEF Feed!Show
      <4> QED BY <4>4 DEF Feed!Next
    <3> QED BY <3>4, <3>5
  <2> QED BY <2>2, <2>3
<1>3. CASE UNCHANGED <<published, sent>>
  BY <1>3
<1>4. CASE CamThread /\ ~ CamPublish /\ UNCHANGED clientVars
  <2>1. UNCHANGED <<published, sent>>
    BY <1>4 DEF CamThread, CamTop, CamResume, CamDequeue, CamMemcpy, CamRequeue, CamCheck,
                CamLock, CamCopy, CamSize, CamCleanup, CamDequeueFails, inputVars, clientVars
  <2> QED BY <1>3, <2>1
<1>5. CASE UNCHANGED clientVars /\ (Deliver \/ \E s \in Setters : Setter(s))
  <2>1. UNCHANGED <<published, sent>>
    BY <1>5 DEF Deliver, Setter, SetPause, SetStreamOff, SetClose, SetInit, SetEnable,
                SetFrame, clientVars
  <2> QED BY <1>3, <2>1
<1>6. CASE CamCancelled \/ SigStep \/ UNCHANGED vars
  <2>1. UNCHANGED <<published, sent>>
    BY <1>6 DEF CamCancelled, SigStep, vars, inputVars, clientVars
  <2> QED BY <1>3, <2>1
<1> QED BY <1>1, <1>2, <1>4, <1>5, <1>6 DEF Next, InputStep

\* mjpg_streamer implements the feed its clients are promised: they are shown
\* published pictures only, in the order in which they were taken.
THEOREM Refinement ==
  ASSUME Undisturbed
  PROVE  Spec => FeedSpec
<1>1. Init => Feed!Init
  BY DEF Init, InputInit, ClientInit, NoPicture, Feed!Init
<1>2. TypeInv /\ RunningOK /\ FreshInv /\ FeedInv /\ [Next]_vars => [Feed!Next]_(Feed!feedVars)
  BY StepRefines
<1>3. EmptiesDropped /\ ~SpuriousWakeups
  BY DEF Undisturbed
<1>4. Spec => []FreshInv
  BY <1>3, FreshHolds
<1> QED BY <1>1, <1>2, <1>4, FeedHolds, TypesHold, RunningHolds, PTL
       DEF Spec, FeedSpec, Feed!Spec
=============================================================================
