------------------------- MODULE MjpgStreamer_proofs -------------------------
(***************************************************************************)
(* Proofs about MjpgStreamer, for any number of buffers, clients, threads  *)
(* that change the resolution, and frames of any kind, with spurious       *)
(* wakeups and interrupts or without.                                      *)
(***************************************************************************)
EXTENDS MjpgStreamer, SequenceTheorems, TLAPS

\* The camera thread is no client and neither is "no one".
LEMMA Threads ==
  /\ NoOne # Cam
  /\ \A r \in Clients : r # Cam /\ r # NoOne
BY InputAssumption, OutputAssumption DEF Clients

-----------------------------------------------------------------------------
(***************************************************************************)
(* Types.  published collects pic.pixels, so the picture that is shared    *)
(* has to be one the camera may have taken (a client's own copy may not:   *)
(* it can come from freed memory).                                         *)
(***************************************************************************)

TypeInv == TypeOK /\ pic.pixels \in 0..MaxFrames

\* Taking the oldest of the filled buffers.
LEMMA OldestFrame ==
  ASSUME NEW f \in Seq(Frame), f # <<>>
  PROVE  Head(f) \in Frame /\ Tail(f) \in Seq(Frame)
BY HeadTailProperties

LEMMA InputTypes ==
  ASSUME TypeInv, Deliver \/ CamThread \/ (\E s \in Setters : Setter(s)),
         UNCHANGED <<clientVars, sigVars>>
  PROVE  TypeInv'
<1> USE InputAssumption DEF TypeInv, TypeOK, InputTypeOK
<1>1. ClientTypeOK' /\ sigPc' = sigPc /\ cancelled' = cancelled
  BY DEF ClientTypeOK, clientVars, sigVars
<1>2. NoFrame \in Frame /\ <<>> \in Seq(Frame)
  BY EmptySeq DEF NoFrame, Frame
<1>3. CASE Deliver
  <2>1. PICK k \in Kinds : filled' = Append(filled, [n |-> nxt + 1, kind |-> k])
    BY <1>3 DEF Deliver
  <2>2. nxt + 1 \in 0..MaxFrames /\ free - 1 \in 0..NB_BUFFER
    BY <1>3 DEF Deliver
  <2>3. [n |-> nxt + 1, kind |-> k] \in Frame
    BY <2>2 DEF Frame
  <2>4. filled' \in Seq(Frame)
    BY <2>1, <2>3, AppendProperties
  <2>5. nxt' \in 0..MaxFrames /\ free' \in 0..NB_BUFFER
    BY <1>3, <2>2 DEF Deliver
  <2>6. UNCHANGED <<camPc, streaming, driver, vbuf, tmp, len, setPc, resizes, published, ignored,
                    alive, stop, db, waiting, pic, bufAlive>>
    BY <1>3 DEF Deliver, frameVars
  <2> QED BY <1>1, <2>4, <2>5, <2>6
<1>4. CASE CamTop \/ CamCheck
  <2>1. UNCHANGED <<cameraVars, nxt, setPc, resizes, published, ignored, alive, stop, frameVars>>
    BY <1>4 DEF CamTop, CamCheck, cameraVars
  <2>2. camPc' \in {"cleanup", "paused", "top", "lock"}
    BY <1>4 DEF CamTop, CamCheck
  <2> QED BY <1>1, <2>1, <2>2 DEF cameraVars, frameVars
<1>5. CASE CamResume
  <2>1. camPc' \in {"paused", "dqbuf"} /\ alive' \in BOOLEAN
    BY <1>5 DEF CamResume, Exit
  <2>2. streaming' \in {"off", "on", "paused"} /\ driver' \in {"idle", "on", "closed", "bare"}
    BY <1>5 DEF CamResume
  <2>3. UNCHANGED <<free, filled, vbuf, tmp, len, nxt, setPc, resizes, published, ignored,
                    stop, db, waiting, pic, bufAlive>>
    BY <1>5 DEF CamResume, frameVars
  <2> QED BY <1>1, <2>1, <2>2, <2>3
<1>6. CASE CamDequeue
  <2>1. filled # <<>> /\ vbuf' = Head(filled) /\ filled' = Tail(filled)
    BY <1>6 DEF CamDequeue
  <2>2. vbuf' \in Frame /\ filled' \in Seq(Frame)
    BY <2>1, OldestFrame
  <2>3. camPc' \in {"check", "memcpy"} /\ ignored' \in Nat
    BY <1>6 DEF CamDequeue
  <2>4. UNCHANGED <<streaming, driver, free, tmp, len, nxt, setPc, resizes, published,
                    alive, stop, db, waiting, pic, bufAlive>>
    BY <1>6 DEF CamDequeue, frameVars
  <2> QED BY <1>1, <2>2, <2>3, <2>4
<1>7. CASE CamDequeueFails
  <2>1. alive' = FALSE
    BY <1>7 DEF CamDequeueFails, Exit
  <2>2. UNCHANGED <<camPc, streaming, driver, free, filled, vbuf, tmp, len, nxt, setPc,
                    resizes, published, ignored, stop, db, waiting, pic, bufAlive>>
    BY <1>7 DEF CamDequeueFails, inputVars, cameraVars, frameVars
  <2>3. InputTypeOK' /\ pic.pixels' \in 0..MaxFrames
    BY <2>2
  <2> QED BY <1>1, <2>1, <2>2, <2>3
<1>8. CASE CamMemcpy
  <2>1. vbuf.n \in 0..MaxFrames
    BY DEF Frame
  <2>2. /\ camPc' \in {"memcpy", "qbuf"} /\ alive' \in BOOLEAN
        /\ tmp' \in 0..MaxFrames
    BY <1>8, <2>1 DEF CamMemcpy, Exit
  <2>3. UNCHANGED <<streaming, driver, free, filled, vbuf, len, nxt, setPc, resizes,
                    published, ignored, stop, db, waiting, pic, bufAlive>>
    BY <1>8 DEF CamMemcpy, frameVars
  <2> QED BY <1>1, <2>2, <2>3
<1>9. CASE CamRequeue
  <2>1. Len(filled) \in Nat
    BY LenProperties
  <2>2. free' \in 0..NB_BUFFER
    BY <1>9, <2>1 DEF CamRequeue
  <2>3. camPc' \in {"qbuf", "check"} /\ alive' \in BOOLEAN
    BY <1>9 DEF CamRequeue, Exit
  <2>4. UNCHANGED <<streaming, driver, filled, vbuf, tmp, len, nxt, setPc, resizes,
                    published, ignored, stop, db, waiting, pic, bufAlive>>
    BY <1>9 DEF CamRequeue, frameVars
  <2> QED BY <1>1, <2>2, <2>3, <2>4
<1>10. CASE CamLock
  BY <1>1, <1>10 DEF CamLock, Lock, cameraVars
<1>11. CASE CamCopy
  <2>1. pic \in Picture /\ vbuf.n \in 0..MaxFrames
    BY DEF Frame
  <2>2. pic' \in Picture /\ pic'.pixels \in {tmp, pic.pixels} /\ len' \in 0..MaxFrames
    BY <1>11, <2>1 DEF CamCopy, Picture
  <2>3. camPc' = "size"
    BY <1>11 DEF CamCopy
  <2>4. UNCHANGED <<streaming, driver, free, filled, vbuf, tmp, nxt, setPc, resizes, published,
                    ignored, alive, stop, db, waiting, bufAlive>>
    BY <1>11 DEF CamCopy
  <2> QED BY <1>1, <2>2, <2>3, <2>4
<1>12. CASE CamSize
  <2>1. len \in Int /\ pic' = [pic EXCEPT !.size = len] /\ pic \in Picture
    BY <1>12 DEF CamSize
  <2>2. pic' \in Picture /\ pic'.pixels = pic.pixels
    BY <2>1 DEF Picture
  <2> QED BY <1>1, <1>12, <2>2 DEF CamSize, cameraVars
<1>13. CASE CamPublish
  <2>1. vbuf.n \in Int /\ pic' = [pic EXCEPT !.stamp = vbuf.n] /\ pic \in Picture
    BY <1>13 DEF CamPublish, Frame
  <2>2. pic' \in Picture /\ pic'.pixels = pic.pixels
    BY <2>1 DEF Picture
  <2> QED BY <1>1, <1>13, <2>2 DEF CamPublish, Broadcast, Unlock, cameraVars
<1>14. CASE CamCleanup
  <2>1. /\ streaming' \in {"off", "on", "paused"} /\ driver' \in {"idle", "on", "closed", "bare"}
        /\ free' \in 0..NB_BUFFER /\ filled' \in Seq(Frame)
    <3>1. CASE streaming = "on" /\ driver # "closed"
      BY <1>2, <1>14, <3>1 DEF CamCleanup
    <3>2. CASE ~ (streaming = "on" /\ driver # "closed")
      BY <1>14, <3>2 DEF CamCleanup
    <3> QED BY <3>1, <3>2
  <2>2. /\ camPc' = "done" /\ bufAlive' = FALSE
        /\ UNCHANGED <<vbuf, tmp, len, nxt, setPc, resizes, published, ignored, alive, stop, db, waiting, pic>>
    BY <1>14 DEF CamCleanup
  <2> QED BY <1>1, <2>1, <2>2
<1>15. ASSUME NEW s \in Setters, Setter(s)
       PROVE  TypeInv'
  <2> USE DEF SetStep, SetFrame, frameVars
  <2>1. CASE SetPause(s)
    BY <1>1, <2>1 DEF SetPause
  <2>2. CASE SetStreamOff(s)
    <3>1. UNCHANGED <<vbuf, resizes, camPc, tmp, len, nxt, published, ignored, alive, stop, frameVars>>
      BY <2>2 DEF SetStreamOff
    <3>2. setPc' \in [Setters -> {"idle", "streamoff", "close", "init", "enable"}]
      BY <2>2 DEF SetStreamOff
    <3>3. /\ streaming' \in {"off", "on", "paused"} /\ driver' \in {"idle", "on", "closed", "bare"}
          /\ free' \in 0..NB_BUFFER /\ filled' \in Seq(Frame)
      <4>1. CASE UNCHANGED <<streaming, driver, free, filled>>
        BY <4>1
      <4>2. CASE /\ driver' = (IF driver = "bare" THEN "bare" ELSE "idle")
                 /\ free' = 0 /\ filled' = <<>> /\ streaming' = "paused"
        BY <1>2, <4>2
      <4> QED BY <2>2, <4>1, <4>2 DEF SetStreamOff
    <3> QED BY <1>1, <3>1, <3>2, <3>3
  <2>3. CASE SetClose(s)
    BY <1>1, <1>2, <2>3 DEF SetClose
  <2>4. CASE SetInit(s)
    <3>1. vbuf' \in Frame /\ filled' \in Seq(Frame)
      BY <1>2, <2>4 DEF SetInit, SetInitDone, SetInitFails
    <3>2. free' \in 0..NB_BUFFER
      BY <2>4 DEF SetInit, SetInitDone, SetInitFails
    <3>3. driver' \in {"idle", "on", "closed", "bare"}
      BY <2>4 DEF SetInit, SetInitDone, SetInitFails
    <3>4. setPc' \in [Setters -> {"idle", "streamoff", "close", "init", "enable"}]
      BY <2>4 DEF SetInit
    <3>5. UNCHANGED <<streaming, resizes, camPc, tmp, len, nxt, published, ignored, alive, stop, frameVars>>
      BY <2>4 DEF SetInit
    <3> QED BY <1>1, <3>1, <3>2, <3>3, <3>4, <3>5
  <2>5. CASE SetEnable(s)
    BY <1>1, <2>5 DEF SetEnable
  <2> QED BY <1>15, <2>1, <2>2, <2>3, <2>4, <2>5 DEF Setter
<1> QED
  BY <1>3, <1>4, <1>5, <1>6, <1>7, <1>8, <1>9, <1>10, <1>11, <1>12, <1>13, <1>14, <1>15
  DEF CamThread

LEMMA ClientTypes ==
  ASSUME TypeInv, NEW r \in Clients, Client(r), UNCHANGED <<inputVars, sigVars>>
  PROVE  TypeInv'
<1> USE DEF TypeInv, TypeOK, ClientTypeOK, Others, Goto, Holding
<1>1. InputTypeOK' /\ sigPc' = sigPc /\ cancelled' = cancelled
  BY DEF InputTypeOK, inputVars, cameraVars, sigVars
<1>2. CASE Request(r) \/ StreamTop(r) \/ ClientLock(r) \/ Relock(r)
  BY <1>1, <1>2 DEF Request, StreamTop, ClientLock, Relock, Lock
<1>3. CASE CondWait(r) \/ ClientUnlock(r)
  BY <1>1, <1>3 DEF CondWait, ClientUnlock, Unlock
<1>4. CASE SpuriousWakeup(r)
  BY <1>1, <1>4 DEF SpuriousWakeup, clientVars
<1>5. CASE ReadSize(r) \/ ReadStamp(r)
  <2>1. got' \in [Clients -> Picture]
    BY <1>5 DEF ReadSize, ReadStamp, Picture
  <2>2. \/ Goto(r, "size", "stamp") \/ Goto(r, "size", "done") \/ Goto(r, "stamp", "copy")
    BY <1>5 DEF ReadSize, ReadStamp
  <2>3. rpc' \in [Clients -> {"new", "top", "lock", "woken", "send", "done"} \cup Holding]
    BY <2>2
  <2>4. db' \in {NoOne, db} /\ UNCHANGED <<sent, waiting, alive, stop, pic, bufAlive>>
    BY <1>5 DEF ReadSize, ReadStamp, Unlock
  <2> QED BY <1>1, <2>1, <2>3, <2>4
<1>6. CASE ReadPixels(r)
  <2>1. got' \in [Clients -> Picture]
    <3>1. CASE UNCHANGED got
      BY <3>1
    <3>2. CASE got' = [got EXCEPT ![r].pixels = IF bufAlive THEN pic.pixels ELSE -1]
      <4>1. (IF bufAlive THEN pic.pixels ELSE -1) \in Int
        OBVIOUS
      <4> QED BY <3>2, <4>1 DEF Picture
    <3> QED BY <1>6, <3>1, <3>2 DEF ReadPixels
  <2>2. alive' \in BOOLEAN
    BY <1>6 DEF ReadPixels, Exit
  <2>3. /\ rpc' = rpc \/ Goto(r, "copy", "unlock")
        /\ UNCHANGED <<sent, db, waiting, stop, pic, bufAlive>>
    BY <1>6 DEF ReadPixels
  <2> QED BY <1>1, <2>1, <2>2, <2>3
<1>7. CASE Send(r)
  BY <1>1, <1>7 DEF Send
<1> QED BY <1>2, <1>3, <1>4, <1>5, <1>6, <1>7 DEF Client, ClientRun

LEMMA NextTypes == TypeInv /\ [Next]_vars => TypeInv'
<1> SUFFICES ASSUME TypeInv, [Next]_vars PROVE TypeInv'
  OBVIOUS
<1>1. CASE InputStep
  BY <1>1, InputTypes DEF InputStep
<1>2. CASE \E r \in Clients : ClientStep(r)
  BY <1>2, ClientTypes DEF ClientStep
<1>3. CASE CamCancelled
  BY <1>3 DEF CamCancelled, TypeInv, TypeOK, InputTypeOK, ClientTypeOK, cameraVars,
              frameVars, clientVars, sigVars
<1>4. CASE SigStep
  <2>1. InputTypeOK' /\ ClientTypeOK'
    BY <1>4 DEF SigStep, TypeInv, TypeOK, InputTypeOK, ClientTypeOK, inputVars, cameraVars, clientVars
  <2> QED BY <1>4, <2>1 DEF SigStep, SignalHandler, SigStop, SigCancel, SigDestroy, SigExit, Exit,
                           TypeInv, TypeOK, frameVars, sigVars
<1>5. CASE UNCHANGED vars
  BY <1>5 DEF vars, frameVars, inputVars, cameraVars, clientVars, sigVars, TypeInv, TypeOK,
              InputTypeOK, ClientTypeOK
<1> QED BY <1>1, <1>2, <1>3, <1>4, <1>5 DEF Next

LEMMA TypesHold == Spec => []TypeInv
<1>1. Init => TypeInv
  <2> SUFFICES ASSUME Init PROVE TypeInv
    OBVIOUS
  <2>1. NoPicture \in Picture /\ NoFrame \in Frame /\ <<>> \in Seq(Frame)
        /\ NoPicture.pixels \in 0..MaxFrames
    BY EmptySeq, InputAssumption DEF NoPicture, Picture, NoFrame, Frame
  <2>2. InputTypeOK
    BY <2>1, InputAssumption DEF Init, InputInit, InputTypeOK
  <2>3. ClientTypeOK
    BY <2>1 DEF Init, ClientInit, ClientTypeOK
  <2> QED BY <2>1, <2>2, <2>3 DEF Init, FrameInit, TypeInv, TypeOK
<1> QED BY <1>1, NextTypes, PTL DEF Spec

\* The variables keep their types; among them, the driver never has more
\* buffers queued than there are, and what is published was taken.
THEOREM Typing == Spec => []TypeOK
<1>1. TypeInv => TypeOK
  BY DEF TypeInv
<1> QED BY <1>1, TypesHold, PTL

-----------------------------------------------------------------------------
(***************************************************************************)
(* MutualExclusion is inductive: one who takes the mutex finds it free, so *)
(* by the invariant nobody is inside, and one who releases it is inside,   *)
(* so nobody else is.                                                      *)
(***************************************************************************)

CamInside == {"copy", "size", "publish"}

\* A step of the camera thread, in which no client moves.
LEMMA CamExclusion ==
  ASSUME MutualExclusion, CamThread, UNCHANGED clientVars
  PROVE  MutualExclusion'
<1> USE Threads DEF MutualExclusion, Holding, clientVars
<1>1. CASE CamLock
  BY <1>1 DEF CamLock, Lock
<1>2. CASE CamCopy \/ CamSize
  BY <1>2 DEF CamCopy, CamSize
<1>3. CASE CamPublish
  BY <1>3 DEF CamPublish, Unlock
<1>4. CASE CamTop \/ CamResume \/ CamDequeue \/ CamMemcpy \/ CamRequeue \/ CamCheck
           \/ CamCleanup \/ CamDequeueFails
  <2>1. db' = db /\ (camPc' \notin CamInside \/ camPc' = camPc)
    BY <1>4 DEF CamTop, CamResume, CamDequeue, CamMemcpy, CamRequeue, CamCheck,
                CamCleanup, CamDequeueFails, frameVars, inputVars, CamInside
  <2> QED BY <2>1 DEF CamInside
<1> QED BY <1>1, <1>2, <1>3, <1>4 DEF CamThread

\* A step of a client, in which the camera thread does not move.
LEMMA ClientExclusion ==
  ASSUME TypeInv, MutualExclusion, NEW r \in Clients, Client(r), camPc' = camPc
  PROVE  MutualExclusion'
<1> USE Threads DEF MutualExclusion, Goto, Others
<1>0. DOMAIN rpc = Clients
  BY DEF TypeInv, TypeOK, ClientTypeOK
<1>1. ASSUME NEW from, NEW to, rpc[r] = from, rpc' = [rpc EXCEPT ![r] = to],
             from \in Holding \/ to \notin Holding, db' = db
      PROVE  MutualExclusion'
  BY <1>0, <1>1
<1>2. ASSUME NEW from, NEW to, rpc[r] = from, rpc' = [rpc EXCEPT ![r] = to],
             from \in Holding, to \notin Holding, db' = NoOne
      PROVE  MutualExclusion'
  <2>1. db = r /\ r # Cam
    BY <1>2
  <2>2. camPc' \notin {"copy", "size", "publish"}
    BY <2>1
  <2>3. ASSUME NEW q \in Clients PROVE rpc'[q] \notin Holding
    BY <1>0, <1>2, <2>1
  <2> QED BY <2>2, <2>3
<1>3. ASSUME NEW from, NEW to, rpc[r] = from, rpc' = [rpc EXCEPT ![r] = to],
             db = NoOne, db' = r
      PROVE  MutualExclusion'
  BY <1>0, <1>3
<1> HIDE DEF MutualExclusion
<1>4. CASE Request(r) \/ StreamTop(r) \/ Send(r)
  <2>1. PICK from, to : /\ rpc[r] = from /\ rpc' = [rpc EXCEPT ![r] = to]
                        /\ to \notin Holding /\ db' = db
    BY <1>4 DEF Request, StreamTop, Send, Holding
  <2> QED BY <1>1, <2>1
<1>5. CASE ReadStamp(r)
  BY <1>1, <1>5 DEF ReadStamp, Holding
<1>6. CASE ReadSize(r)
  BY <1>1, <1>2, <1>6 DEF ReadSize, Unlock, Holding
<1>7. CASE ReadPixels(r)
  <2>1. CASE rpc' = rpc
    BY <1>7, <2>1 DEF ReadPixels, MutualExclusion
  <2>2. CASE Goto(r, "copy", "unlock")
    BY <1>1, <1>7, <2>2 DEF ReadPixels, Holding
  <2> QED BY <1>7, <2>1, <2>2 DEF ReadPixels
<1>8. CASE CondWait(r) \/ ClientUnlock(r)
  BY <1>2, <1>8 DEF CondWait, ClientUnlock, Unlock, Holding
<1>9. CASE ClientLock(r) \/ Relock(r)
  BY <1>3, <1>9 DEF ClientLock, Relock, Lock
<1>10. CASE SpuriousWakeup(r)
  BY <1>10 DEF SpuriousWakeup, MutualExclusion, clientVars
<1> QED BY <1>4, <1>5, <1>6, <1>7, <1>8, <1>9, <1>10 DEF Client, ClientRun

LEMMA NextExclusion == TypeInv /\ MutualExclusion /\ [Next]_vars => MutualExclusion'
<1> SUFFICES ASSUME TypeInv, MutualExclusion, [Next]_vars PROVE MutualExclusion'
  OBVIOUS
<1>1. CASE CamThread /\ UNCHANGED clientVars
  BY <1>1, CamExclusion
<1>2. CASE \E r \in Clients : ClientStep(r)
  BY <1>2, ClientExclusion DEF ClientStep, inputVars
<1>3. CASE Deliver /\ UNCHANGED clientVars
  BY <1>3 DEF Deliver, frameVars, clientVars, MutualExclusion
<1>4. CASE UNCHANGED clientVars /\ \E s \in Setters : Setter(s)
  <2>1. UNCHANGED <<camPc, db, rpc>>
    BY <1>4 DEF Setter, SetPause, SetStreamOff, SetClose, SetInit, SetEnable, SetFrame,
                frameVars, clientVars
  <2> QED BY <2>1 DEF MutualExclusion
<1>5. CASE CamCancelled
  BY <1>5 DEF CamCancelled, frameVars, clientVars, MutualExclusion
<1>6. CASE SigStep
  <2>1. UNCHANGED <<camPc, db, rpc>>
    BY <1>6 DEF SigStep, SignalHandler, SigStop, SigCancel, SigDestroy, SigExit,
                frameVars, inputVars, clientVars
  <2> QED BY <2>1 DEF MutualExclusion
<1>7. CASE UNCHANGED vars
  BY <1>7 DEF vars, frameVars, inputVars, clientVars, MutualExclusion
<1> QED BY <1>1, <1>2, <1>3, <1>4, <1>5, <1>6, <1>7 DEF Next, InputStep

\* Nobody but the holder of the mutex is between lock and unlock: whatever
\* frames come, however resolutions change, waits end and signals arrive.
THEOREM Exclusion == Spec => []MutualExclusion
<1>1. Init => MutualExclusion
  BY DEF Init, InputInit, ClientInit, MutualExclusion, Holding
<1> QED BY <1>1, TypesHold, NextExclusion, PTL DEF Spec

-----------------------------------------------------------------------------
(***************************************************************************)
(* The other direction: the holder of the mutex is inside.  Who is inside  *)
(* leaves by the unlock only, and by exclusion nobody else can be the      *)
(* holder then.                                                            *)
(***************************************************************************)

\* A step of the camera thread.
LEMMA CamGivesBack ==
  ASSUME TypeInv, MutexGoesBack, CamThread, UNCHANGED clientVars
  PROVE  MutexGoesBack'
<1> USE Threads DEF MutexGoesBack, clientVars
<1>1. CASE CamLock
  BY <1>1 DEF CamLock, Lock
<1>2. CASE CamCopy \/ CamSize
  BY <1>2 DEF CamCopy, CamSize
<1>3. CASE CamPublish
  BY <1>3 DEF CamPublish, Unlock
<1>4. CASE CamTop \/ CamResume \/ CamDequeue \/ CamMemcpy \/ CamRequeue \/ CamCheck
           \/ CamCleanup \/ CamDequeueFails
  <2>1. db' = db /\ (camPc \notin CamInside \/ camPc' = camPc)
    BY <1>4 DEF CamTop, CamResume, CamDequeue, CamMemcpy, CamRequeue, CamCheck,
                CamCleanup, CamDequeueFails, frameVars, inputVars, CamInside
  <2> QED BY <2>1 DEF CamInside
<1> QED BY <1>1, <1>2, <1>3, <1>4 DEF CamThread

\* A step of a client.
LEMMA ClientGivesBack ==
  ASSUME TypeInv, MutexGoesBack, NEW r \in Clients, Client(r), camPc' = camPc
  PROVE  MutexGoesBack'
<1> USE Threads DEF MutexGoesBack, Goto, Others
<1>0. DOMAIN rpc = Clients
  BY DEF TypeInv, TypeOK, ClientTypeOK
<1>1. ASSUME NEW from, NEW to, rpc[r] = from, rpc' = [rpc EXCEPT ![r] = to],
             from \notin Holding \/ to \in Holding, db' = db
      PROVE  MutexGoesBack'
  BY <1>0, <1>1
<1>2. ASSUME NEW to, rpc' = [rpc EXCEPT ![r] = to], to \in Holding, db' = r
      PROVE  MutexGoesBack'
  BY <1>0, <1>2
<1>3. ASSUME db' = NoOne
      PROVE  MutexGoesBack'
  BY <1>3
<1> HIDE DEF MutexGoesBack
<1>4. CASE Request(r) \/ StreamTop(r) \/ Send(r)
  <2>1. PICK from, to : /\ rpc[r] = from /\ rpc' = [rpc EXCEPT ![r] = to]
                        /\ from \notin Holding /\ db' = db
    BY <1>4 DEF Request, StreamTop, Send, Holding
  <2> QED BY <1>1, <2>1
<1>5. CASE ReadStamp(r)
  BY <1>1, <1>5 DEF ReadStamp, Holding
<1>6. CASE ReadSize(r)
  BY <1>1, <1>3, <1>6 DEF ReadSize, Unlock, Holding
<1>7. CASE ReadPixels(r)
  <2>1. CASE rpc' = rpc
    BY <1>7, <2>1 DEF ReadPixels, MutexGoesBack
  <2>2. CASE Goto(r, "copy", "unlock")
    BY <1>1, <1>7, <2>2 DEF ReadPixels, Holding
  <2> QED BY <1>7, <2>1, <2>2 DEF ReadPixels
<1>8. CASE CondWait(r) \/ ClientUnlock(r)
  BY <1>3, <1>8 DEF CondWait, ClientUnlock, Unlock
<1>9. CASE ClientLock(r) \/ Relock(r)
  BY <1>2, <1>9 DEF ClientLock, Relock, Lock, Holding
<1>10. CASE SpuriousWakeup(r)
  BY <1>10 DEF SpuriousWakeup, MutexGoesBack, clientVars
<1> QED BY <1>4, <1>5, <1>6, <1>7, <1>8, <1>9, <1>10 DEF Client, ClientRun

\* Whoever holds the mutex gives it back, also a client without memory and a
\* camera thread that ends.
THEOREM MutexIsGivenBack == Spec => []MutexGoesBack
<1>1. Init => MutexGoesBack
  BY Threads DEF Init, FrameInit, MutexGoesBack
<1>2. TypeInv /\ MutualExclusion /\ MutexGoesBack /\ [Next]_vars => MutexGoesBack'
  <2> SUFFICES ASSUME TypeInv, MutualExclusion, MutexGoesBack, [Next]_vars PROVE MutexGoesBack'
    OBVIOUS
  <2>1. CASE CamThread /\ UNCHANGED clientVars
    BY <2>1, CamGivesBack
  <2>2. CASE \E r \in Clients : ClientStep(r)
    BY <2>2, ClientGivesBack DEF ClientStep, inputVars
  <2>3. CASE \/ Deliver /\ UNCHANGED clientVars
             \/ UNCHANGED clientVars /\ \E s \in Setters : Setter(s)
             \/ SigStep
             \/ UNCHANGED vars
    <3>1. UNCHANGED <<camPc, db, rpc>>
      BY <2>3 DEF Deliver, Setter, SetPause, SetStreamOff, SetClose, SetInit, SetEnable, SetFrame,
                  SigStep, SignalHandler, SigStop, SigCancel, SigDestroy, SigExit, vars,
                  frameVars, inputVars, clientVars
    <3> QED BY <3>1 DEF MutexGoesBack
  <2>4. CASE CamCancelled
    BY <2>4, Threads DEF CamCancelled, frameVars, clientVars, MutexGoesBack
  <2> QED BY <2>1, <2>2, <2>3, <2>4 DEF Next, InputStep
<1> QED BY <1>1, <1>2, TypesHold, Exclusion, PTL DEF Spec
=============================================================================
