------------------------------ MODULE InputUvc ------------------------------
(***************************************************************************)
(* The camera plugin in MJPEG mode, its default: cam_thread with uvcGrab,  *)
(* the driver's buffer queue, and setResolution as a thread that serves an *)
(* HTTP command calls it, concurrently with the camera thread and with no  *)
(* lock.  NB_BUFFER buffers circulate between program and driver.          *)
(*                                                                         *)
(* A frame is "ok", "torn" (without the start-of-frame marker that         *)
(* memcpy_picture looks for), "small" (below the limit of -m, torn or not) *)
(* or "empty" (at most HEADERFRAME1 bytes, therefore below any larger      *)
(* limit as well).                                                         *)
(***************************************************************************)
EXTENDS FrameBuffer

CONSTANTS NB_BUFFER,
          Kinds,         \* what the camera may deliver
          MinimumSize,   \* -m was given
          Setters,       \* threads that change the resolution
          MaxFrames,     \* bound: frames the camera delivers
          MaxResizes     \* bound: resolution changes

ASSUME InputAssumption ==
  /\ NB_BUFFER \in Nat \ {0} /\ MaxFrames \in Nat /\ MaxResizes \in Nat
  /\ Kinds \subseteq {"ok", "torn", "small", "empty"}
  /\ MinimumSize \in BOOLEAN
  /\ NoOne # Cam

VARIABLES camPc,
          streaming,  \* vd->streamingState: off, on, paused
          driver,     \* the device: idle (open, stream off), on, closed, or
                      \* bare (opened again, but its setting up failed)
          free,       \* buffers queued in the driver, still to be filled
          filled,     \* buffers the driver has filled, oldest first
          vbuf,       \* vd->buf: what the last DQBUF described
          tmp,        \* the picture in vd->tmpbuffer
          len,        \* what memcpy_picture returned: the grab's number
                      \* stands for its length
          nxt,        \* frames delivered by the camera so far
          setPc,      \* where each setResolution stands
          resizes,    \* resolution changes so far
          published,  \* history: the pictures broadcast so far
          ignored     \* history: buffers taken from the driver as empty

cameraVars == <<streaming, driver, free, filled, vbuf, tmp, len>>
inputVars  == <<camPc, cameraVars, nxt, setPc, resizes, published, ignored>>

Frame   == [n : 0..MaxFrames, kind : {"ok", "torn", "small", "empty"}]
NoFrame == [n |-> 0, kind |-> "empty"]

\* input_init has opened the device and queued every buffer (init_v4l2).
InputInit ==
  /\ camPc = "top"
  /\ streaming = "off" /\ driver = "idle"
  /\ free = NB_BUFFER /\ filled = <<>>
  /\ vbuf = NoFrame /\ tmp = 0 /\ len = 0 /\ nxt = 0
  /\ published = {} /\ ignored = 0
  /\ setPc = [s \in Setters |-> "idle"] /\ resizes = 0

-----------------------------------------------------------------------------
\* The device.

Deliver ==
  /\ driver = "on" /\ free > 0 /\ nxt < MaxFrames
  /\ nxt' = nxt + 1 /\ free' = free - 1
  /\ \E k \in Kinds : filled' = Append(filled, [n |-> nxt + 1, kind |-> k])
  /\ UNCHANGED <<camPc, streaming, driver, vbuf, tmp, len, setPc, resizes, published, ignored>>
  /\ UNCHANGED <<alive, stop, frameVars>>

-----------------------------------------------------------------------------
\* cam_thread.

\* Loop head: leave on stop, wait while paused, switch the stream on first.
CamTop ==
  /\ camPc = "top"
  /\ \/ stop /\ camPc' = "cleanup" /\ UNCHANGED <<streaming, driver>>
     \/ ~stop /\ camPc' = "paused" /\ UNCHANGED <<streaming, driver>>
  /\ UNCHANGED <<free, filled, vbuf, tmp, len, nxt, setPc, resizes, published, ignored>>
  /\ UNCHANGED <<alive, stop, frameVars>>

\* The inner loop looks at streamingState only, then uvcGrab begins.
CamResume ==
  /\ camPc = "paused" /\ streaming # "paused"
  /\ \/ /\ streaming = "on" \/ driver = "idle"
        /\ streaming' = "on"
        /\ driver' = IF streaming = "off" THEN "on" ELSE driver
        /\ camPc' = "dqbuf" /\ UNCHANGED alive
     \/ /\ streaming = "off"                    \* STREAMON fails
        /\ Exit /\ UNCHANGED <<streaming, driver, camPc>>
  /\ UNCHANGED <<free, filled, vbuf, tmp, len, nxt, setPc, resizes, published, ignored>>
  /\ UNCHANGED <<stop, frameVars>>

\* Mutant: a small buffer is left unqueued like an empty one.
CamDequeueKeepsSmall ==
  /\ camPc = "dqbuf" /\ driver = "on" /\ filled # <<>>
  /\ vbuf' = Head(filled) /\ filled' = Tail(filled)
  /\ camPc' = IF Head(filled).kind # "ok" THEN "check" ELSE "memcpy"
  /\ ignored' = IF Head(filled).kind = "empty" THEN ignored + 1 ELSE ignored
  /\ UNCHANGED <<streaming, driver, free, tmp, len, nxt, setPc, resizes, published>>
  /\ UNCHANGED <<alive, stop, frameVars>>

\* Mutant: the newest buffer is taken first.
CamDequeueNewest ==
  /\ camPc = "dqbuf" /\ driver = "on" /\ filled # <<>>
  /\ vbuf' = filled[Len(filled)] /\ filled' = SubSeq(filled, 1, Len(filled) - 1)
  /\ camPc' = "memcpy"
  /\ UNCHANGED <<streaming, driver, free, tmp, len, nxt, setPc, resizes, published, ignored>>
  /\ UNCHANGED <<alive, stop, frameVars>>

\* VIDIOC_DQBUF.  An empty buffer is left unqueued and tmpbuffer unchanged,
\* but uvcGrab returns 0 as for a good one.
CamDequeue ==
  /\ camPc = "dqbuf" /\ driver = "on" /\ filled # <<>>
  /\ vbuf' = Head(filled) /\ filled' = Tail(filled)
  /\ \/ vbuf'.kind = "empty" /\ camPc' = "check" /\ ignored' = ignored + 1
     \/ vbuf'.kind # "empty" /\ camPc' = "memcpy" /\ UNCHANGED ignored
  /\ UNCHANGED <<streaming, driver, free, tmp, len, nxt, setPc, resizes, published>>
  /\ UNCHANGED <<alive, stop, frameVars>>

\* The wait in DQBUF ends with an error once the stream is off: exit(1).
CamDequeueFails ==
  /\ camPc = "dqbuf" /\ driver # "on"
  /\ Exit
  /\ UNCHANGED <<inputVars, stop, frameVars>>

\* memcpy to tmpbuffer, of no byte when a resolution change has just reset
\* vd->buf; from a buffer that is not mapped it faults.
CamMemcpy ==
  /\ camPc = "memcpy"
  /\ \/ vbuf = NoFrame /\ camPc' = "qbuf" /\ UNCHANGED <<tmp, alive>>
     \/ /\ vbuf # NoFrame /\ driver \notin {"closed", "bare"}
        /\ tmp' = vbuf.n /\ camPc' = "qbuf" /\ UNCHANGED alive
     \/ /\ vbuf # NoFrame /\ driver \in {"closed", "bare"}
        /\ Exit /\ UNCHANGED <<tmp, camPc>>
  /\ UNCHANGED <<streaming, driver, free, filled, vbuf, len, nxt, setPc, resizes>>
  /\ UNCHANGED <<published, ignored, stop, frameVars>>

\* VIDIOC_QBUF; it is an error on a closed device, one without buffers, and
\* for a buffer that is queued already.
CamRequeue ==
  /\ camPc = "qbuf"
  /\ \/ /\ driver # "closed" /\ free + Len(filled) < NB_BUFFER
        /\ free' = free + 1 /\ camPc' = "check" /\ UNCHANGED alive
     \/ /\ driver \in {"closed", "bare"} \/ free + Len(filled) >= NB_BUFFER
        /\ Exit /\ UNCHANGED <<free, camPc>>
  /\ UNCHANGED <<streaming, driver, filled, vbuf, tmp, len, nxt, setPc, resizes>>
  /\ UNCHANGED <<published, ignored, stop, frameVars>>

\* bytesused < minimum_size: drop the frame.
TooSmall == MinimumSize /\ vbuf.kind \in {"small", "empty"}

\* Mutant: a dropped frame's buffer is queued a second time.
CamCheckRequeues ==
  /\ camPc = "check"
  /\ camPc' = IF TooSmall THEN "top" ELSE "lock"
  /\ free' = IF TooSmall THEN free + 1 ELSE free
  /\ UNCHANGED <<streaming, driver, filled, vbuf, tmp, len, nxt, setPc, resizes, published, ignored>>
  /\ UNCHANGED <<alive, stop, frameVars>>

\* Mutant: the picture is copied without the mutex.
CamCheckNoLock ==
  /\ camPc = "check"
  /\ camPc' = IF TooSmall THEN "top" ELSE "copy"
  /\ UNCHANGED <<cameraVars, nxt, setPc, resizes, published, ignored, alive, stop, frameVars>>

CamCheck ==
  /\ camPc = "check"
  /\ camPc' = IF TooSmall THEN "top" ELSE "lock"
  /\ UNCHANGED <<cameraVars, nxt, setPc, resizes, published, ignored, alive, stop, frameVars>>

CamLock ==
  /\ camPc = "lock" /\ Lock(Cam)
  /\ camPc' = "copy"
  /\ UNCHANGED <<cameraVars, nxt, setPc, resizes, published, ignored>>
  /\ UNCHANGED <<alive, stop, waiting, pic, bufAlive>>

\* Mutant: memcpy_picture returns the size it was given when it finds no
\* marker.
CamCopyKeepsSize ==
  /\ camPc = "copy"
  /\ \/ vbuf.n # 0 /\ vbuf.kind # "torn" /\ pic' = [pic EXCEPT !.pixels = tmp] /\ len' = vbuf.n
     \/ vbuf.kind # "ok" /\ UNCHANGED pic /\ len' = vbuf.n
  /\ camPc' = "size"
  /\ UNCHANGED <<streaming, driver, free, filled, vbuf, tmp, nxt, setPc, resizes>>
  /\ UNCHANGED <<published, ignored, alive, stop, db, waiting, bufAlive>>

\* memcpy_picture copies tmpbuffer, with the length that vd->buf holds now.
\* Of no bytes, or of bytes without a start-of-frame marker, it copies nothing
\* and returns 0.
CamCopy ==
  /\ camPc = "copy"
  /\ \/ vbuf.n # 0 /\ vbuf.kind # "torn" /\ pic' = [pic EXCEPT !.pixels = tmp] /\ len' = vbuf.n
     \/ vbuf.kind # "ok" /\ UNCHANGED pic /\ len' = 0
  /\ camPc' = "size"
  /\ UNCHANGED <<streaming, driver, free, filled, vbuf, tmp, nxt, setPc, resizes>>
  /\ UNCHANGED <<published, ignored, alive, stop, db, waiting, bufAlive>>

CamSize ==
  /\ camPc = "size"
  /\ pic' = [pic EXCEPT !.size = len]
  /\ camPc' = "publish"
  /\ UNCHANGED <<cameraVars, nxt, setPc, resizes, published, ignored>>
  /\ UNCHANGED <<alive, stop, db, waiting, bufAlive>>

\* A picture of size 0 is none.
Broadcast == published' = IF pic.size = 0 THEN published ELSE published \cup {pic.pixels}

\* Mutant: pthread_cond_signal in place of the broadcast.
CamPublishSignal ==
  /\ camPc = "publish"
  /\ pic' = [pic EXCEPT !.stamp = vbuf.n]
  /\ \/ waiting = {} /\ UNCHANGED waiting
     \/ \E w \in waiting : waiting' = waiting \ {w}
  /\ Unlock
  /\ Broadcast
  /\ camPc' = "top"
  /\ UNCHANGED <<cameraVars, nxt, setPc, resizes, ignored, alive, stop, bufAlive>>

\* Timestamp, pthread_cond_broadcast, unlock.
CamPublish ==
  /\ camPc = "publish"
  /\ pic' = [pic EXCEPT !.stamp = vbuf.n]
  /\ waiting' = {}
  /\ Unlock
  /\ Broadcast
  /\ camPc' = "top"
  /\ UNCHANGED <<cameraVars, nxt, setPc, resizes, ignored, alive, stop, bufAlive>>

\* cam_cleanup on leaving the loop: close_v4l2 stops the stream (the device
\* file stays open) and buf is freed, without the mutex.
CamCleanup ==
  /\ camPc = "cleanup"
  /\ IF streaming = "on" /\ driver # "closed"
     THEN streaming' = "off" /\ driver' = "idle" /\ free' = 0 /\ filled' = <<>>
     ELSE UNCHANGED <<streaming, driver, free, filled>>
  /\ bufAlive' = FALSE
  /\ camPc' = "done"
  /\ UNCHANGED <<vbuf, tmp, len, nxt, setPc, resizes, published, ignored>>
  /\ UNCHANGED <<alive, stop, db, waiting, pic>>

CamThread ==
  \/ CamTop \/ CamResume \/ CamDequeue \/ CamDequeueFails \/ CamMemcpy
  \/ CamRequeue \/ CamCheck \/ CamLock \/ CamCopy \/ CamSize \/ CamPublish
  \/ CamCleanup

-----------------------------------------------------------------------------
\* setResolution, from input_cmd.

SetStep(s, from, to) == setPc[s] = from /\ setPc' = [setPc EXCEPT ![s] = to]
SetFrame == UNCHANGED <<camPc, tmp, len, nxt, published, ignored, alive, stop, frameVars>>

SetPause(s) ==
  /\ resizes < MaxResizes
  /\ SetStep(s, "idle", "streamoff")
  /\ resizes' = resizes + 1 /\ streaming' = "paused"
  /\ UNCHANGED <<driver, free, filled, vbuf>> /\ SetFrame

\* STREAMOFF gives every buffer back; it fails on a closed device, and may on
\* one that is not set up: the state stays paused.
SetStreamOff(s) ==
  /\ \/ /\ driver \in {"closed", "bare"}
        /\ SetStep(s, "streamoff", "idle")
        /\ UNCHANGED <<streaming, driver, free, filled>>
     \/ /\ driver # "closed"
        /\ SetStep(s, "streamoff", "close")
        /\ driver' = IF driver = "bare" THEN "bare" ELSE "idle"
        /\ free' = 0 /\ filled' = <<>> /\ streaming' = "paused"
  /\ UNCHANGED <<vbuf, resizes>> /\ SetFrame

SetClose(s) ==
  /\ SetStep(s, "close", "init")
  /\ driver' = "closed" /\ free' = 0 /\ filled' = <<>>
  /\ UNCHANGED <<streaming, vbuf, resizes>> /\ SetFrame

\* init_v4l2 opens the device, asks for buffers, and uses vd->buf to map and
\* then queue them one after another.
SetInitDone ==
  driver' = "idle" /\ free' = NB_BUFFER /\ vbuf' = NoFrame

\* It may fail at the open, before the first buffer, or at any of them.
SetInitFails ==
  \/ driver' \in {"closed", "bare"} /\ free' = 0 /\ UNCHANGED vbuf
  \/ driver' = "bare" /\ free' \in 0..(NB_BUFFER - 1) /\ vbuf' = NoFrame

\* When it fails the function returns, the descriptor stays open if the device
\* was opened, and nobody leaves the paused state.
SetInit(s) ==
  /\ \/ SetStep(s, "init", "enable") /\ SetInitDone
     \/ SetStep(s, "init", "idle") /\ SetInitFails
  /\ filled' = <<>>
  /\ UNCHANGED <<streaming, resizes>> /\ SetFrame

\* video_enable; its result is ignored.
SetEnable(s) ==
  /\ SetStep(s, "enable", "idle")
  /\ \/ driver # "closed" /\ driver' = "on" /\ streaming' = "on"
     \/ UNCHANGED <<driver, streaming>>
  /\ UNCHANGED <<free, filled, vbuf, resizes>> /\ SetFrame

Setter(s) == SetPause(s) \/ SetStreamOff(s) \/ SetClose(s) \/ SetInit(s) \/ SetEnable(s)

InputTypeOK ==
  /\ camPc \in {"top", "paused", "dqbuf", "memcpy", "qbuf", "check", "lock",
                "copy", "size", "publish", "cleanup", "done"}
  /\ streaming \in {"off", "on", "paused"} /\ driver \in {"idle", "on", "closed", "bare"}
  /\ free \in 0..NB_BUFFER /\ filled \in Seq(Frame) /\ vbuf \in Frame
  /\ tmp \in 0..MaxFrames /\ nxt \in 0..MaxFrames
  /\ len \in 0..MaxFrames /\ ignored \in Nat
  /\ published \subseteq 0..MaxFrames
  /\ setPc \in [Setters -> {"idle", "streamoff", "close", "init", "enable"}]
  /\ resizes \in 0..MaxResizes
=============================================================================
