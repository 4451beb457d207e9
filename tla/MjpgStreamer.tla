---------------------------- MODULE MjpgStreamer -----------------------------
(***************************************************************************)
(* mjpg_streamer with the camera plugin and the HTTP plugin, as start.sh   *)
(* runs it: the camera thread, the client threads and the threads that     *)
(* change the resolution, and main's signal handler.                       *)
(***************************************************************************)
EXTENDS InputUvc, OutputHttp

CONSTANT Interrupts   \* SIGINT or SIGTERM may arrive

ASSUME StreamerAssumption == Interrupts \in BOOLEAN

VARIABLES sigPc,      \* main: pausing, or where signal_handler stands
          cancelled   \* pthread_cancel of the camera thread is pending

sigVars == <<sigPc, cancelled>>
vars == <<alive, stop, frameVars, inputVars, clientVars, sigVars>>

Init ==
  /\ FrameInit /\ InputInit /\ ClientInit
  /\ sigPc = "pause" /\ cancelled = FALSE

-----------------------------------------------------------------------------
\* signal_handler: set stop, sleep a second, cancel the input threads,
\* destroy condition variable and mutex, sleep, exit.  The sleeps do not wait
\* for any thread: the next step may come at any time.

SigStop ==
  /\ Interrupts /\ sigPc = "pause"
  /\ sigPc' = "cancel" /\ stop' = TRUE
  /\ UNCHANGED <<alive, frameVars, cancelled>>

SigCancel ==
  /\ sigPc = "cancel"
  /\ sigPc' = "destroy" /\ cancelled' = TRUE
  /\ UNCHANGED <<alive, stop, frameVars>>

\* Destroying a condition variable somebody waits on is undefined: the call
\* returns or never does.
SigDestroy ==
  /\ sigPc = "destroy"
  /\ sigPc' \in {"exit"} \cup (IF waiting = {} THEN {} ELSE {"hung"})
  /\ UNCHANGED <<alive, stop, frameVars, cancelled>>

SigExit ==
  /\ sigPc = "exit"
  /\ Exit
  /\ UNCHANGED <<stop, frameVars, sigVars>>

SignalHandler == SigStop \/ SigCancel \/ SigDestroy \/ SigExit

\* A cancelled camera thread ends at its next cancellation point, the usleep
\* of the paused loop; the ioctl it mostly waits in is none.
CamCancelled ==
  /\ cancelled /\ camPc = "paused" /\ streaming = "paused"
  /\ camPc' = "cleanup"
  /\ UNCHANGED <<cameraVars, nxt, setPc, resizes, published, ignored>>
  /\ UNCHANGED <<alive, stop, frameVars, clientVars, sigVars>>

InputStep ==
  (Deliver \/ CamThread \/ \E s \in Setters : Setter(s)) /\ UNCHANGED <<clientVars, sigVars>>
ClientStep(r) == Client(r) /\ UNCHANGED <<inputVars, sigVars>>
SigStep == SignalHandler /\ UNCHANGED <<inputVars, clientVars>>

Next ==
  /\ alive
  /\ \/ InputStep
     \/ CamCancelled
     \/ \E r \in Clients : ClientStep(r)
     \/ SigStep

Spec == Init /\ [][Next]_vars

-----------------------------------------------------------------------------

TypeOK ==
  /\ alive \in BOOLEAN /\ stop \in BOOLEAN /\ bufAlive \in BOOLEAN
  /\ db \in {NoOne, Cam} \cup Clients /\ waiting \subseteq Clients
  /\ pic \in Picture
  /\ InputTypeOK /\ ClientTypeOK
  /\ sigPc \in {"pause", "cancel", "destroy", "exit", "hung"}
  /\ cancelled \in BOOLEAN

\* The camera thread and the clients are never inside the protected section
\* together: whoever stands between lock and unlock is the mutex's holder.
MutualExclusion ==
  /\ camPc \in {"copy", "size", "publish"} => db = Cam
  /\ \A r \in Clients : rpc[r] \in Holding => db = r

\* Nobody goes away with the mutex: whoever holds it, a client dropped for want
\* of memory and a camera thread that is told to stop included, is on the way
\* to its unlock, so that those who wait for it have someone to wait for.
MutexGoesBack ==
  /\ db = Cam => camPc \in {"copy", "size", "publish"}
  /\ db \in Clients => rpc[db] \in Holding

\* A client never writes a mixture of two pictures: what it sends, if it is
\* anything at all, has the length of its own grab, over any number of changes
\* of the resolution, and is not from memory freed already (which cam_cleanup
\* may do under the client's hands after stop).  The timestamp too is of the
\* same grab until a resolution change, which may overwrite vd->buf between
\* the copy and the timestamp.
WholePictures ==
  \A r \in Clients : rpc[r] = "send" /\ ~stop /\ got[r].size # 0 =>
    /\ got[r].size = got[r].pixels
    /\ resizes = 0 => got[r].stamp = got[r].pixels

\* httpd.c:311 and 378, "wait for (a) fresh frame(s)": what a client is about
\* to write is newer than the picture it wrote before, or has no byte.
\* Changes of the resolution under the camera thread's hands do not break this.
FreshPictures ==
  \A r \in Clients : rpc[r] = "send" /\ ~stop /\ got[r].size # 0 =>
    got[r].pixels > sent[r].pixels

\* Until the resolution is changed every buffer is in the driver, in the
\* camera thread's hands, or was lost to a frame that was taken as empty: each
\* such frame costs one, and nothing else does, however frames are dropped.
BuffersConserved ==
  resizes = 0 /\ bufAlive =>
    free + Len(filled) + ignored = NB_BUFFER - (IF camPc \in {"memcpy", "qbuf"} THEN 1 ELSE 0)

\* What the clients see is the feed that FrameFeed describes.
Feed == INSTANCE FrameFeed WITH Pictures <- 1..MaxFrames,
                               shown <- [r \in Clients |-> sent[r].pixels]
FeedSpec == Feed!Spec

-----------------------------------------------------------------------------
\* Liveness: every thread that can run is scheduled; the camera delivers
\* while it has buffers.  Nothing is assumed of requests, signals, resizes.

ClientProgress(r) == ClientRun(r) /\ alive /\ UNCHANGED <<inputVars, sigVars>>

Fairness ==
  /\ WF_vars(Deliver /\ alive /\ UNCHANGED <<clientVars, sigVars>>)
  /\ WF_vars(CamThread /\ alive /\ UNCHANGED <<clientVars, sigVars>>)
  /\ \A r \in Clients : WF_vars(ClientProgress(r))

FairSpec == Spec /\ Fairness

\* A client that waits while a usable frame lies in the driver gets a newer
\* picture than it had (unless it is dropped for want of memory): no wakeup is
\* lost.  It need not be that frame, a slow client misses some.
WaitersServed ==
  \A r \in Clients : \A k \in 0..MaxFrames :
    (r \in waiting /\ got[r].pixels = k /\ \E i \in DOMAIN filled : filled[i].kind = "ok")
      ~> (got[r].pixels > k \/ rpc[r] = "done")

\* The camera delivers all its frames unless every buffer there is was lost to
\* a frame taken as empty: dropped ones alone never leave it without buffers.
CameraGoesOn == <>(nxt = MaxFrames \/ ~alive \/ ignored = NB_BUFFER)
=============================================================================
