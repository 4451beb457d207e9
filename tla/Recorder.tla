------------------------------ MODULE Recorder -------------------------------
(***************************************************************************)
(* mjpg_streamer with the plugins input_file and output_file: pictures     *)
(* that another program drops into one folder are recorded in the ring of  *)
(* another.  The process may be interrupted or killed and started again;   *)
(* the folders stay.                                                       *)
(***************************************************************************)
EXTENDS InputFile, OutputFile

CONSTANTS MaxTime,       \* bound: seconds that pass
          MaxRestarts    \* bound: starts after the first

ASSUME RecorderAssumption == MaxTime \in Nat /\ MaxRestarts \in Nat

VARIABLES restarts,
          recorded     \* history: the picture last saved in full, 0 if none

vars == <<alive, stop, frameVars, inputVars, failed, outputVars, now, restarts, recorded>>

Init ==
  /\ FrameInit /\ InputInit /\ OutputInit
  /\ restarts = 0 /\ recorded = 0

\* The clock.  It is never set back: see maintain_ringbuffer's comment.
Tick ==
  /\ now < MaxTime
  /\ now' = now + 1
  /\ UNCHANGED <<alive, stop, frameVars, inputVars, failed, outputVars, restarts, recorded>>

Interrupt ==
  /\ ~stop /\ stop' = TRUE
  /\ UNCHANGED <<alive, frameVars, inputVars, failed, outputVars, now, restarts, recorded>>

\* The process ends, at any point, and is started again in a later second.
\* inotify's queue goes with it; what lies in the inbox is not looked at.
Restart ==
  /\ restarts < MaxRestarts /\ now < MaxTime
  /\ restarts' = restarts + 1 /\ now' = now + 1
  /\ stop' = FALSE /\ db' = NoOne /\ waiting' = {} /\ pic' = NoPicture /\ bufAlive' = TRUE
  /\ inPc' = "top" /\ cur' = 0 /\ fsize' = 0 /\ events' = <<>> /\ failed' = FALSE
  /\ outPc' = "top" /\ frame' = NoPicture /\ counter' = 0 /\ ringFailed' = FALSE
  /\ UNCHANGED <<alive, writerVars, published, folder, recorded>>

WriterStep == Writer /\ UNCHANGED <<outputVars, now, restarts, recorded>>
InputStep  == InWorker /\ UNCHANGED <<outputVars, now, restarts, recorded>>

Saved == outPc = "save" /\ outPc' = "ring" /\ File(TRUE) \in folder'
OutputStep ==
  /\ OutWorker
  /\ recorded' = IF Saved THEN frame.pixels ELSE recorded
  /\ UNCHANGED <<inputVars, failed, restarts>>

Next == WriterStep \/ InputStep \/ OutputStep \/ Tick \/ Interrupt \/ Restart

Spec == Init /\ [][Next]_vars

-----------------------------------------------------------------------------

TypeOK ==
  /\ alive = TRUE /\ stop \in BOOLEAN /\ bufAlive \in BOOLEAN
  /\ db \in {NoOne, Cam, Rec} /\ waiting \subseteq {Rec} /\ pic \in Picture
  /\ inbox \in [Names -> [pic : 0..MaxWrites, whole : BOOLEAN]]
  /\ writing \in Names \cup {0} /\ written \in 0..MaxWrites
  /\ events \in Seq(Names) /\ cur \in Names \cup {0} /\ fsize \in Int
  /\ inPc \in {"top", "read", "open", "lock", "alloc", "copy", "publish", "remove",
               "cleanup", "ended"}
  /\ published \subseteq Int /\ failed \in BOOLEAN
  /\ outPc \in {"top", "lock", "wait", "woken", "size", "copy", "save", "ring", "ended"}
  /\ frame \in Picture /\ counter \in Nat /\ now \in 0..MaxTime /\ restarts \in 0..MaxRestarts
  /\ \A f \in folder : f.time \in 0..now /\ f.no \in Nat
  /\ ringFailed \in BOOLEAN /\ recorded \in Int

\* The recorder never saves a mixture: as long as the writer does not write a
\* name twice and the input thread has not freed the picture, what is saved is
\* one file the writer had closed.
SavedWhole ==
  outPc = "save" /\ ~Reuses /\ inPc \notin {"cleanup", "ended"} =>
    frame.size = frame.pixels /\ frame.pixels \in published

\* output_file.c:140, "delete oldest files, just keep "size" most recent
\* files", over restarts and whatever the counter says: a file never goes
\* unless -s files were taken after it, and, where all of them can be deleted,
\* not before one that was taken earlier.  (A file saved from memory the input
\* thread had freed, -1, is no picture; it may stay in one's stead.)
KeepsNewest ==
  [][~Reuses =>
       \A f \in folder \ folder' :
         /\ Cardinality({g \in folder : f.pic < g.pic \/ g.pic = -1}) >= RingSize
         /\ ~ringFailed' => \A g \in folder' : g.pic # -1 => f.pic < g.pic]_vars

\* The help's "ring buffer (max number of pictures to hold)" and "allow
\* ringbuffer to exceed limit by this amount": from the first picture of a
\* run on, between two pictures, -s plus -e files is the most, unless the last
\* turn of the ring could not list the folder or delete a file of it.
RingBounded ==
  RingSize >= 0 /\ counter > 0 /\ outPc \notin {"ring", "ended"} /\ ~ringFailed =>
    Cardinality(folder) <= RingSize + Exceed

\* output_file.c:249, time and counter make the name: saving a picture takes
\* no other one's place, not even after a restart with the counter at 0 again.
SavesInNewFiles == [][outPc = "save" => folder \subseteq folder']_vars

\* Nobody ends or goes on with the mutex: its holder is on the way to the
\* unlock.  A malloc that fails in the input thread (input_file.c:283) and a
\* cancellation are the exceptions the code makes.
MutexGoesBack ==
  /\ db = Cam => inPc \in {"alloc", "copy", "publish"} \/ failed \/ stop
  /\ db = Rec => outPc \in {"wait", "size", "copy"} \/ stop

\* Folder to folder the two plugins are the feed that FrameFeed describes,
\* with one client, across restarts (and names used once): files are shown in the order they were
\* written, and each picture recorded is a shown one, newer than the one before.
Feed == INSTANCE FrameFeed WITH Clients <- {Rec}, Pictures <- 1..MaxWrites,
                               shown <- [r \in {Rec} |-> recorded]
FeedSpec == Feed!Spec

\* No picture is lost by -r: a file is deleted only after it was shown (with
\* names used once).
RemovedWasShown ==
  ~Reuses => \A f \in Names : f <= written /\ inbox[f].pic = 0 => f \in published

\* start.sh:77, "Then the files can be read from the folder": nothing but a
\* failure or a stop ends the thread that reads them.
InputGoesOn == inPc \in {"cleanup", "ended"} => failed \/ stop
InputGoesOnFresh == ~Reuses => InputGoesOn

-----------------------------------------------------------------------------
\* Liveness: both threads of the plugins are scheduled; a call that blocks or
\* goes well need not fail.

Fairness ==
  /\ WF_vars(InputStep /\ UNCHANGED failed) /\ WF_vars(OutputStep)

FairSpec == Spec /\ Fairness

\* The file inotify reports first is shown, whatever the recorder is doing and
\* wherever it has ended (said of the last start, which is not cut short).
HeadIsShown ==
  \A n \in Names :
    (~Reuses /\ restarts = MaxRestarts /\ events # <<>> /\ events[1] = n)
      ~> (n \in published \/ failed \/ stop)
=============================================================================
