----------------------------- MODULE OutputFile ------------------------------
(***************************************************************************)
(* The output_file plugin: worker_thread waits for a picture, saves it     *)
(* under the time and a counter that starts with the program, and keeps    *)
(* the folder to the size of a ring by deleting the first names.           *)
(***************************************************************************)
EXTENDS FrameBuffer, FiniteSets

CONSTANTS Rec,         \* the plugin's worker thread
          RingSize,    \* -s, negative: keep everything
          Exceed,      \* -e
          OutputFails  \* realloc, open, write, scandir or unlink may fail

ASSUME OutputFileAssumption ==
  /\ Rec # NoOne /\ Rec # Cam
  /\ RingSize \in Int /\ Exceed \in Nat /\ OutputFails \in BOOLEAN

VARIABLES outPc,     \* worker_thread
          frame,     \* its copy: frame and frame_size
          counter,   \* pictures saved since the start
          now,       \* the clock's second
          folder,    \* files: name (time, no) and the picture in it
          ringFailed \* history: the ring's last turn left a file it was to delete

folderVars == <<folder, ringFailed>>
outputVars == <<outPc, frame, counter, folderVars>>

OutputInit ==
  /\ outPc = "top" /\ frame = NoPicture /\ counter = 0 /\ now = 0
  /\ folder = {} /\ ringFailed = FALSE

\* alphasort: the time comes first in the name, then the counter.
Before(f, g) == f.time < g.time \/ (f.time = g.time /\ f.no < g.no)

\* Mutant: the newest names are deleted.
Newest(files, size) ==
  {f \in files : size >= 0 /\ Cardinality({g \in files : Before(g, f)}) >= size}

\* The names maintain_ringbuffer deletes: all but the last "size" ones.
Oldest(files, size) ==
  {f \in files : size >= 0 /\ Cardinality({g \in files : Before(f, g)}) >= size}

\* maintain_ringbuffer.  When scandir fails nothing goes; a file that unlink
\* fails for stays, and the loop deletes the next, newer one all the same.
MaintainRingbuffer ==
  LET old == Oldest(folder, RingSize) IN
  \E gone \in SUBSET old :
    /\ gone = old \/ OutputFails
    /\ folder' = folder \ gone
    /\ ringFailed' = (gone # old)

\* Mutant: the first picture of a run is no reason.
DueNotFirst(c) == Exceed = 0 \/ c % (Exceed + 1) = 0

\* When the folder is looked at: not for every picture, to save work.
Due(c) == Exceed = 0 \/ c = 1 \/ c % (Exceed + 1) = 0

-----------------------------------------------------------------------------

OutGoto(from, to) == outPc = from /\ outPc' = to

\* while(ok >= 0 && !pglobal->stop)
OutTop ==
  /\ OutGoto("top", IF stop THEN "ended" ELSE "lock")
  /\ UNCHANGED <<frame, counter, folderVars, frameVars>>

OutLock ==
  /\ OutGoto("lock", "wait") /\ Lock(Rec)
  /\ UNCHANGED <<frame, counter, folderVars, waiting, pic, bufAlive>>

\* Mutant: the picture that is there is taken instead of waiting for one.
OutWaitSkipped ==
  /\ OutGoto("wait", "size")
  /\ UNCHANGED <<frame, counter, folderVars, frameVars>>

\* pthread_cond_wait, called once.
OutWait ==
  /\ OutGoto("wait", "woken") /\ Unlock
  /\ waiting' = waiting \cup {Rec}
  /\ UNCHANGED <<frame, counter, folderVars, pic, bufAlive>>

OutRelock ==
  /\ Rec \notin waiting
  /\ OutGoto("woken", "size") /\ Lock(Rec)
  /\ UNCHANGED <<frame, counter, folderVars, waiting, pic, bufAlive>>

\* Mutant: without memory the thread ends and keeps the mutex.
OutSizeKeeps ==
  /\ \/ OutGoto("size", "copy") /\ frame' = [frame EXCEPT !.size = pic.size]
     \/ OutputFails /\ OutGoto("size", "ended") /\ UNCHANGED frame
  /\ UNCHANGED <<counter, folderVars, frameVars>>

\* frame_size, and memory for it: without memory the thread unlocks and ends.
OutSize ==
  /\ \/ OutGoto("size", "copy") /\ frame' = [frame EXCEPT !.size = pic.size] /\ UNCHANGED db
     \/ OutputFails /\ OutGoto("size", "ended") /\ Unlock /\ UNCHANGED frame
  /\ UNCHANGED <<counter, folderVars, waiting, pic, bufAlive>>

\* memcpy and unlock; a buffer the input thread has freed holds anything.
OutCopy ==
  /\ OutGoto("copy", "save") /\ Unlock
  /\ frame' = [frame EXCEPT !.pixels = IF bufAlive THEN pic.pixels ELSE -1]
  /\ UNCHANGED <<counter, folderVars, waiting, pic, bufAlive>>

\* Mutant: the counter of the picture before.
FileBefore(whole) == [time |-> now, no |-> counter - 1, pic |-> frame.pixels, whole |-> whole]

\* Mutant: the name has the time only.
FileOfSecond(whole) == [time |-> now, no |-> 0, pic |-> frame.pixels, whole |-> whole]

\* open with O_TRUNC, write and close.  A file that cannot be opened, or not be
\* written to and so stays behind empty, ends the thread; a short write does not.
File(whole) == [time |-> now, no |-> counter, pic |-> frame.pixels, whole |-> whole]
SaveAs(f) == {g \in folder : g.time # f.time \/ g.no # f.no} \cup {f}
SavePicture ==
  /\ counter' = counter + 1
  /\ \/ OutGoto("save", "ring") /\ folder' = SaveAs(File(frame.size = frame.pixels))
     \/ OutputFails /\ OutGoto("save", "ring") /\ folder' = SaveAs(File(FALSE))
     \/ OutputFails /\ OutGoto("save", "ended") /\ folder' \in {folder, SaveAs(File(FALSE))}
  /\ UNCHANGED <<frame, ringFailed, frameVars>>

\* The command of -c, then the ring.
KeepRing ==
  /\ OutGoto("ring", "top")
  /\ IF Due(counter) THEN MaintainRingbuffer ELSE UNCHANGED folderVars
  /\ frame' = NoPicture
  /\ UNCHANGED <<counter, frameVars>>

\* output_stop cancels the thread: in pthread_cond_wait, which takes the mutex
\* before the thread ends, while the file is written, or in the command.
OutCancelled ==
  /\ stop /\ outPc' = "ended"
  /\ \/ /\ outPc = "woken" /\ Rec \in waiting /\ Lock(Rec)
        /\ waiting' = waiting \ {Rec}
        /\ UNCHANGED <<counter, folder>>
     \/ /\ outPc = "save" /\ counter' = counter + 1
        /\ \/ UNCHANGED folder
           \/ \E whole \in {FALSE, frame.size = frame.pixels} : folder' = SaveAs(File(whole))
        /\ UNCHANGED <<db, waiting>>
     \/ outPc = "ring" /\ UNCHANGED <<counter, folder, db, waiting>>
  /\ UNCHANGED <<frame, ringFailed, pic, bufAlive>>

OutWorker ==
  /\ \/ OutTop \/ OutLock \/ OutWait \/ OutRelock \/ OutSize \/ OutCopy \/ SavePicture \/ KeepRing
     \/ OutCancelled
  /\ UNCHANGED <<alive, stop, now>>
=============================================================================
