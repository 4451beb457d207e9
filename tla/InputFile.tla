------------------------------ MODULE InputFile ------------------------------
(***************************************************************************)
(* The input_file plugin: another program writes JPEG files into a folder, *)
(* inotify reports each close, and worker_thread copies the file to the    *)
(* shared picture and, with -r, deletes it.  One read takes every event    *)
(* that is queued, but only the first of them is looked at.                *)
(*                                                                         *)
(* The program that writes is external: it writes one file at a time, in   *)
(* place, either under new names or (start.sh:76) under used ones as well. *)
(***************************************************************************)
EXTENDS FrameBuffer

CONSTANTS Reuses,      \* the writer uses a name more than once
          Removes,     \* -r
          InputFails,  \* malloc or a system call may fail
          MaxNames,    \* file names
          MaxWrites    \* bound: pictures the writer produces

ASSUME InputFileAssumption ==
  /\ Reuses \in BOOLEAN /\ Removes \in BOOLEAN /\ InputFails \in BOOLEAN
  /\ MaxNames \in Nat /\ MaxWrites \in Nat
  /\ NoOne # Cam

VARIABLES inbox,      \* inbox[f]: the picture in file f, and whether it is complete
          writing,    \* the name being written, 0 if none
          written,    \* pictures begun so far
          events,     \* inotify's queue of names
          inPc,       \* worker_thread
          cur,        \* the name of its event
          fsize,      \* the picture fstat saw the size of, -1 if incomplete
          published,  \* history: pictures broadcast
          failed      \* history: memory, a system call or inotify has failed

writerVars == <<inbox, writing, written>>
inWorkerVars == <<inPc, cur, fsize>>
inputVars  == <<writerVars, events, inWorkerVars, published>>

Names == 1..MaxNames
Absent == [pic |-> 0, whole |-> TRUE]

InputInit ==
  /\ inbox = [f \in Names |-> Absent] /\ writing = 0 /\ written = 0
  /\ events = <<>>
  /\ inPc = "top" /\ cur = 0 /\ fsize = 0
  /\ published = {} /\ failed = FALSE

-----------------------------------------------------------------------------
\* The writer, and inotify.  Two equal events in a row are one.

BeginWrite(f) ==
  /\ writing = 0 /\ written < MaxWrites
  /\ Reuses \/ f = written + 1
  /\ writing' = f /\ written' = written + 1
  /\ inbox' = [inbox EXCEPT ![f] = [pic |-> written + 1, whole |-> FALSE]]
  /\ UNCHANGED <<events, inWorkerVars, published, failed>>
  /\ UNCHANGED <<alive, stop, frameVars>>

EndWrite ==
  /\ writing # 0
  /\ inbox' = [inbox EXCEPT ![writing].whole = TRUE]
  /\ events' = IF events # <<>> /\ events[Len(events)] = writing THEN events
               ELSE Append(events, writing)
  /\ writing' = 0
  /\ UNCHANGED <<written, inWorkerVars, published, failed>>
  /\ UNCHANGED <<alive, stop, frameVars>>

Writer == EndWrite \/ \E f \in Names : BeginWrite(f)

-----------------------------------------------------------------------------
\* worker_thread.

InGoto(from, to) == inPc = from /\ inPc' = to

InTop ==
  /\ InGoto("top", IF stop THEN "cleanup" ELSE "read")
  /\ UNCHANGED <<writerVars, events, cur, fsize, published, failed, frameVars>>

\* Mutant: the event is not taken from the queue.
ReadEventsAgain ==
  /\ events # <<>>
  /\ InGoto("read", "open")
  /\ cur' = Head(events)
  /\ UNCHANGED <<writerVars, events, fsize, published, failed, frameVars>>

\* Mutant: of several events the last is looked at.
ReadLastEvent ==
  /\ events # <<>>
  /\ InGoto("read", "open")
  /\ cur' = events[Len(events)] /\ events' = <<>>
  /\ UNCHANGED <<writerVars, fsize, published, failed, frameVars>>

\* read of the inotify descriptor blocks until there is an event.
ReadEvents ==
  /\ events # <<>>
  /\ InGoto("read", "open")
  /\ cur' = Head(events) /\ events' = <<>>
  /\ UNCHANGED <<writerVars, fsize, published, failed, frameVars>>

\* The breaks before the copy: read fails or reports that the watch has ended
\* (IN_IGNORED, IN_UNMOUNT), or open or fstat fails for a file that is there.
EventFails ==
  /\ InputFails /\ inPc \in {"read", "open"}
  /\ inPc' = "cleanup" /\ failed' = TRUE
  /\ UNCHANGED <<writerVars, events, cur, fsize, published, frameVars>>

\* open and fstat.  A file that is not there any more ends the thread.
OpenFile ==
  /\ InGoto("open", IF inbox[cur].pic = 0 THEN "cleanup" ELSE "lock")
  /\ fsize' = IF inbox[cur].whole THEN inbox[cur].pic ELSE -1
  /\ UNCHANGED <<writerVars, events, cur, published, failed, frameVars>>

\* Mutant: the mutex is not taken.
InLockNot ==
  /\ InGoto("lock", "alloc")
  /\ UNCHANGED <<writerVars, events, cur, fsize, published, failed, frameVars>>

InLock ==
  /\ InGoto("lock", "alloc") /\ Lock(Cam)
  /\ UNCHANGED <<writerVars, events, cur, fsize, published, failed, waiting, pic, bufAlive>>

\* free and malloc of the shared buffer.  Without memory the loop is left
\* with the mutex held.
AllocBuf ==
  /\ \/ InGoto("alloc", "copy") /\ bufAlive' = TRUE /\ UNCHANGED failed
     \/ InputFails /\ InGoto("alloc", "cleanup") /\ bufAlive' = FALSE /\ failed' = TRUE
  /\ UNCHANGED <<writerVars, events, cur, fsize, published, db, waiting, pic>>

\* Mutant: after a failed read the thread goes on as if nothing had happened.
CopyFileGoesOn ==
  LET n == IF inbox[cur].whole THEN inbox[cur].pic ELSE -1 IN
  /\ \/ /\ InGoto("copy", "publish")
        /\ pic' = [pixels |-> n, size |-> IF fsize = n THEN n ELSE -2, stamp |-> 0]
        /\ UNCHANGED <<db, bufAlive, failed>>
     \/ /\ InputFails /\ InGoto("copy", "remove")
        /\ pic' = NoPicture /\ bufAlive' = FALSE /\ Unlock /\ failed' = TRUE
  /\ UNCHANGED <<writerVars, events, cur, fsize, published, waiting>>

\* read(file, buf, filesize): complete if size and content are of one picture.
CopyFile ==
  LET n == IF inbox[cur].whole THEN inbox[cur].pic ELSE -1 IN
  /\ \/ /\ InGoto("copy", "publish")
        /\ pic' = [pixels |-> n, size |-> IF fsize = n THEN n ELSE -2, stamp |-> 0]
        /\ UNCHANGED <<db, bufAlive, failed>>
     \/ /\ InputFails /\ InGoto("copy", "cleanup")
        /\ pic' = NoPicture /\ bufAlive' = FALSE /\ Unlock /\ failed' = TRUE
  /\ UNCHANGED <<writerVars, events, cur, fsize, published, waiting>>

Publish ==
  /\ InGoto("publish", "remove")
  /\ waiting' = {} /\ Unlock
  /\ published' = published \cup {pic.pixels}
  /\ UNCHANGED <<writerVars, events, cur, fsize, failed, pic, bufAlive>>

\* unlink, by name: whatever is there now.  When it fails the file stays.
RemoveFile ==
  /\ InGoto("remove", "top")
  /\ \/ inbox' = IF Removes THEN [inbox EXCEPT ![cur] = Absent] ELSE inbox
     \/ InputFails /\ UNCHANGED inbox
  /\ cur' = 0 /\ fsize' = 0
  /\ UNCHANGED <<writing, written, events, published, failed, frameVars>>

\* worker_cleanup frees the shared buffer, without the mutex.
InCleanup ==
  /\ InGoto("cleanup", "ended")
  /\ bufAlive' = FALSE
  /\ UNCHANGED <<writerVars, events, cur, fsize, published, failed, db, waiting, pic>>

\* input_stop cancels the thread, which takes effect in a system call, and be
\* it with the mutex held; what is left to do is the cleanup.
InCancelled ==
  /\ stop /\ inPc \in {"read", "open", "copy", "remove"}
  /\ inPc' = "cleanup"
  /\ UNCHANGED <<writerVars, events, cur, fsize, published, failed, frameVars>>

InWorker ==
  /\ \/ InTop \/ ReadEvents \/ EventFails \/ OpenFile \/ InLock \/ AllocBuf \/ CopyFile \/ Publish
     \/ RemoveFile \/ InCleanup \/ InCancelled
  /\ UNCHANGED <<alive, stop>>
=============================================================================
