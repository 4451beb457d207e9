----------------------------- MODULE OutputHttp ------------------------------
(***************************************************************************)
(* The client threads of the HTTP output plugin that deliver pictures:     *)
(* send_stream (a loop) and send_snapshot (one picture).  Each connection  *)
(* is a thread of its own.  A thread takes the mutex, waits on the         *)
(* condition variable once, with no predicate to re-check, copies size,    *)
(* timestamp and picture, unlocks, and writes the copy to its socket.      *)
(***************************************************************************)
EXTENDS FrameBuffer

CONSTANTS Streams, Snapshots,    \* client threads
          SpuriousWakeups        \* pthread_cond_wait may return by itself

ASSUME OutputAssumption ==
  /\ SpuriousWakeups \in BOOLEAN
  /\ Streams \cap Snapshots = {}
  /\ Cam \notin Streams \cup Snapshots /\ NoOne \notin Streams \cup Snapshots

Clients == Streams \cup Snapshots

VARIABLES rpc,     \* rpc[r]: where client r stands
          got,     \* got[r]: its local copy: frame, frame_size, timestamp
          sent     \* history: the picture written last

clientVars == <<rpc, got, sent>>

ClientInit ==
  /\ rpc = [r \in Clients |-> "new"]
  /\ got = [r \in Clients |-> NoPicture]
  /\ sent = [r \in Clients |-> NoPicture]

Goto(r, from, to) == rpc[r] = from /\ rpc' = [rpc EXCEPT ![r] = to]
Others == UNCHANGED <<alive, stop, pic, bufAlive>>

\* client_thread has read the request and dispatches; a stream writes its
\* header first, which may fail.
Request(r) ==
  /\ \/ Goto(r, "new", IF r \in Streams THEN "top" ELSE "lock")
     \/ r \in Streams /\ Goto(r, "new", "done")
  /\ UNCHANGED <<got, sent, db, waiting>> /\ Others

\* while(!pglobal->stop)
StreamTop(r) ==
  /\ Goto(r, "top", IF stop THEN "done" ELSE "lock")
  /\ UNCHANGED <<got, sent, db, waiting>> /\ Others

ClientLock(r) ==
  /\ Goto(r, "lock", "wait") /\ Lock(r)
  /\ UNCHANGED <<got, sent, waiting>> /\ Others

\* Mutant: the client copies what is there instead of waiting.
CondWaitSkipped(r) ==
  /\ Goto(r, "wait", "size")
  /\ UNCHANGED <<got, sent, db, waiting>> /\ Others

\* pthread_cond_wait: release the mutex and wait, in one step.
CondWait(r) ==
  /\ Goto(r, "wait", "woken") /\ Unlock
  /\ waiting' = waiting \cup {r}
  /\ UNCHANGED <<got, sent>> /\ Others

SpuriousWakeup(r) ==
  /\ SpuriousWakeups /\ r \in waiting
  /\ waiting' = waiting \ {r}
  /\ UNCHANGED <<clientVars, db>> /\ Others

\* Mutant: the mutex is not taken again.
RelockNot(r) ==
  /\ r \notin waiting
  /\ Goto(r, "woken", "size")
  /\ UNCHANGED <<got, sent, db, waiting>> /\ Others

\* Woken, the thread takes the mutex again before the call returns.
Relock(r) ==
  /\ r \notin waiting
  /\ Goto(r, "woken", "size") /\ Lock(r)
  /\ UNCHANGED <<got, sent, waiting>> /\ Others

\* Mutant: a client dropped for want of memory keeps the mutex.
ReadSizeKeeps(r) ==
  /\ \/ /\ Goto(r, "size", "stamp")
        /\ got' = [got EXCEPT ![r].size = pic.size]
     \/ Goto(r, "size", "done") /\ UNCHANGED got
  /\ UNCHANGED <<sent, waiting, db>> /\ Others

\* frame_size, then memory for it: without memory the client is dropped.
ReadSize(r) ==
  /\ \/ /\ Goto(r, "size", "stamp")
        /\ got' = [got EXCEPT ![r].size = pic.size]
        /\ UNCHANGED db
     \/ /\ Goto(r, "size", "done")
        /\ Unlock /\ UNCHANGED got
  /\ UNCHANGED <<sent, waiting>> /\ Others

ReadStamp(r) ==
  /\ Goto(r, "stamp", "copy")
  /\ got' = [got EXCEPT ![r].stamp = pic.stamp]
  /\ UNCHANGED <<sent, db, waiting>> /\ Others

\* memcpy from in[i].buf, of no byte if the size was 0.  Once cam_cleanup has
\* freed it the copy holds anything (-1) or faults.
ReadPixels(r) ==
  /\ \/ Goto(r, "copy", "unlock") /\ got[r].size = 0 /\ UNCHANGED <<got, alive>>
     \/ /\ Goto(r, "copy", "unlock") /\ got[r].size # 0
        /\ got' = [got EXCEPT ![r].pixels = IF bufAlive THEN pic.pixels ELSE -1]
        /\ UNCHANGED alive
     \/ /\ rpc[r] = "copy" /\ got[r].size # 0 /\ ~bufAlive
        /\ Exit /\ UNCHANGED <<rpc, got>>
  /\ UNCHANGED <<sent, db, waiting, stop, pic, bufAlive>>

ClientUnlock(r) ==
  /\ Goto(r, "unlock", "send") /\ Unlock
  /\ UNCHANGED <<got, sent, waiting>> /\ Others

\* The writes to the socket, outside the mutex; the client may be gone.
Send(r) ==
  /\ \/ /\ Goto(r, "send", IF r \in Streams THEN "top" ELSE "done")
        /\ sent' = [sent EXCEPT ![r] = got[r]]
     \/ Goto(r, "send", "done") /\ UNCHANGED sent
  /\ UNCHANGED <<got, db, waiting>> /\ Others

ClientRun(r) ==
  \/ Request(r) \/ StreamTop(r) \/ ClientLock(r) \/ CondWait(r) \/ Relock(r)
  \/ ReadSize(r) \/ ReadStamp(r) \/ ReadPixels(r) \/ ClientUnlock(r) \/ Send(r)

Client(r) == ClientRun(r) \/ SpuriousWakeup(r)

\* The positions at which a client holds the mutex.
Holding == {"wait", "size", "stamp", "copy", "unlock"}

ClientTypeOK ==
  /\ rpc \in [Clients -> {"new", "top", "lock", "woken", "send", "done"} \cup Holding]
  /\ got \in [Clients -> Picture] /\ sent \in [Clients -> Picture]
=============================================================================
