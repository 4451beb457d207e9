--------------------------- MODULE Recorder_proofs ---------------------------
(***************************************************************************)
(* Proofs about Recorder, for any number of pictures, restarts and         *)
(* seconds, any ring, with failures of memory and disk, interrupts and     *)
(* cancellation at any point.                                              *)
(***************************************************************************)
EXTENDS Recorder, SequenceTheorems, FiniteSetTheorems, TLAPS

Constants == InputFileAssumption /\ OutputFileAssumption /\ RecorderAssumption

LEMMA ConstantsOK == Constants
BY InputFileAssumption, OutputFileAssumption, RecorderAssumption DEF Constants

-----------------------------------------------------------------------------
(***************************************************************************)
(* Types.  From open to unlink the thread has the name of an event.        *)
(***************************************************************************)

Busy == {"open", "lock", "alloc", "copy", "publish", "remove"}

TypeInv == TypeOK /\ (inPc \in Busy => cur \in Names)

\* The types, by the part of the state they are about.
SharedTypes ==
  /\ alive = TRUE /\ stop \in BOOLEAN /\ bufAlive \in BOOLEAN
  /\ db \in {NoOne, Cam, Rec} /\ waiting \subseteq {Rec} /\ pic \in Picture
InputTypesOK ==
  /\ inbox \in [Names -> [pic : 0..MaxWrites, whole : BOOLEAN]]
  /\ writing \in Names \cup {0} /\ written \in 0..MaxWrites
  /\ events \in Seq(Names) /\ cur \in Names \cup {0} /\ fsize \in Int
  /\ inPc \in {"top", "read", "open", "lock", "alloc", "copy", "publish", "remove",
               "cleanup", "ended"}
  /\ published \subseteq Int /\ failed \in BOOLEAN
  /\ inPc \in Busy => cur \in Names
OutputTypesOK ==
  /\ outPc \in {"top", "lock", "wait", "woken", "size", "copy", "save", "ring", "ended"}
  /\ frame \in Picture /\ counter \in Nat /\ now \in 0..MaxTime /\ restarts \in 0..MaxRestarts
  /\ \A f \in folder : f.time \in 0..now /\ f.no \in Nat
  /\ ringFailed \in BOOLEAN /\ recorded \in Int

LEMMA WriterTypes ==
  ASSUME TypeInv, WriterStep
  PROVE  TypeInv'
<1> USE ConstantsOK DEF Constants, InputFileAssumption, TypeInv, TypeOK, inWorkerVars, frameVars,
                        outputVars, folderVars, WriterStep
<1>1. ASSUME NEW f \in Names, BeginWrite(f) PROVE TypeInv'
  <2>1. written' \in 0..MaxWrites /\ [pic |-> written', whole |-> FALSE] \in [pic : 0..MaxWrites, whole : BOOLEAN]
    BY <1>1 DEF BeginWrite
  <2> QED BY <1>1, <2>1 DEF BeginWrite
<1>2. CASE EndWrite
  <2>1. writing \in Names
    BY <1>2 DEF EndWrite
  <2>2. inbox' \in [Names -> [pic : 0..MaxWrites, whole : BOOLEAN]]
    BY <1>2, <2>1 DEF EndWrite
  <2>3. events' \in Seq(Names)
    BY <1>2, <2>1, AppendProperties DEF EndWrite
  <2>4. /\ writing' = 0
        /\ UNCHANGED <<alive, stop, db, waiting, pic, bufAlive, written, inPc, cur, fsize,
                       published, failed, outPc, frame, counter, folder, ringFailed, now, restarts,
                       recorded>>
    BY <1>2 DEF EndWrite
  <2> HIDE DEF EndWrite, inWorkerVars, frameVars, outputVars, folderVars, WriterStep
  <2> QED BY <2>2, <2>3, <2>4
<1> QED BY <1>1, <1>2 DEF Writer

LEMMA InputTypes ==
  ASSUME TypeInv, InputStep
  PROVE  TypeInv'
<1> USE DEF TypeInv, TypeOK, Busy, InGoto, InWorker, writerVars, frameVars, outputVars, folderVars, InputStep
<1>0. NoPicture \in Picture /\ Absent \in [pic : 0..MaxWrites, whole : BOOLEAN] /\ <<>> \in Seq(Names)
  BY ConstantsOK, EmptySeq DEF NoPicture, Picture, Absent, Constants, InputFileAssumption
<1>1. CASE InTop
  BY <1>1 DEF InTop
<1>2. CASE ReadEvents
  <2>1. Head(events) \in Names
    BY <1>2, HeadTailProperties DEF ReadEvents
  <2> QED BY <1>0, <1>2, <2>1 DEF ReadEvents
<1>3. CASE OpenFile
  <2>1. inbox[cur].pic \in Int /\ fsize' \in Int
    BY <1>3, ConstantsOK DEF OpenFile, Constants, InputFileAssumption
  <2> QED BY <1>3, <2>1 DEF OpenFile
<1>4. CASE InLock
  BY <1>4 DEF InLock, Lock
<1>5. CASE AllocBuf
  <2>1. /\ inPc' \in {"copy", "cleanup"} /\ bufAlive' \in BOOLEAN /\ failed' \in BOOLEAN
        /\ inPc' = "copy" => inPc = "alloc"
        /\ UNCHANGED <<alive, stop, inbox, writing, written, events, cur, fsize, published, db,
                       waiting, pic, outPc, frame, counter, folder, ringFailed, now, restarts>>
    BY <1>5 DEF AllocBuf
  <2> HIDE DEF InWorker, writerVars, frameVars, outputVars, folderVars
  <2> QED BY <2>1
<1>6. CASE CopyFile
  <2>1. pic' \in Picture
    <3> DEFINE n == IF inbox[cur].whole THEN inbox[cur].pic ELSE -1
    <3>1. n \in Int /\ -2 \in Int
      BY <1>6, ConstantsOK DEF CopyFile, Constants, InputFileAssumption
    <3>2. pic' = [pixels |-> n, size |-> IF fsize = n THEN n ELSE -2, stamp |-> 0] \/ pic' = NoPicture
      BY <1>6 DEF CopyFile
    <3> HIDE DEF n
    <3>3. (IF fsize = n THEN n ELSE -2) \in Int
      BY <3>1
    <3>4. \A x, y \in Int : [pixels |-> x, size |-> y, stamp |-> 0] \in Picture
      BY DEF Picture
    <3> HIDE DEF TypeInv, TypeOK, InWorker
    <3> QED BY <1>0, <3>1, <3>2, <3>3, <3>4
  <2>2. db' \in {NoOne, db} /\ bufAlive' \in BOOLEAN /\ failed' \in BOOLEAN
    BY <1>6 DEF CopyFile, Unlock
  <2> QED BY <1>6, <2>1, <2>2 DEF CopyFile
<1>7. CASE Publish
  <2>1. pic.pixels \in Int
    BY DEF Picture
  <2> QED BY <1>7, <2>1 DEF Publish, Unlock
<1>8. CASE RemoveFile
  BY <1>0, <1>8 DEF RemoveFile
<1>9. CASE InCleanup
  BY <1>9 DEF InCleanup
<1>10. CASE InCancelled
  BY <1>10 DEF InCancelled
<1>11. CASE EventFails
  BY <1>11 DEF EventFails
<1> QED BY <1>1, <1>2, <1>3, <1>4, <1>5, <1>6, <1>7, <1>8, <1>9, <1>10, <1>11

\* What a turn of the ring deletes: nothing but the oldest names, and all of
\* them unless it fails.
LEMMA RingTurn ==
  ASSUME KeepRing
  PROVE  /\ folder' \subseteq folder /\ folder \ folder' \subseteq Oldest(folder, RingSize)
         /\ ringFailed' \in BOOLEAN \/ ringFailed' = ringFailed
         /\ Due(counter) /\ ~ringFailed' => folder' = folder \ Oldest(folder, RingSize)
         /\ ~Due(counter) => UNCHANGED folderVars
<1>1. CASE Due(counter)
  <2>1. PICK gone \in SUBSET Oldest(folder, RingSize) :
          folder' = folder \ gone /\ ringFailed' = (gone # Oldest(folder, RingSize))
    BY <1>1 DEF KeepRing, MaintainRingbuffer
  <2> QED BY <1>1, <2>1
<1>2. CASE ~Due(counter)
  BY <1>2 DEF KeepRing, folderVars
<1> QED BY <1>1, <1>2

LEMMA OutputTypes ==
  ASSUME TypeInv, OutputStep
  PROVE  TypeInv'
<1>a. recorded' \in Int
  BY DEF OutputStep, TypeInv, TypeOK, Picture
<1>b. OutWorker /\ UNCHANGED <<inputVars, failed, restarts>>
  BY DEF OutputStep
<1> USE <1>a, <1>b DEF TypeInv, TypeOK, OutGoto, OutWorker, writerVars, inWorkerVars, inputVars,
                       frameVars, folderVars, Lock, Unlock
<1>0. NoPicture \in Picture
  BY DEF NoPicture, Picture
<1>1. CASE OutTop \/ OutLock \/ OutWait \/ OutRelock
  BY <1>1 DEF OutTop, OutLock, OutWait, OutRelock
<1>2. CASE OutSize
  <2>1. frame' \in Picture
    BY <1>2 DEF OutSize, Picture
  <2> QED BY <1>2, <2>1 DEF OutSize
<1>3. CASE OutCopy
  <2>1. (IF bufAlive THEN pic.pixels ELSE -1) \in Int
    BY DEF Picture
  <2>2. frame' \in Picture
    BY <1>3, <2>1 DEF OutCopy, Picture
  <2> QED BY <1>3, <2>2 DEF OutCopy
<1>4. ASSUME NEW w, folder' \in {folder, SaveAs(File(w))}, counter' = counter \/ counter' = counter + 1,
             now' = now
      PROVE  counter' \in Nat /\ \A f \in folder' : f.time \in 0..now' /\ f.no \in Nat
  <2>1. File(w).time = now /\ File(w).no = counter
    BY DEF File
  <2>2. now \in 0..now
    BY ConstantsOK DEF Constants, RecorderAssumption
  <2> QED BY <1>4, <2>1, <2>2 DEF SaveAs
<1>5. CASE SavePicture
  <2>1. PICK w \in BOOLEAN : folder' \in {folder, SaveAs(File(w))}
    BY <1>5 DEF SavePicture
  <2>2. /\ counter' = counter + 1 /\ outPc' \in {"ring", "ended"}
        /\ UNCHANGED <<frame, ringFailed, frameVars, now>>
    BY <1>5 DEF SavePicture
  <2> QED BY <1>4, <2>1, <2>2
<1>6. CASE KeepRing
  <2>1. folder' \subseteq folder /\ ringFailed' \in BOOLEAN
    BY <1>6, RingTurn
  <2>2. outPc' = "top" /\ frame' = NoPicture /\ UNCHANGED <<counter, frameVars>>
    BY <1>6 DEF KeepRing
  <2> HIDE DEF MaintainRingbuffer
  <2> QED BY <1>0, <2>1, <2>2
<1>7. CASE OutCancelled
  <2>1. \E w \in BOOLEAN : folder' \in {folder, SaveAs(File(w))}
    BY <1>7 DEF OutCancelled
  <2>2. counter' = counter \/ counter' = counter + 1
    BY <1>7 DEF OutCancelled
  <2>3. db' \in {db, Rec} /\ waiting' \subseteq waiting /\ UNCHANGED <<frame, ringFailed, pic, bufAlive>>
    BY <1>7 DEF OutCancelled
  <2>4. UNCHANGED <<alive, stop, now, inbox, writing, written, events, inPc, cur, fsize, published,
                    failed, restarts>>
    OBVIOUS
  <2>5. counter' \in Nat /\ \A f \in folder' : f.time \in 0..now' /\ f.no \in Nat
    BY <1>4, <2>1, <2>2, <2>4
  <2>6. outPc' = "ended"
    BY <1>7 DEF OutCancelled
  <2>7. SharedTypes'
    BY <2>3, <2>4 DEF SharedTypes
  <2>8. InputTypesOK'
    BY <2>4 DEF InputTypesOK
  <2>9. OutputTypesOK'
    BY <2>3, <2>4, <2>5, <2>6 DEF OutputTypesOK
  <2> QED BY <2>7, <2>8, <2>9 DEF SharedTypes, InputTypesOK, OutputTypesOK
<1> QED BY <1>1, <1>2, <1>3, <1>5, <1>6, <1>7

LEMMA NextTypes == TypeInv /\ [Next]_vars => TypeInv'
<1> SUFFICES ASSUME TypeInv, [Next]_vars PROVE TypeInv'
  OBVIOUS
<1> USE DEF frameVars, inputVars, writerVars, inWorkerVars, outputVars, folderVars
<1>1. CASE Tick
  <2>1. now' \in 0..MaxTime /\ now' = now + 1
    BY <1>1, ConstantsOK DEF Tick, TypeInv, TypeOK, Constants, RecorderAssumption
  <2>2. \A t \in 0..now : t \in 0..now'
    BY <2>1, ConstantsOK DEF TypeInv, TypeOK, Constants, RecorderAssumption
  <2> QED BY <1>1, <2>1, <2>2 DEF Tick, TypeInv, TypeOK
<1>2. CASE Interrupt
  BY <1>2 DEF Interrupt, TypeInv, TypeOK
<1>3. CASE Restart
  <2>1. now' \in 0..MaxTime /\ now' = now + 1 /\ restarts' \in 0..MaxRestarts
    BY <1>3, ConstantsOK DEF Restart, TypeInv, TypeOK, Constants, RecorderAssumption
  <2>2. \A t \in 0..now : t \in 0..now'
    BY <2>1, ConstantsOK DEF TypeInv, TypeOK, Constants, RecorderAssumption
  <2>3. NoPicture \in Picture /\ <<>> \in Seq(Names)
    BY EmptySeq DEF NoPicture, Picture
  <2>4. /\ stop' = FALSE /\ db' = NoOne /\ waiting' = {} /\ pic' = NoPicture /\ bufAlive' = TRUE
        /\ inPc' = "top" /\ cur' = 0 /\ fsize' = 0 /\ events' = <<>> /\ failed' = FALSE
        /\ outPc' = "top" /\ frame' = NoPicture /\ counter' = 0 /\ ringFailed' = FALSE
        /\ UNCHANGED <<alive, inbox, writing, written, published, folder, recorded>>
    BY <1>3 DEF Restart
  <2>5. \A f \in folder' : f.time \in 0..now' /\ f.no \in Nat
    BY <2>2, <2>4 DEF TypeInv, TypeOK
  <2>6. SharedTypes'
    BY <2>3, <2>4 DEF SharedTypes, TypeInv, TypeOK
  <2>7. InputTypesOK'
    <3>1. inPc' \notin Busy /\ published' \subseteq Int
      BY <2>4 DEF TypeInv, TypeOK, Busy
    <3>2. events' \in Seq(Names)
      BY <2>3, <2>4
    <3>3. inbox' = inbox /\ written' = written /\ writing' = writing
      BY <2>4
    <3>4. cur' \in Names \cup {0}
      BY <2>4
    <3>5. inPc' \in {"top", "read", "open", "lock", "alloc", "copy", "publish", "remove",
                      "cleanup", "ended"}
      BY <2>4
    <3>6. fsize' \in Int
      BY <2>4
    <3>7. failed' \in BOOLEAN
      BY <2>4
    <3> QED BY <3>1, <3>2, <3>3, <3>4, <3>5, <3>6, <3>7 DEF InputTypesOK, TypeInv, TypeOK
  <2>8. OutputTypesOK'
    BY <2>1, <2>3, <2>4, <2>5 DEF OutputTypesOK, TypeInv, TypeOK
  <2> QED BY <2>6, <2>7, <2>8 DEF TypeInv, TypeOK, SharedTypes, InputTypesOK, OutputTypesOK
<1>4. CASE UNCHANGED vars
  BY <1>4 DEF vars, TypeInv, TypeOK
<1> QED BY <1>1, <1>2, <1>3, <1>4, WriterTypes, InputTypes, OutputTypes DEF Next

LEMMA TypesHold == Spec => []TypeInv
<1>1. Init => TypeInv
  <2> SUFFICES ASSUME Init PROVE TypeInv
    OBVIOUS
  <2>1. NoPicture \in Picture /\ <<>> \in Seq(Names)
        /\ Absent \in [pic : 0..MaxWrites, whole : BOOLEAN]
    BY ConstantsOK, EmptySeq DEF NoPicture, Picture, Absent, Constants, InputFileAssumption
  <2>2. inbox \in [Names -> [pic : 0..MaxWrites, whole : BOOLEAN]]
    BY <2>1 DEF Init, InputInit
  <2>3. 0 \in 0..MaxWrites /\ 0 \in 0..MaxTime /\ 0 \in 0..MaxRestarts
    BY ConstantsOK DEF Constants, InputFileAssumption, RecorderAssumption
  <2>4. SharedTypes
    BY <2>1 DEF Init, FrameInit, SharedTypes
  <2>5. InputTypesOK
    <3>1. inPc \notin Busy /\ published \subseteq Int
      BY DEF Init, InputInit, Busy
    <3>2. events \in Seq(Names)
      BY <2>1 DEF Init, InputInit
    <3>3. writing \in Names \cup {0} /\ cur \in Names \cup {0}
      BY DEF Init, InputInit
    <3>4. written \in 0..MaxWrites
      BY <2>3 DEF Init, InputInit
    <3>5. inPc \in {"top", "read", "open", "lock", "alloc", "copy", "publish", "remove",
                     "cleanup", "ended"}
      BY DEF Init, InputInit
    <3>6. fsize \in Int
      BY DEF Init, InputInit
    <3>7. failed \in BOOLEAN
      BY DEF Init, InputInit
    <3> QED BY <2>2, <3>1, <3>2, <3>3, <3>4, <3>5, <3>6, <3>7 DEF InputTypesOK
  <2>6. OutputTypesOK
    <3>1. ringFailed \in BOOLEAN
      BY DEF Init, OutputInit
    <3> QED BY <2>1, <2>3, <3>1 DEF Init, OutputInit, OutputTypesOK
  <2> QED BY <2>4, <2>5, <2>6 DEF TypeInv, TypeOK, SharedTypes, InputTypesOK, OutputTypesOK
<1> QED BY <1>1, NextTypes, PTL DEF Spec

\* The variables keep their types over all restarts.
THEOREM Typing == Spec => []TypeOK
<1>1. TypeInv => TypeOK
  BY DEF TypeInv
<1> QED BY <1>1, TypesHold, PTL

-----------------------------------------------------------------------------
(***************************************************************************)
(* The files of the inbox, with names used once.  Names are taken in the   *)
(* order of the pictures, so the queue of events is increasing, and what   *)
(* is in the thread's hands lies between what was published and what is    *)
(* queued.  A file is there from its beginning to its unlink.              *)
(***************************************************************************)

InboxOK ==
  /\ writing # 0 => writing = written /\ inbox[writing].pic # 0
  /\ \A f \in Names : /\ inbox[f].pic \in {0, f}
                      /\ f > written => inbox[f].pic = 0
                      /\ f # writing => inbox[f].whole
                      /\ f <= written /\ inbox[f].pic = 0 => f \in published
  /\ \A m \in published : 1 <= m /\ m <= written /\ m # writing

QueueOK ==
  /\ \A i \in DOMAIN events :
       /\ events[i] <= written /\ events[i] # writing /\ inbox[events[i]].pic # 0
       /\ \A m \in published : m < events[i]
  /\ \A i, j \in DOMAIN events : i < j => events[i] < events[j]

CurOK ==
  inPc \in Busy =>
    /\ cur <= written /\ cur # writing /\ inbox[cur].pic # 0
    /\ \A i \in DOMAIN events : cur < events[i]
    /\ IF inPc = "remove" THEN cur \in published ELSE \A m \in published : m < cur
    /\ inPc \in {"lock", "alloc", "copy", "publish"} => fsize = cur
    /\ inPc = "publish" => pic.pixels = cur /\ pic.size = cur

FilesInv == InboxOK /\ QueueOK /\ CurOK

LEMMA Numbers ==
  ASSUME TypeInv
  PROVE  /\ written \in Nat /\ writing \in Nat /\ inbox \in [Names -> [pic : 0..MaxWrites, whole : BOOLEAN]]
         /\ \A f \in Names : f \in Nat /\ f # 0
         /\ \A m \in published : m \in Int
         /\ events \in Seq(Names)
         /\ \A i \in DOMAIN events : i \in Nat /\ i <= Len(events) /\ events[i] \in Names
         /\ Len(events) \in Nat
<1>1. events \in Seq(Names)
  BY DEF TypeInv, TypeOK
<1>2. \A i \in DOMAIN events : i \in Nat /\ i <= Len(events) /\ events[i] \in Names
  BY <1>1, ElementOfSeq, LenProperties
<1>3. \A f \in Names : f \in Nat /\ f # 0
  BY ConstantsOK DEF Names, Constants, InputFileAssumption
<1>4. written \in Nat /\ writing \in Nat
  BY <1>3, ConstantsOK DEF TypeInv, TypeOK, Constants, InputFileAssumption
<1> QED BY <1>1, <1>2, <1>3, <1>4, LenProperties DEF TypeInv, TypeOK

LEMMA WriterFiles ==
  ASSUME TypeInv, ~Reuses, FilesInv, Writer
  PROVE  FilesInv'
<1> USE DEF FilesInv, InboxOK, QueueOK, CurOK
<1>0. UNCHANGED <<inPc, cur, fsize, published, pic>>
  BY DEF Writer, BeginWrite, EndWrite, inWorkerVars, frameVars
<1>1. ASSUME NEW f \in Names, BeginWrite(f)
      PROVE  FilesInv'
  <2>1. /\ f = written + 1 /\ writing = 0 /\ writing' = f /\ written' = f /\ events' = events
        /\ inbox' = [inbox EXCEPT ![f] = [pic |-> f, whole |-> FALSE]]
    BY <1>1 DEF BeginWrite
  <2>2. inbox'[f].pic = f /\ \A g \in Names : g # f => inbox'[g] = inbox[g]
    BY <2>1, Numbers
  <2>3. InboxOK'
    BY <1>0, <2>1, <2>2, Numbers
  <2>4. written \in Nat /\ \A g \in Names : g \in Nat
    BY Numbers
  <2>5. \A i \in DOMAIN events : events[i] \in Names /\ events[i] <= written
    BY Numbers
  <2>6. \A g \in Names : g <= written => g # f /\ g <= written'
    <3>1. f = written + 1 /\ written' = written + 1
      BY <2>1
    <3> QED BY <2>4, <3>1
  <2>7. \A i \in DOMAIN events : events[i] \in Nat /\ events[i] \in Names /\ events[i] # f
    BY <2>4, <2>5, <2>6
  <2>8. \A i \in DOMAIN events : inbox'[events[i]] = inbox[events[i]] /\ events[i] <= written'
    BY <2>1, <2>2, <2>7, Numbers
  <2>9. QueueOK'
    BY <1>0, <2>1, <2>7, <2>8
  <2>10. inPc \in Busy => /\ cur \in Names /\ cur # f /\ cur <= written'
                         /\ inbox'[cur] = inbox[cur]
    <3>1. inPc \in Busy => cur \in Names /\ cur <= written
      BY DEF TypeInv
    <3> QED BY <2>2, <2>6, <3>1
  <2>11. CurOK'
    BY <1>0, <2>1, <2>10
  <2> QED BY <2>3, <2>9, <2>11
<1>2. CASE EndWrite
  <2>1. /\ writing \in Names /\ writing' = 0 /\ written' = written
        /\ inbox' = [inbox EXCEPT ![writing].whole = TRUE]
    BY <1>2 DEF EndWrite, TypeInv, TypeOK
  <2>2. /\ \A g \in Names : inbox'[g].pic = inbox[g].pic
        /\ \A g \in Names : inbox'[g].whole
    BY <2>1, Numbers
  <2>3. events' = Append(events, writing)
    <3>1. CASE events # <<>>
      <4>1. Len(events) \in DOMAIN events
        BY <3>1, Numbers, LenProperties, EmptySeq
      <4> QED BY <1>2, <3>1, <4>1 DEF EndWrite
    <3> QED BY <1>2, <3>1 DEF EndWrite
  <2>4. \A i \in DOMAIN events' : \/ i \in DOMAIN events /\ events'[i] = events[i]
                                  \/ i = Len(events) + 1 /\ events'[i] = writing
    <3>1. events \in Seq(Names)
      BY Numbers
    <3> HIDE DEF FilesInv, InboxOK, QueueOK, CurOK
    <3> QED BY <2>1, <2>3, <3>1, AppendProperties, LenProperties
  <2>5. InboxOK'
    <3>1. \A m \in published : 1 <= m /\ m <= written' /\ m # writing'
      BY <2>1, Numbers
    <3>2. \A f \in Names : /\ inbox'[f].pic \in {0, f}
                           /\ f > written' => inbox'[f].pic = 0
                           /\ f <= written' /\ inbox'[f].pic = 0 => f \in published
      BY <2>1, <2>2
    <3> QED BY <1>0, <2>1, <2>2, <3>1, <3>2
  <2>6. QueueOK'
    <3>0. \A g \in Names : inbox'[g].pic = inbox[g].pic /\ g # 0
      BY <2>2, Numbers
    <3>1. \A i \in DOMAIN events' : /\ events'[i] <= written /\ events'[i] # 0
                                    /\ inbox'[events'[i]].pic # 0
      <4>1. \A i \in DOMAIN events : /\ events[i] \in Names /\ events[i] <= written
                                     /\ inbox[events[i]].pic # 0
        BY Numbers
      <4>2. writing \in Names /\ writing <= written /\ inbox[writing].pic # 0
        BY <2>1, Numbers
      <4> HIDE DEF FilesInv, InboxOK, QueueOK, CurOK
      <4> QED BY <2>4, <3>0, <4>1, <4>2
    <3>2. \A i \in DOMAIN events', m \in published : m < events'[i]
      BY <2>1, <2>4, Numbers
    <3>3. \A i \in DOMAIN events : events[i] < writing
      BY <2>1, Numbers
    <3>4. \A i, j \in DOMAIN events' : i < j => events'[i] < events'[j]
      BY <2>4, <3>3, Numbers
    <3> QED BY <1>0, <2>1, <3>1, <3>2, <3>4
  <2>7. CurOK'
    <3>1. inPc \in Busy => cur \in Names /\ cur \in Nat /\ cur < writing
      BY <2>1, Numbers DEF TypeInv
    <3>2. inPc \in Busy => /\ cur <= written' /\ cur # writing' /\ inbox'[cur].pic # 0
                           /\ \A i \in DOMAIN events' : cur < events'[i]
      BY <2>1, <2>2, <2>4, <3>1, Numbers
    <3> QED BY <1>0, <3>2
  <2> QED BY <2>5, <2>6, <2>7
<1> QED BY <1>1, <1>2 DEF Writer

LEMMA InputFiles ==
  ASSUME TypeInv, ~Reuses, FilesInv, InWorker
  PROVE  FilesInv'
<1> USE DEF FilesInv, InboxOK, QueueOK, CurOK, Busy, InGoto
<1>1. CASE InTop \/ EventFails \/ InCleanup \/ InCancelled
  <2>1. inPc' \in {"read", "cleanup", "ended"} /\ UNCHANGED <<inbox, writing, written, events, published>>
    BY <1>1 DEF InTop, EventFails, InCleanup, InCancelled, writerVars
  <2> QED BY <2>1
<1>2. CASE ReadEvents
  <2>1. /\ cur' = events[1] /\ 1 \in DOMAIN events /\ events' = <<>> /\ inPc' = "open"
        /\ UNCHANGED <<inbox, writing, written, published>>
    BY <1>2, Numbers, HeadTailProperties, LenProperties, EmptySeq DEF ReadEvents, writerVars
  <2> QED BY <2>1
<1>3. CASE OpenFile
  <2>1. cur \in Names /\ inbox[cur].pic = cur /\ inbox[cur].whole
    BY <1>3 DEF OpenFile, TypeInv
  <2>2. /\ inPc = "open" /\ inPc' = "lock" /\ fsize' = cur
        /\ UNCHANGED <<inbox, writing, written, events, published, cur>>
    BY <1>3, <2>1, Numbers DEF OpenFile, writerVars
  <2> QED BY <2>2
<1>4. CASE InLock
  <2>1. /\ inPc = "lock" /\ inPc' = "alloc"
        /\ UNCHANGED <<inbox, writing, written, events, published, cur, fsize>>
    BY <1>4 DEF InLock, writerVars
  <2> QED BY <2>1
<1>5. CASE AllocBuf
  <2>1. /\ inPc = "alloc" /\ inPc' \in {"copy", "cleanup"}
        /\ UNCHANGED <<inbox, writing, written, events, published, cur, fsize>>
    BY <1>5 DEF AllocBuf, writerVars
  <2> QED BY <2>1
<1>6. CASE CopyFile
  <2>1. inPc = "copy" /\ UNCHANGED <<inbox, writing, written, events, published, cur, fsize>>
    BY <1>6 DEF CopyFile, writerVars
  <2>2. inPc' = "cleanup" \/ (inPc' = "publish" /\ pic'.pixels = cur /\ pic'.size = cur)
    <3>1. cur \in Names /\ inbox[cur].pic = cur /\ inbox[cur].whole /\ fsize = cur
      BY <2>1 DEF TypeInv
    <3> QED BY <1>6, <3>1 DEF CopyFile
  <2> QED BY <2>1, <2>2
<1>7. CASE Publish
  <2>1. /\ inPc = "publish" /\ inPc' = "remove" /\ published' = published \cup {cur}
        /\ UNCHANGED <<inbox, writing, written, events, cur, fsize>>
    BY <1>7 DEF Publish, writerVars
  <2>2. cur \in Names
    BY <2>1 DEF TypeInv
  <2>3. InboxOK'
    BY <2>1, <2>2, Numbers
  <2>4. QueueOK'
    BY <2>1, <2>2, Numbers
  <2>5. CurOK'
    BY <2>1
  <2> QED BY <2>3, <2>4, <2>5
<1>8. CASE RemoveFile
  <2>1. /\ inPc = "remove" /\ inPc' = "top" /\ UNCHANGED <<writing, written, events, published>>
        /\ inbox' \in {inbox, [inbox EXCEPT ![cur] = Absent]}
    BY <1>8 DEF RemoveFile
  <2>2. /\ cur \in Names /\ cur \in published /\ cur # writing
        /\ \A i \in DOMAIN events : events[i] # cur
    BY <2>1, Numbers DEF TypeInv
  <2>3. /\ inbox'[cur] \in {inbox[cur], Absent} /\ Absent.pic = 0 /\ Absent.whole
        /\ \A g \in Names : g # cur => inbox'[g] = inbox[g]
    BY <2>1, <2>2, Numbers DEF Absent
  <2>4. InboxOK'
    <3>1. \A g \in Names : inbox'[g].pic \in {0, inbox[g].pic} /\ (inbox'[g].whole \/ g = writing)
      BY <2>2, <2>3
    <3> QED BY <2>1, <2>2, <2>3, <3>1, Numbers DEF TypeInv, TypeOK
  <2>5. QueueOK'
    BY <2>1, <2>2, <2>3, Numbers
  <2> QED BY <2>1, <2>4, <2>5
<1> QED BY <1>1, <1>2, <1>3, <1>4, <1>5, <1>6, <1>7, <1>8 DEF InWorker

\* The recorder does not touch the shared picture.
LEMMA OutputLeaves ==
  ASSUME OutWorker
  PROVE  UNCHANGED <<pic, bufAlive, now>>
BY DEF OutWorker, OutTop, OutLock, OutWait, OutRelock, OutSize, OutCopy, SavePicture, KeepRing,
       OutCancelled, frameVars

LEMMA FilesHold == Spec => [](~Reuses => FilesInv)
<1>1. Init => FilesInv
  <2> SUFFICES ASSUME Init PROVE FilesInv
    OBVIOUS
  <2>1. inPc = "top" /\ events = <<>> /\ published = {} /\ writing = 0 /\ written = 0
        /\ \A f \in Names : inbox[f].pic = 0 /\ inbox[f].whole
    BY DEF Init, InputInit, Absent
  <2>2. \A f \in Names : f > 0 /\ f \in Nat
    BY ConstantsOK DEF Names, Constants, InputFileAssumption
  <2> QED BY <2>1, <2>2 DEF FilesInv, InboxOK, QueueOK, CurOK, Busy
<1>2. TypeInv /\ (~Reuses => FilesInv) /\ [Next]_vars => (~Reuses => FilesInv)'
  <2> SUFFICES ASSUME TypeInv, ~Reuses, FilesInv, [Next]_vars PROVE FilesInv'
    OBVIOUS
  <2>1. CASE UNCHANGED <<inputVars, pic>>
    BY <2>1 DEF inputVars, writerVars, inWorkerVars, FilesInv, InboxOK, QueueOK, CurOK
  <2>2. CASE Restart
    <3>1. inPc' = "top" /\ events' = <<>> /\ UNCHANGED <<inbox, writing, written, published>>
      BY <2>2 DEF Restart, writerVars
    <3> QED BY <3>1 DEF FilesInv, InboxOK, QueueOK, CurOK, Busy
  <2>3. CASE Tick \/ Interrupt \/ UNCHANGED vars
    BY <2>1, <2>3 DEF Tick, Interrupt, vars, frameVars
  <2> QED BY <2>1, <2>2, <2>3, WriterFiles, InputFiles, OutputLeaves DEF Next, WriterStep, InputStep, OutputStep
<1> QED BY <1>1, <1>2, TypesHold, PTL DEF Spec

\* No picture is lost by -r.
THEOREM ShownBeforeRemoved == Spec => []RemovedWasShown
<1>1. (~Reuses => FilesInv) => RemovedWasShown
  BY DEF FilesInv, InboxOK, RemovedWasShown
<1> QED BY <1>1, FilesHold, PTL

\* With names used once the thread that reads the files ends for a failure or
\* a stop only: the file of an event is there when it is opened.
THEOREM InputIsNotEnded == Spec => []InputGoesOnFresh
<1>1. Init => InputGoesOnFresh
  BY DEF Init, InputInit, InputGoesOnFresh, InputGoesOn
<1>2. TypeInv /\ (~Reuses => FilesInv) /\ InputGoesOnFresh /\ [Next]_vars => InputGoesOnFresh'
  <2> SUFFICES ASSUME TypeInv, ~Reuses, FilesInv, InputGoesOn, [Next]_vars PROVE InputGoesOn'
    BY DEF InputGoesOnFresh
  <2> USE DEF InputGoesOn, InGoto
  <2>1. CASE InWorker
    <3>1. ~ (inPc = "open" /\ inPc' = "cleanup" /\ OpenFile)
      BY DEF OpenFile, FilesInv, CurOK, Busy
    <3>2. stop' = stop /\ (failed => failed')
      BY <2>1 DEF InWorker, InTop, ReadEvents, EventFails, OpenFile, InLock, AllocBuf, CopyFile, Publish,
                  RemoveFile, InCleanup, InCancelled
    <3>3. inPc' \in {"cleanup", "ended"} =>
            inPc \in {"cleanup", "ended"} \/ stop \/ failed' \/ OpenFile
      BY <2>1 DEF InWorker, InTop, ReadEvents, EventFails, OpenFile, InLock, AllocBuf, CopyFile, Publish,
                  RemoveFile, InCleanup, InCancelled
    <3>4. OpenFile => inPc = "open" /\ inPc' \in {"cleanup", "lock"}
      BY DEF OpenFile
    <3> QED BY <3>1, <3>2, <3>3, <3>4
  <2>2. CASE Writer \/ (OutWorker /\ UNCHANGED <<inputVars, failed>>) \/ Tick \/ UNCHANGED vars
    <3>1. UNCHANGED <<inPc, stop, failed>>
      BY <2>2 DEF Writer, BeginWrite, EndWrite, OutWorker, Tick, vars, inputVars, inWorkerVars
    <3> QED BY <3>1
  <2>3. CASE Interrupt \/ Restart
    BY <2>3 DEF Interrupt, Restart
  <2> QED BY <2>1, <2>2, <2>3 DEF Next, WriterStep, InputStep, OutputStep
<1> QED BY <1>1, <1>2, TypesHold, FilesHold, PTL DEF Spec

-----------------------------------------------------------------------------
(***************************************************************************)
(* The recorder.  Both threads are inside the protected section one at a   *)
(* time, so what the recorder copies is what was published last; it waits  *)
(* for each picture, so that is newer than all it saved; and its names are *)
(* in the order it saves.                                                  *)
(***************************************************************************)

MutexOK ==
  /\ inPc \in {"alloc", "copy", "publish"} => db = Cam
  /\ outPc \in {"wait", "size", "copy"} => db = Rec
  /\ Rec \in waiting => outPc = "woken"

\* The recorder has been woken and has not copied the picture yet.
Woken == (outPc = "woken" /\ Rec \notin waiting) \/ outPc \in {"size", "copy"}

ShotOK ==
  /\ ~bufAlive => inPc \in {"cleanup", "ended"}
  /\ bufAlive /\ inPc # "publish" =>
       pic.pixels = 0 \/ (pic.size = pic.pixels /\ pic.pixels \in published)
  /\ Woken /\ bufAlive => pic.pixels # 0 /\ \A f \in folder : f.pic < pic.pixels
  /\ outPc = "copy" => frame.size = pic.size
  /\ outPc = "save" =>
       \/ frame.pixels = -1 /\ inPc \in {"cleanup", "ended"}
       \/ /\ frame.size = frame.pixels /\ frame.pixels \in published
          /\ \A f \in folder : f.pic < frame.pixels

FolderOK ==
  /\ IsFiniteSet(folder)
  /\ \A f \in folder : /\ f.pic = -1 \/ f.pic \in published
                       /\ f.time < now \/ (f.time = now /\ f.no < counter)
  /\ \A f, g \in folder : Before(f, g) /\ g.pic # -1 => f.pic < g.pic

RecorderInv == ShotOK /\ FolderOK

LEMMA MutexHolds == Spec => []MutexOK
<1>0. Rec # NoOne /\ Rec # Cam /\ Cam # NoOne
  BY ConstantsOK DEF Constants, InputFileAssumption, OutputFileAssumption
<1>1. Init => MutexOK
  BY DEF Init, FrameInit, InputInit, OutputInit, MutexOK
<1>2. MutexOK /\ [Next]_vars => MutexOK'
  <2> SUFFICES ASSUME MutexOK, [Next]_vars PROVE MutexOK'
    OBVIOUS
  <2> USE <1>0 DEF MutexOK, frameVars, Lock, Unlock
  <2>1. CASE Writer /\ UNCHANGED outputVars
    BY <2>1 DEF Writer, BeginWrite, EndWrite, inWorkerVars, outputVars, folderVars
  <2>2. CASE InWorker /\ UNCHANGED outputVars
    BY <2>2 DEF InWorker, InTop, ReadEvents, EventFails, OpenFile, InLock, AllocBuf, CopyFile, Publish,
                RemoveFile, InCleanup, InCancelled, InGoto, outputVars, folderVars
  <2>3. CASE OutWorker /\ UNCHANGED inputVars
    BY <2>3 DEF OutWorker, OutTop, OutLock, OutWait, OutRelock, OutSize, OutCopy, SavePicture,
                KeepRing, OutCancelled, OutGoto, inputVars, inWorkerVars
  <2>4. CASE Tick \/ Interrupt
    BY <2>4 DEF Tick, Interrupt, inputVars, inWorkerVars, outputVars, folderVars
  <2>5. CASE Restart
    BY <2>5 DEF Restart
  <2>6. CASE UNCHANGED vars
    BY <2>6 DEF vars, inputVars, inWorkerVars, outputVars, folderVars
  <2> QED BY <2>1, <2>2, <2>3, <2>4, <2>5, <2>6 DEF Next, WriterStep, InputStep, OutputStep
<1> QED BY <1>1, <1>2, PTL DEF Spec

LEMMA Pictures ==
  ASSUME TypeInv, FilesInv
  PROVE  /\ \A m \in published : m \in Int /\ m >= 1
         /\ pic.pixels \in Int /\ frame.pixels \in Int
         /\ \A f \in folder : f.time \in Int /\ f.no \in Int
BY ConstantsOK DEF TypeInv, TypeOK, FilesInv, InboxOK, Picture, Constants, RecorderAssumption

LEMMA InputShots ==
  ASSUME TypeInv, FilesInv, FilesInv', MutexOK, RecorderInv, InWorker,
         UNCHANGED <<outputVars, now, restarts, recorded>>
  PROVE  RecorderInv'
<1> USE DEF RecorderInv, ShotOK, FolderOK, InGoto
<1>0. UNCHANGED <<folder, outPc, frame, now, counter>>
  BY DEF outputVars, folderVars
<1>1. CASE CopyFile
  <2>1. inPc = "copy" /\ UNCHANGED <<published, waiting>>
    BY <1>1 DEF CopyFile
  <2>2. outPc \notin {"size", "copy"}
    BY <2>1, ConstantsOK DEF MutexOK, Constants, OutputFileAssumption
  <2>3. CASE inPc' = "publish"
    <3>1. pic'.pixels = cur' /\ pic'.pixels # 0 /\ \A m \in published : m < pic'.pixels
      <4>1. cur' = cur /\ cur \in Names
        BY <1>1 DEF CopyFile, TypeInv, Busy
      <4> QED BY <2>1, <2>3, <4>1, Numbers DEF FilesInv, CurOK, Busy
    <3>2. bufAlive' = bufAlive
      BY <1>1, <2>3 DEF CopyFile
    <3>3. pic'.pixels \in Int /\ pic'.pixels > 0
      <4>1. cur' = cur /\ cur \in Names
        BY <1>1 DEF CopyFile, TypeInv, Busy
      <4> QED BY <3>1, <4>1, Numbers
    <3>4. \A f \in folder : f.pic < pic'.pixels
      BY <3>1, <3>3
    <3> QED BY <1>0, <2>1, <2>2, <2>3, <3>1, <3>2, <3>4 DEF Woken
  <2>4. CASE inPc' = "cleanup"
    <3>1. ~bufAlive'
      BY <1>1, <2>4 DEF CopyFile
    <3> QED BY <1>0, <2>1, <2>2, <2>4, <3>1 DEF Woken
  <2> QED BY <1>1, <2>3, <2>4 DEF CopyFile
<1>2. CASE Publish
  <2>1. /\ inPc = "publish" /\ inPc' = "remove" /\ published' = published \cup {pic.pixels}
        /\ UNCHANGED <<pic, bufAlive>> /\ waiting' = {}
    BY <1>2 DEF Publish
  <2>2. /\ pic.pixels = cur /\ pic.size = cur /\ cur \in Names
        /\ \A m \in published : m < cur
    BY <2>1 DEF FilesInv, CurOK, TypeInv, Busy
  <2>3. cur \in Nat /\ cur # 0
    BY <2>2, Numbers
  <2>4. \A f \in folder : f.pic < pic.pixels
    BY <2>2, <2>3
  <2>5. ShotOK'
    BY <1>0, <2>1, <2>2, <2>3, <2>4 DEF Woken
  <2>6. FolderOK'
    BY <1>0, <2>1
  <2> QED BY <2>5, <2>6
<1>3. CASE AllocBuf
  <2>1. /\ inPc = "alloc" /\ UNCHANGED <<pic, published, waiting>>
        /\ \/ bufAlive' /\ inPc' = "copy"
           \/ ~bufAlive' /\ inPc' = "cleanup"
    BY <1>3 DEF AllocBuf
  <2>2. bufAlive
    BY <2>1
  <2> QED BY <1>0, <2>1, <2>2 DEF Woken
<1>4. CASE InCleanup
  <2>1. inPc = "cleanup" /\ inPc' = "ended" /\ ~bufAlive' /\ UNCHANGED <<pic, published, waiting>>
    BY <1>4 DEF InCleanup
  <2> QED BY <1>0, <2>1 DEF Woken
<1>5. CASE InTop \/ ReadEvents \/ EventFails \/ OpenFile \/ InLock \/ RemoveFile \/ InCancelled
  <2>1. /\ UNCHANGED <<pic, bufAlive, published, waiting>>
        /\ inPc # "publish" /\ inPc' # "publish" /\ inPc \notin {"cleanup", "ended"}
    BY <1>5 DEF InTop, ReadEvents, EventFails, OpenFile, InLock, RemoveFile, InCancelled, frameVars
  <2> QED BY <1>0, <2>1 DEF Woken
<1> QED BY <1>1, <1>2, <1>3, <1>4, <1>5 DEF InWorker

\* Where a file goes nothing is: its name is behind all others.
LEMMA SavesBehind ==
  ASSUME TypeInv, FilesInv, RecorderInv, outPc = "save", NEW w,
         folder' = SaveAs(File(w)), counter' = counter + 1, UNCHANGED <<now, published>>
  PROVE  FolderOK' /\ folder \subseteq folder'
<1> DEFINE e == File(w)
<1>1. e.time = now /\ e.no = counter /\ e.pic = frame.pixels
  BY DEF File
<1>2. counter \in Nat /\ now \in Int
  BY ConstantsOK DEF TypeInv, TypeOK, Constants, RecorderAssumption
<1>3. \A f \in folder : f.time < now \/ (f.time = now /\ f.no < counter)
  BY DEF RecorderInv, FolderOK
<1>4. \A f \in folder : f.time \in Int /\ f.no \in Int
  BY Pictures
<1>5. folder' = folder \cup {e}
  BY <1>1, <1>2, <1>3, <1>4 DEF SaveAs
<1>6. \A f \in folder : ~ Before(e, f)
  BY <1>1, <1>2, <1>3, <1>4 DEF Before
<1>7. ~ Before(e, e)
  BY <1>1, <1>2 DEF Before
<1>8. e.pic # -1 => e.pic \in published /\ \A f \in folder : f.pic < e.pic
  BY <1>1 DEF RecorderInv, ShotOK
<1>9. IsFiniteSet(folder')
  BY <1>5, FS_AddElement DEF RecorderInv, FolderOK
<1> HIDE DEF e
<1>10. \A f \in folder' : f.pic = -1 \/ f.pic \in published
  BY <1>5, <1>8 DEF RecorderInv, FolderOK
<1>11. \A f \in folder' : f.time < now \/ (f.time = now /\ f.no < counter')
  BY <1>1, <1>2, <1>3, <1>4, <1>5
<1>12. \A f, g \in folder' : Before(f, g) /\ g.pic # -1 => f.pic < g.pic
  BY <1>5, <1>6, <1>7, <1>8 DEF RecorderInv, FolderOK
<1> QED BY <1>5, <1>9, <1>10, <1>11, <1>12 DEF FolderOK

LEMMA OutputShots ==
  ASSUME TypeInv, FilesInv, MutexOK, RecorderInv, OutWorker, UNCHANGED <<inputVars, failed, restarts>>
  PROVE  RecorderInv'
<1> USE DEF OutGoto
<1>0. UNCHANGED <<pic, bufAlive, now, published, inPc>>
  BY OutputLeaves DEF inputVars, inWorkerVars
<1>1. CASE OutTop \/ OutLock \/ OutWait
  <2>1. /\ outPc' \in {"ended", "lock", "wait", "woken"} /\ UNCHANGED <<folder, counter>>
        /\ outPc' = "woken" => Rec \in waiting'
    BY <1>1 DEF OutTop, OutLock, OutWait, folderVars
  <2> QED BY <1>0, <2>1 DEF RecorderInv, ShotOK, FolderOK, Woken
<1>2. CASE OutRelock
  <2>1. /\ outPc = "woken" /\ Rec \notin waiting /\ outPc' = "size"
        /\ UNCHANGED <<folder, counter, frame>>
    BY <1>2 DEF OutRelock, folderVars
  <2> QED BY <1>0, <2>1 DEF RecorderInv, ShotOK, FolderOK, Woken
<1>3. CASE OutSize
  <2>1. /\ outPc = "size" /\ UNCHANGED <<folder, counter>>
        /\ outPc' = "ended" \/ (outPc' = "copy" /\ frame'.size = pic.size)
    BY <1>3 DEF OutSize, TypeInv, TypeOK, Picture, folderVars
  <2> QED BY <1>0, <2>1 DEF RecorderInv, ShotOK, FolderOK, Woken
<1>4. CASE OutCopy
  <2>1. /\ outPc = "copy" /\ outPc' = "save" /\ UNCHANGED <<folder, counter>>
        /\ frame'.pixels = (IF bufAlive THEN pic.pixels ELSE -1)
        /\ frame'.size = frame.size
    BY <1>4 DEF OutCopy, TypeInv, TypeOK, Picture, folderVars
  <2>2. inPc # "publish"
    BY <2>1, ConstantsOK DEF MutexOK, Constants, OutputFileAssumption
  <2> QED BY <1>0, <2>1, <2>2 DEF RecorderInv, ShotOK, FolderOK, Woken
<1>5. CASE SavePicture
  <2>1. /\ outPc = "save" /\ outPc' \in {"ring", "ended"} /\ counter' = counter + 1
        /\ folder' = folder \/ \E w \in BOOLEAN : folder' = SaveAs(File(w))
    BY <1>5 DEF SavePicture
  <2>2. ShotOK'
    BY <1>0, <2>1 DEF RecorderInv, ShotOK, Woken
  <2>3. CASE folder' = folder
    <3>1. counter \in Nat /\ \A f \in folder : f.no \in Int
      BY Pictures DEF TypeInv, TypeOK
    <3> QED BY <1>0, <2>1, <2>2, <2>3, <3>1 DEF RecorderInv, FolderOK
  <2> QED BY <1>0, <2>1, <2>2, <2>3, SavesBehind DEF RecorderInv
<1>6. CASE KeepRing
  <2>1. /\ outPc' = "top" /\ counter' = counter /\ folder' \subseteq folder
    BY <1>6, RingTurn DEF KeepRing
  <2>2. IsFiniteSet(folder')
    BY <2>1, FS_Subset DEF RecorderInv, FolderOK
  <2> QED BY <1>0, <2>1, <2>2 DEF RecorderInv, ShotOK, FolderOK, Woken
<1>7. CASE OutCancelled
  <2>1. outPc' = "ended"
    BY <1>7 DEF OutCancelled
  <2>2. ShotOK'
    BY <1>0, <2>1 DEF RecorderInv, ShotOK, Woken
  <2>3. CASE UNCHANGED <<folder, counter>>
    BY <1>0, <2>2, <2>3 DEF RecorderInv, FolderOK
  <2>4. CASE outPc = "save" /\ counter' = counter + 1 /\ folder' = folder
    <3>1. counter \in Nat /\ \A f \in folder : f.no \in Int
      BY Pictures DEF TypeInv, TypeOK
    <3> QED BY <1>0, <2>2, <2>4, <3>1 DEF RecorderInv, FolderOK
  <2>5. CASE outPc = "save" /\ counter' = counter + 1 /\ \E w \in BOOLEAN : folder' = SaveAs(File(w))
    BY <1>0, <2>2, <2>5, SavesBehind DEF RecorderInv
  <2>6. \/ UNCHANGED <<folder, counter>>
        \/ outPc = "save" /\ counter' = counter + 1 /\ folder' = folder
        \/ outPc = "save" /\ counter' = counter + 1 /\ \E w \in BOOLEAN : folder' = SaveAs(File(w))
    BY <1>7 DEF OutCancelled
  <2> QED BY <2>3, <2>4, <2>5, <2>6
<1> QED BY <1>1, <1>2, <1>3, <1>4, <1>5, <1>6, <1>7 DEF OutWorker

LEMMA NextShots ==
  ASSUME TypeInv, FilesInv, FilesInv', MutexOK, RecorderInv, [Next]_vars
  PROVE  RecorderInv'
<1> USE DEF RecorderInv, ShotOK, FolderOK, Woken
<1>1. CASE Writer /\ UNCHANGED <<outputVars, now, restarts, recorded>>
  BY <1>1 DEF Writer, BeginWrite, EndWrite, inWorkerVars, frameVars, outputVars, folderVars
<1>2. CASE Interrupt \/ UNCHANGED vars
  BY <1>2 DEF Interrupt, vars, inputVars, inWorkerVars, frameVars, outputVars, folderVars
<1>3. now \in Int /\ \A f \in folder : f.time \in Int
  BY Pictures, ConstantsOK DEF TypeInv, TypeOK, Constants, RecorderAssumption
<1>4. CASE Tick
  <2>1. /\ now' = now + 1
        /\ UNCHANGED <<pic, bufAlive, waiting, inPc, published, outPc, frame, folder, counter>>
    BY <1>4 DEF Tick, inputVars, inWorkerVars, frameVars, outputVars, folderVars
  <2>2. \A f \in folder : f.time < now'
    BY <1>3, <2>1
  <2> QED BY <2>1, <2>2
<1>5. CASE Restart
  <2>1. /\ now' = now + 1 /\ bufAlive' /\ pic' = NoPicture /\ inPc' = "top" /\ outPc' = "top"
        /\ UNCHANGED <<published, folder>>
    BY <1>5 DEF Restart
  <2>2. \A f \in folder : f.time < now'
    BY <1>3, <2>1
  <2> QED BY <2>1, <2>2 DEF NoPicture
<1> HIDE DEF RecorderInv
<1> QED BY <1>1, <1>2, <1>4, <1>5, InputShots, OutputShots DEF Next, WriterStep, InputStep, OutputStep

LEMMA ShotsHold == Spec => [](~Reuses => RecorderInv)
<1>1. Init => RecorderInv
  BY FS_EmptySet DEF Init, FrameInit, InputInit, OutputInit, RecorderInv, ShotOK, FolderOK, Woken,
                     NoPicture
<1>2. /\ TypeInv /\ (~Reuses => FilesInv) /\ (~Reuses => FilesInv)' /\ MutexOK
      /\ (~Reuses => RecorderInv) /\ [Next]_vars
      => (~Reuses => RecorderInv)'
  BY NextShots
<1> QED BY <1>1, <1>2, TypesHold, FilesHold, MutexHolds, PTL DEF Spec

\* What the recorder saves while the input thread runs is one published file.
THEOREM SavesWholePictures == Spec => []SavedWhole
<1>1. (~Reuses => RecorderInv) => SavedWhole
  BY DEF RecorderInv, ShotOK, SavedWhole
<1> QED BY <1>1, ShotsHold, PTL

-----------------------------------------------------------------------------
(***************************************************************************)
(* The ring.  If a name that goes were behind one that stays, at least as  *)
(* many names would follow the one that stays: it would go as well.        *)
(***************************************************************************)

LEMMA RingKeepsLast ==
  ASSUME NEW files, IsFiniteSet(files), NEW size \in Int,
         \A f \in files : f.time \in Int /\ f.no \in Int,
         NEW f \in Oldest(files, size), NEW g \in files \ Oldest(files, size)
  PROVE  Before(f, g)
<1> DEFINE Behind(x) == {h \in files : Before(x, h)}
<1>1. f \in files /\ size <= Cardinality(Behind(f)) /\ ~ (size <= Cardinality(Behind(g)))
  BY DEF Oldest
<1>2. IsFiniteSet(Behind(f)) /\ IsFiniteSet(Behind(g))
  BY FS_Subset
<1>3. Cardinality(Behind(f)) \in Nat /\ Cardinality(Behind(g)) \in Nat
  BY <1>2, FS_CardinalityType
<1>4. SUFFICES ASSUME ~ Before(f, g) PROVE FALSE
  OBVIOUS
<1>5. Behind(f) \subseteq Behind(g)
  BY <1>1, <1>4 DEF Before
<1>6. Cardinality(Behind(f)) <= Cardinality(Behind(g))
  BY <1>2, <1>5, FS_Subset
<1> HIDE DEF Behind
<1> QED BY <1>1, <1>3, <1>6

\* A folder loses files by the ring only.
LEMMA RingDeletes ==
  ASSUME TypeInv, FilesInv, RecorderInv, [Next]_vars, NEW f \in folder \ folder'
  PROVE  KeepRing
<1>1. OutWorker /\ UNCHANGED inputVars
  BY DEF Next, WriterStep, InputStep, OutputStep, Tick, Interrupt, Restart, vars, outputVars, folderVars
<1>2. ~ (SavePicture \/ OutCancelled)
  <2> SUFFICES ASSUME SavePicture \/ OutCancelled PROVE FALSE
    OBVIOUS
  <2>1. \/ folder' = folder
        \/ outPc = "save" /\ counter' = counter + 1 /\ \E w \in BOOLEAN : folder' = SaveAs(File(w))
    BY DEF SavePicture, OutCancelled, OutGoto
  <2>2. UNCHANGED <<now, published>>
    BY <1>1, OutputLeaves DEF inputVars
  <2> QED BY <2>1, <2>2, SavesBehind
<1> QED BY <1>1, <1>2 DEF OutWorker, OutTop, OutLock, OutWait, OutRelock, OutSize, OutCopy, folderVars

\* A file never goes unless -s files were taken after it, and, where all that
\* are to go can be deleted, not before one that was taken earlier.
THEOREM RingIsTheNewest == Spec => KeepsNewest
<1>1. TypeInv /\ (~Reuses => FilesInv) /\ (~Reuses => RecorderInv) /\ [Next]_vars
        => [~Reuses =>
              \A f \in folder \ folder' :
                /\ Cardinality({g \in folder : f.pic < g.pic \/ g.pic = -1}) >= RingSize
                /\ ~ringFailed' => \A g \in folder' : g.pic # -1 => f.pic < g.pic]_vars
  <2> SUFFICES ASSUME TypeInv, FilesInv, RecorderInv, [Next]_vars, ~Reuses,
                      NEW f \in folder \ folder'
               PROVE  /\ Cardinality({g \in folder : f.pic < g.pic \/ g.pic = -1}) >= RingSize
                      /\ ~ringFailed' => \A g \in folder' : g.pic # -1 => f.pic < g.pic
    OBVIOUS
  <2> DEFINE Behind == {g \in folder : Before(f, g)}
             Later == {g \in folder : f.pic < g.pic \/ g.pic = -1}
  <2>1. KeepRing
    BY RingDeletes
  <2>2. RingSize \in Int
    BY ConstantsOK DEF Constants, OutputFileAssumption
  <2>3. IsFiniteSet(folder) /\ \A h \in folder : h.time \in Int /\ h.no \in Int
    BY Pictures DEF RecorderInv, FolderOK
  <2>4. f \in Oldest(folder, RingSize)
    BY <2>1, RingTurn
  <2>5. Cardinality(Later) >= RingSize
    <3>1. IsFiniteSet(Behind) /\ IsFiniteSet(Later) /\ Behind \subseteq Later
      BY <2>3, FS_Subset DEF RecorderInv, FolderOK
    <3>2. Cardinality(Behind) <= Cardinality(Later)
      BY <3>1, FS_Subset
    <3>3. Cardinality(Behind) \in Nat /\ Cardinality(Later) \in Nat
      BY <3>1, FS_CardinalityType
    <3>4. Cardinality(Behind) >= RingSize
      BY <2>4 DEF Oldest
    <3> HIDE DEF Behind, Later
    <3> QED BY <2>2, <3>2, <3>3, <3>4
  <2>6. ASSUME ~ringFailed', NEW g \in folder', g.pic # -1
        PROVE  f.pic < g.pic
    <3>1. folder' = folder \ Oldest(folder, RingSize)
      BY <2>1, <2>6, RingTurn DEF folderVars
    <3>2. Before(f, g)
      BY <2>2, <2>3, <2>4, <3>1, RingKeepsLast
    <3> QED BY <2>6, <3>1, <3>2 DEF RecorderInv, FolderOK
  <2> QED BY <2>5, <2>6
<1> QED BY <1>1, TypesHold, FilesHold, ShotsHold, PTL DEF Spec, KeepsNewest

-----------------------------------------------------------------------------
(***************************************************************************)
(* The size of the ring.  Names are in a strict order, so each file that   *)
(* stays has a rank of its own, the number of names behind it, and the     *)
(* ranks that stay are 0 .. size - 1.                                      *)
(***************************************************************************)

UniqueNames(files) ==
  /\ IsFiniteSet(files)
  /\ \A f \in files : f.time \in Int /\ f.no \in Int
  /\ \A f, g \in files : f.time = g.time /\ f.no = g.no => f = g

\* Of two files the one in front has more names behind it.
LEMMA RanksDiffer ==
  ASSUME NEW files, UniqueNames(files), NEW f \in files, NEW g \in files, Before(f, g)
  PROVE  Cardinality({h \in files : Before(g, h)}) < Cardinality({h \in files : Before(f, h)})
<1> DEFINE Behind(x) == {h \in files : Before(x, h)}
<1>1. IsFiniteSet(Behind(f)) /\ IsFiniteSet(Behind(g))
  BY FS_Subset DEF UniqueNames
<1>2. Behind(g) \subseteq Behind(f)
  BY DEF UniqueNames, Before
<1>3. g \in Behind(f) /\ g \notin Behind(g)
  BY DEF UniqueNames, Before
<1>4. Cardinality(Behind(g)) <= Cardinality(Behind(f))
      /\ (Cardinality(Behind(g)) = Cardinality(Behind(f)) => Behind(g) = Behind(f))
  BY <1>1, <1>2, FS_Subset
<1>5. Cardinality(Behind(f)) \in Nat /\ Cardinality(Behind(g)) \in Nat
  BY <1>1, FS_CardinalityType
<1> HIDE DEF Behind
<1>6. Cardinality(Behind(g)) < Cardinality(Behind(f))
  BY <1>3, <1>4, <1>5
<1> QED BY <1>6 DEF Behind

\* Without its oldest names a folder has no more than "size" files.
LEMMA RingHasItsSize ==
  ASSUME NEW files, UniqueNames(files), NEW size \in Nat
  PROVE  /\ IsFiniteSet(files \ Oldest(files, size))
         /\ Cardinality(files \ Oldest(files, size)) <= size
<1> DEFINE rank(x) == Cardinality({h \in files : Before(x, h)})
           kept == files \ Oldest(files, size)
           r == [x \in kept |-> rank(x)]
<1>0. \A x \in files : rank(x) \in Nat
  BY FS_Subset, FS_CardinalityType DEF UniqueNames
<1>1. \A x \in kept : x \in files /\ rank(x) < size
  <2>1. \A x \in kept : x \in files /\ ~ (rank(x) >= size)
    BY DEF Oldest
  <2> HIDE DEF rank, kept
  <2> QED BY <1>0, <2>1
<1>3. \A x, y \in kept : rank(x) = rank(y) => x = y
  <2> SUFFICES ASSUME NEW x \in kept, NEW y \in kept, x # y PROVE rank(x) # rank(y)
    OBVIOUS
  <2>1. x \in files /\ y \in files
    BY <1>1
  <2>2. Before(x, y) \/ Before(y, x)
    BY <2>1 DEF UniqueNames, Before
  <2>3. Before(x, y) => rank(y) < rank(x)
    BY <2>1, RanksDiffer
  <2>4. Before(y, x) => rank(x) < rank(y)
    BY <2>1, RanksDiffer
  <2>5. rank(x) \in Nat /\ rank(y) \in Nat
    BY <1>0, <2>1
  <2> HIDE DEF rank
  <2> QED BY <2>2, <2>3, <2>4, <2>5
<1> HIDE DEF rank, kept
<1>4. r \in Injection(kept, 0 .. size - 1)
  BY <1>0, <1>1, <1>3 DEF Injection, IsInjective
<1>5. IsFiniteSet(0 .. size - 1) /\ Cardinality(0 .. size - 1) = size
  BY FS_Interval
<1>6. IsFiniteSet(kept) /\ Cardinality(kept) <= size
  BY <1>4, <1>5, FS_Injection
<1> QED BY <1>6 DEF kept

\* A counter that reaches no multiple grows by one over the last one.
LEMMA NextRemainder ==
  ASSUME NEW c \in Nat, NEW d \in Nat \ {0}
  PROVE  /\ c % d \in 0 .. d - 1
         /\ (c + 1) % d # 0 => (c + 1) % d = (c % d) + 1
OBVIOUS

\* The names of the folder are those of a clock and a counter that only go on,
\* and the ring is in its bounds between two pictures.
NamesOK ==
  /\ UniqueNames(folder)
  /\ \A f \in folder : f.time < now \/ (f.time = now /\ f.no < counter)

\* Pictures since the counter was a multiple.
Over(c) == c % (Exceed + 1)

InBounds == Cardinality(folder) <= RingSize + Over(counter)
CountOK ==
  RingSize >= 0 /\ counter > 0 /\ ~ringFailed =>
    /\ outPc \notin {"ring", "ended"} => InBounds
    /\ outPc = "ring" => Due(counter) \/ InBounds

\* What the clock, the counter and the folder do in one step of the system.
LEMMA FolderSteps ==
  ASSUME [Next]_vars
  PROVE  \/ UNCHANGED folderVars /\ now' = now /\ counter' = counter
            /\ (outPc' \in {outPc, "ended"} \/ {outPc, outPc'} \cap {"ring", "ended"} = {})
         \/ folder' = folder /\ now' = now + 1
            /\ ((UNCHANGED <<counter, outPc, ringFailed>>) \/ counter' = 0)
         \/ outPc = "save" /\ outPc' \in {"ring", "ended"} /\ now' = now /\ counter' = counter + 1
            /\ ringFailed' = ringFailed /\ (folder' = folder \/ \E w : folder' = SaveAs(File(w)))
         \/ KeepRing /\ now' = now
<1> USE DEF outputVars, folderVars
<1>1. CASE WriterStep \/ InputStep \/ Interrupt \/ UNCHANGED vars
  BY <1>1 DEF WriterStep, InputStep, Interrupt, vars
<1>2. CASE Tick \/ Restart
  BY <1>2 DEF Tick, Restart
<1>3. CASE OutputStep
  <2>1. now' = now
    BY <1>3 DEF OutputStep, OutWorker
  <2>2. CASE OutTop \/ OutLock \/ OutWait \/ OutRelock \/ OutSize \/ OutCopy
    BY <2>1, <2>2 DEF OutTop, OutLock, OutWait, OutRelock, OutSize, OutCopy, OutGoto
  <2>3. CASE SavePicture \/ OutCancelled
    BY <2>1, <2>3 DEF SavePicture, OutCancelled, OutGoto
  <2> QED BY <1>3, <2>1, <2>2, <2>3 DEF OutputStep, OutWorker
<1> QED BY <1>1, <1>2, <1>3 DEF Next

\* Time and counter together name no file yet: a saved one is one file more.
LEMMA SaveAdds ==
  ASSUME TypeInv, NamesOK, NEW w
  PROVE  /\ SaveAs(File(w)) = folder \cup {File(w)} /\ File(w) \notin folder
         /\ File(w).time = now /\ File(w).no = counter
<1>1. File(w).time = now /\ File(w).no = counter
  BY DEF File
<1>2. \A f \in folder : f.time # now \/ f.no # counter
  BY ConstantsOK DEF NamesOK, UniqueNames, TypeInv, TypeOK, Constants, RecorderAssumption
<1> QED BY <1>1, <1>2 DEF SaveAs

LEMMA NamesHold == Spec => []NamesOK
<1>1. Init => NamesOK
  BY FS_EmptySet DEF Init, OutputInit, NamesOK, UniqueNames
<1>2. TypeInv /\ NamesOK /\ [Next]_vars => NamesOK'
  <2> SUFFICES ASSUME TypeInv, NamesOK, [Next]_vars PROVE NamesOK'
    OBVIOUS
  <2>1. now \in Int /\ counter \in Nat /\ \A f \in folder : f.time \in Int /\ f.no \in Int
    BY ConstantsOK DEF NamesOK, UniqueNames, TypeInv, TypeOK, Constants, RecorderAssumption
  <2>2. CASE folder' = folder /\ now' = now /\ counter' = counter
    BY <2>2 DEF NamesOK, UniqueNames
  <2>3. CASE folder' = folder /\ now' = now + 1
    BY <2>1, <2>3 DEF NamesOK, UniqueNames
  <2>4. CASE now' = now /\ counter' = counter + 1 /\ folder' = folder
    BY <2>1, <2>4 DEF NamesOK, UniqueNames
  <2>5. ASSUME NEW w, now' = now, counter' = counter + 1, folder' = SaveAs(File(w))
        PROVE  NamesOK'
    <3> DEFINE e == File(w)
    <3>1. folder' = folder \cup {e} /\ e.time = now /\ e.no = counter
      BY <2>5, SaveAdds
    <3> HIDE DEF e
    <3>2. IsFiniteSet(folder')
      BY <3>1, FS_AddElement DEF NamesOK, UniqueNames
    <3>3. \A f \in folder' : f.time < now \/ (f.time = now /\ f.no < counter')
      BY <2>1, <2>5, <3>1 DEF NamesOK
    <3>4. \A f \in folder : f.time # now \/ f.no # counter
      BY <2>1 DEF NamesOK
    <3>5. UniqueNames(folder')
      BY <2>1, <3>1, <3>2, <3>4 DEF NamesOK, UniqueNames
    <3> QED BY <2>5, <3>3, <3>5 DEF NamesOK
  <2>6. CASE KeepRing /\ now' = now
    <3>1. folder' \subseteq folder /\ counter' = counter
      BY <2>6, RingTurn DEF KeepRing
    <3>2. IsFiniteSet(folder')
      BY <3>1, FS_Subset DEF NamesOK, UniqueNames
    <3> QED BY <2>6, <3>1, <3>2 DEF NamesOK, UniqueNames
  <2> QED BY <2>2, <2>3, <2>4, <2>5, <2>6, FolderSteps DEF folderVars
<1> QED BY <1>1, <1>2, TypesHold, PTL DEF Spec

\* A picture is saved under a new name: no file gives way to it, also after a
\* restart, when the counter begins again.
THEOREM SavingKeepsFiles == Spec => SavesInNewFiles
<1>1. TypeInv /\ NamesOK /\ [Next]_vars => [outPc = "save" => folder \subseteq folder']_vars
  <2> SUFFICES ASSUME TypeInv, NamesOK, [Next]_vars, outPc = "save" PROVE folder \subseteq folder'
    OBVIOUS
  <2>1. ~ KeepRing
    BY DEF KeepRing, OutGoto
  <2> QED BY <2>1, FolderSteps, SaveAdds DEF folderVars
<1> QED BY <1>1, TypesHold, NamesHold, PTL DEF Spec, SavesInNewFiles

LEMMA OverSteps ==
  ASSUME NEW c \in Nat
  PROVE  /\ Over(c) \in Nat /\ Over(c) <= Exceed
         /\ Due(c + 1) \/ Over(c + 1) = Over(c) + 1
<1> DEFINE d == Exceed + 1
<1>1. Exceed \in Nat /\ d \in Nat \ {0}
  BY ConstantsOK DEF Constants, OutputFileAssumption
<1>2. d - 1 = Exceed
  BY <1>1
<1>3. c % d \in 0 .. d - 1 /\ ((c + 1) % d # 0 => (c + 1) % d = (c % d) + 1)
  <2> HIDE DEF d
  <2> QED BY <1>1, NextRemainder
<1>4. Over(c) = c % d /\ Over(c + 1) = (c + 1) % d
  BY DEF Over
<1>5. (c + 1) % d = 0 => Due(c + 1)
  BY DEF Due
<1> HIDE DEF d
<1> QED BY <1>1, <1>2, <1>3, <1>4, <1>5

LEMMA CountHolds == Spec => []CountOK
<1>0. Exceed \in Nat /\ RingSize \in Int
  BY ConstantsOK DEF Constants, OutputFileAssumption
<1>1. Init => CountOK
  BY DEF Init, OutputInit, CountOK
<1>2. TypeInv /\ NamesOK /\ CountOK /\ [Next]_vars => CountOK'
  <2> SUFFICES ASSUME TypeInv, NamesOK, CountOK, [Next]_vars, RingSize >= 0, counter' > 0, ~ringFailed'
               PROVE  /\ outPc' \notin {"ring", "ended"} => InBounds'
                      /\ outPc' = "ring" => Due(counter') \/ InBounds'
    BY DEF CountOK
  <2>1. /\ counter \in Nat /\ Over(counter) \in Nat
        /\ IsFiniteSet(folder) /\ Cardinality(folder) \in Nat
    <3>1. counter \in Nat /\ IsFiniteSet(folder)
      BY DEF TypeInv, TypeOK, NamesOK, UniqueNames
    <3> QED BY <3>1, FS_CardinalityType, OverSteps
  <2>2. CASE UNCHANGED folderVars /\ counter' = counter
             /\ (outPc' \in {outPc, "ended"} \/ {outPc, outPc'} \cap {"ring", "ended"} = {})
    BY <2>2 DEF CountOK, InBounds, Due, folderVars
  <2>3. CASE /\ outPc = "save" /\ outPc' \in {"ring", "ended"} /\ counter' = counter + 1
             /\ ringFailed' = ringFailed
             /\ folder' = folder \/ \E w : folder' = SaveAs(File(w))
    <3>1. Cardinality(folder') <= Cardinality(folder) + 1
      <4>1. ASSUME NEW w, folder' = SaveAs(File(w))
            PROVE  Cardinality(folder') = Cardinality(folder) + 1
        BY <2>1, <4>1, SaveAdds, FS_AddElement
      <4> QED BY <2>1, <2>3, <4>1
    <3>2. CASE counter = 0
      BY <2>3, <3>2 DEF Due
    <3>3. CASE Due(counter')
      BY <2>3, <3>3
    <3>4. CASE counter # 0 /\ ~ Due(counter')
      <4>1. Over(counter') = Over(counter) + 1
        BY <2>1, <2>3, <3>4, OverSteps
      <4>2. Cardinality(folder) <= RingSize + Over(counter)
        BY <2>1, <2>3, <3>4 DEF CountOK, InBounds
      <4>3. Cardinality(folder') \in Int
        <5>1. IsFiniteSet(folder')
          BY <2>1, <2>3, SaveAdds, FS_AddElement
        <5> QED BY <5>1, FS_CardinalityType
      <4>4. Cardinality(folder') <= RingSize + Over(counter')
        BY <1>0, <2>1, <3>1, <4>1, <4>2, <4>3
      <4> QED BY <4>4 DEF InBounds
    <3> QED BY <3>2, <3>3, <3>4
  <2>4. CASE KeepRing
    <3>1. outPc = "ring" /\ outPc' = "top" /\ counter' = counter
      BY <2>4 DEF KeepRing, OutGoto
    <3>2. CASE Due(counter)
      <4>0. folder' = folder \ Oldest(folder, RingSize)
        BY <2>4, <3>2, RingTurn
      <4>1. IsFiniteSet(folder') /\ Cardinality(folder') <= RingSize
        BY <1>0, <4>0, RingHasItsSize DEF NamesOK
      <4>2. Cardinality(folder') \in Int
        BY <4>1, FS_CardinalityType
      <4> QED BY <1>0, <2>1, <3>1, <4>1, <4>2 DEF InBounds
    <3>3. CASE ~ Due(counter)
      <4>1. UNCHANGED folderVars
        BY <2>4, <3>3, RingTurn
      <4> QED BY <3>1, <3>3, <4>1 DEF CountOK, InBounds, folderVars
    <3> QED BY <3>2, <3>3
  <2> QED BY <2>2, <2>3, <2>4, FolderSteps DEF folderVars
<1> QED BY <1>1, <1>2, TypesHold, NamesHold, PTL DEF Spec

\* Between two pictures the ring holds no more than -s plus -e files, unless its
\* last turn could not list the folder or delete a file.
THEOREM RingStaysBounded == Spec => []RingBounded
<1>1. TypeInv /\ NamesOK /\ CountOK => RingBounded
  <2> SUFFICES ASSUME TypeInv, NamesOK, CountOK, RingSize >= 0, counter > 0,
                      outPc \notin {"ring", "ended"}, ~ringFailed
               PROVE  Cardinality(folder) <= RingSize + Exceed
    BY DEF RingBounded
  <2>1. Cardinality(folder) <= RingSize + Over(counter)
    BY DEF CountOK, InBounds
  <2>2. Exceed \in Nat /\ RingSize \in Int /\ counter \in Nat
    BY ConstantsOK DEF Constants, OutputFileAssumption, TypeInv, TypeOK
  <2>3. Over(counter) \in Nat /\ Over(counter) <= Exceed
    BY <2>2, OverSteps
  <2>4. Cardinality(folder) \in Nat
    BY FS_CardinalityType DEF NamesOK, UniqueNames
  <2> QED BY <2>1, <2>2, <2>3, <2>4
<1> QED BY <1>1, TypesHold, NamesHold, CountHolds, PTL

-----------------------------------------------------------------------------
\* Whoever has the mutex is on the way to the unlock, but for a malloc that
\* fails in the input thread and for a cancellation.
THEOREM MutexIsGivenBack == Spec => []MutexGoesBack
<1>0. Rec # NoOne /\ Rec # Cam /\ Cam # NoOne
  BY ConstantsOK DEF Constants, InputFileAssumption, OutputFileAssumption
<1>1. Init => MutexGoesBack
  BY <1>0 DEF Init, FrameInit, MutexGoesBack
<1>2. MutexGoesBack /\ [Next]_vars => MutexGoesBack'
  <2> SUFFICES ASSUME MutexGoesBack, [Next]_vars PROVE MutexGoesBack'
    OBVIOUS
  <2> USE <1>0 DEF MutexGoesBack, frameVars, Lock, Unlock
  <2>1. CASE WriterStep
    BY <2>1 DEF WriterStep, Writer, BeginWrite, EndWrite, inWorkerVars, outputVars, folderVars
  <2>2. CASE InputStep
    BY <2>2 DEF InputStep, InWorker, InTop, ReadEvents, EventFails, OpenFile, InLock, AllocBuf, CopyFile,
                Publish, RemoveFile, InCleanup, InCancelled, InGoto, outputVars, folderVars
  <2>3. CASE OutputStep
    BY <2>3 DEF OutputStep, OutWorker, OutTop, OutLock, OutWait, OutRelock, OutSize, OutCopy,
                SavePicture, KeepRing, OutCancelled, OutGoto, inputVars, inWorkerVars
  <2>4. CASE Tick \/ Interrupt \/ UNCHANGED vars
    BY <2>4 DEF Tick, Interrupt, vars, inputVars, inWorkerVars, outputVars, folderVars
  <2>5. CASE Restart
    BY <2>5 DEF Restart
  <2> QED BY <2>1, <2>2, <2>3, <2>4, <2>5 DEF Next
<1> QED BY <1>1, <1>2, PTL DEF Spec

-----------------------------------------------------------------------------
(***************************************************************************)
(* The feed.  A publication adds a picture above all earlier ones, and a   *)
(* picture that is saved in full was published after the one before it:    *)
(* the recorder has been woken since.  No other step is seen.              *)
(***************************************************************************)

RecordedOK ==
  /\ recorded \in published \cup {0} /\ pic.size # -1
  /\ Woken /\ bufAlive => recorded < pic.pixels
  /\ outPc = "save" /\ frame.size = frame.pixels =>
       recorded < frame.pixels /\ frame.pixels \in published

\* A picture is saved only by a file written in full: a short one under the
\* same name would be the only one of that name.
LEMMA SavedInFull ==
  ASSUME OutputStep, Saved
  PROVE  frame.size = frame.pixels
<1>1. outPc = "save" /\ outPc' = "ring"
  BY DEF Saved
<1>2. SavePicture
  BY <1>1 DEF OutputStep, OutWorker, OutTop, OutLock, OutWait, OutRelock, OutSize, OutCopy,
              KeepRing, OutCancelled, OutGoto
<1>3. PICK w \in {FALSE, frame.size = frame.pixels} : folder' = SaveAs(File(w))
  BY <1>1, <1>2 DEF SavePicture, OutGoto
<1>4. File(TRUE).time = now /\ File(TRUE).no = counter
  BY DEF File
<1>5. File(TRUE) \notin {g \in folder : g.time # File(w).time \/ g.no # File(w).no}
  BY <1>4 DEF File
<1>6. File(TRUE) = File(w)
  BY <1>3, <1>5 DEF Saved, SaveAs
<1>7. File(TRUE).whole = TRUE /\ File(w).whole = w
  BY DEF File
<1> QED BY <1>3, <1>6, <1>7

LEMMA RecordedNext ==
  ASSUME TypeInv, FilesInv, FilesInv', MutexOK, RecorderInv, RecordedOK, [Next]_vars
  PROVE  RecordedOK'
<1> USE DEF RecordedOK, Woken
<1>0. /\ recorded \in Int /\ (recorded = 0 \/ recorded \in published)
      /\ \A m \in published : m \in Int /\ m >= 1
  BY Pictures DEF TypeInv, TypeOK
<1>1. CASE WriterStep \/ Tick \/ Interrupt \/ UNCHANGED vars
  BY <1>1 DEF WriterStep, Writer, BeginWrite, EndWrite, Tick, Interrupt, vars, frameVars, inputVars,
              outputVars, folderVars, inWorkerVars
<1>2. CASE Restart
  BY <1>2 DEF Restart, NoPicture
<1>3. CASE InputStep
  <2>0. UNCHANGED <<recorded, outPc, frame>>
    BY <1>3 DEF InputStep, outputVars, folderVars
  <2>1. CASE CopyFile
    <3>1. /\ inPc = "copy" /\ outPc \notin {"size", "copy"} /\ UNCHANGED <<published, waiting>>
          /\ inPc' \in {"publish", "cleanup"} /\ (inPc' = "cleanup" => ~bufAlive')
      BY <2>1, ConstantsOK DEF CopyFile, InGoto, MutexOK, Constants, OutputFileAssumption
    <3>2. ASSUME inPc' = "publish" PROVE recorded < pic'.pixels
      <4>1. cur' = cur /\ cur \in Names /\ pic'.pixels = cur /\ \A m \in published : m < cur
        BY <2>1, <3>1, <3>2 DEF CopyFile, TypeInv, Busy, FilesInv, CurOK
      <4>2. cur \in Nat /\ cur # 0
        BY <4>1, Numbers
      <4> QED BY <1>0, <4>1, <4>2
    <3>3. pic'.size # -1
      <4>1. CASE inPc' = "publish"
        <5>1. cur' = cur /\ cur \in Names /\ pic'.size = cur'
          BY <2>1, <3>1, <4>1 DEF CopyFile, TypeInv, Busy, FilesInv, CurOK
        <5> QED BY <5>1, Numbers
      <4>2. CASE inPc' = "cleanup"
        BY <2>1, <4>2 DEF CopyFile, InGoto, NoPicture
      <4> QED BY <3>1, <4>1, <4>2
    <3> QED BY <2>0, <3>1, <3>2, <3>3
  <2>2. CASE Publish
    <3>1. /\ inPc = "publish" /\ published' = published \cup {pic.pixels}
          /\ UNCHANGED <<pic, bufAlive>>
      BY <2>2 DEF Publish, InGoto
    <3>2. cur \in Names /\ pic.pixels = cur /\ \A m \in published : m < cur
      BY <3>1 DEF TypeInv, Busy, FilesInv, CurOK
    <3>3. cur \in Nat /\ cur # 0
      BY <3>2, Numbers
    <3>4. recorded < pic.pixels
      BY <1>0, <3>2, <3>3
    <3> QED BY <2>0, <3>1, <3>4
  <2>3. CASE AllocBuf \/ InCleanup
    <3>1. UNCHANGED <<pic, published, waiting>> /\ (bufAlive' => bufAlive)
      BY <2>3 DEF AllocBuf, InCleanup, InGoto, RecorderInv, ShotOK
    <3> QED BY <2>0, <3>1
  <2>4. CASE InTop \/ ReadEvents \/ EventFails \/ OpenFile \/ InLock \/ RemoveFile \/ InCancelled
    <3>1. UNCHANGED <<pic, bufAlive, published, waiting>>
      BY <2>4 DEF InTop, ReadEvents, EventFails, OpenFile, InLock, RemoveFile, InCancelled, frameVars
    <3> QED BY <2>0, <3>1
  <2> QED BY <1>3, <2>1, <2>2, <2>3, <2>4 DEF InputStep, InWorker
<1>4. CASE OutputStep
  <2>0. UNCHANGED <<pic, bufAlive, published, inPc>>
    BY <1>4, OutputLeaves DEF OutputStep, inputVars, inWorkerVars
  <2>1. CASE Saved
    <3>1. recorded' = frame.pixels /\ outPc' = "ring" /\ frame.pixels \in published
      BY <1>4, <2>1, SavedInFull DEF OutputStep, Saved
    <3> QED BY <2>0, <3>1
  <2>2. CASE ~ Saved
    <3>0. recorded' = recorded
      BY <1>4, <2>2 DEF OutputStep
    <3> USE DEF OutGoto
    <3>1. CASE OutRelock
      <4>1. Rec \notin waiting /\ outPc = "woken" /\ outPc' = "size"
        BY <3>1 DEF OutRelock
      <4> QED BY <2>0, <3>0, <4>1
    <3>2. CASE OutSize
      <4>1. outPc = "size" /\ outPc' \in {"copy", "ended"}
        BY <3>2 DEF OutSize
      <4> QED BY <2>0, <3>0, <4>1
    <3>3. CASE OutCopy
      <4>1. /\ outPc = "copy" /\ outPc' = "save" /\ frame'.size = frame.size
            /\ frame'.pixels = IF bufAlive THEN pic.pixels ELSE -1
        BY <3>3 DEF OutCopy, TypeInv, TypeOK, Picture
      <4>2. inPc # "publish" /\ frame.size = pic.size
        BY <4>1, ConstantsOK DEF RecorderInv, ShotOK, MutexOK, Constants, OutputFileAssumption
      <4>3. CASE bufAlive
        <5>1. pic.pixels # 0 /\ pic.pixels \in published
          BY <4>1, <4>2, <4>3 DEF RecorderInv, ShotOK
        <5> QED BY <2>0, <3>0, <4>1, <4>3, <5>1
      <4>4. CASE ~ bufAlive
        <5>1. frame'.size # frame'.pixels
          BY <4>1, <4>2, <4>4
        <5> QED BY <2>0, <3>0, <4>1, <4>4, <5>1
      <4> QED BY <4>3, <4>4
    <3>4. CASE SavePicture \/ KeepRing \/ OutCancelled \/ OutTop \/ OutLock \/ OutWait
      <4>1. /\ outPc' \in {"ring", "ended", "top", "lock", "wait", "woken"}
            /\ outPc' = "woken" => Rec \in waiting'
        BY <3>4 DEF SavePicture, KeepRing, OutCancelled, OutTop, OutLock, OutWait
      <4> QED BY <2>0, <3>0, <4>1
    <3> QED BY <1>4, <3>1, <3>2, <3>3, <3>4 DEF OutputStep, OutWorker
  <2> QED BY <2>1, <2>2
<1> QED BY <1>1, <1>2, <1>3, <1>4 DEF Next

LEMMA RecordedHolds == Spec => [](~Reuses => RecordedOK)
<1>1. Init => RecordedOK
  BY DEF Init, FrameInit, OutputInit, RecordedOK, Woken, NoPicture
<1>2. /\ TypeInv /\ (~Reuses => FilesInv) /\ (~Reuses => FilesInv)' /\ MutexOK
      /\ (~Reuses => RecorderInv) /\ (~Reuses => RecordedOK) /\ [Next]_vars
      => (~Reuses => RecordedOK)'
  BY RecordedNext
<1> QED BY <1>1, <1>2, TypesHold, FilesHold, MutexHolds, ShotsHold, PTL DEF Spec

\* Step by step: only a publication and a picture saved in full are seen.
LEMMA StepsFeed ==
  ASSUME TypeInv, FilesInv, MutexOK, RecorderInv, RecordedOK, [Next]_vars
  PROVE  [Feed!Next]_<<published, [r \in {Rec} |-> recorded]>>
<1> DEFINE shown == [r \in {Rec} |-> recorded]
<1>1. CASE Publish /\ InputStep
  <2>1. /\ inPc = "publish" /\ published' = published \cup {pic.pixels} /\ recorded' = recorded
    BY <1>1 DEF InputStep, Publish, InGoto
  <2>2. cur \in Names /\ pic.pixels = cur /\ cur <= written /\ \A m \in published : m < cur
    BY <2>1 DEF TypeInv, Busy, FilesInv, CurOK
  <2>3. cur \in 1..MaxWrites
    BY <2>2, Numbers, ConstantsOK DEF TypeInv, TypeOK, Constants, InputFileAssumption
  <2>4. Feed!Publish
    BY <2>1, <2>2, <2>3 DEF Feed!Publish
  <2> QED BY <2>4 DEF Feed!Next
<1>2. CASE OutputStep /\ Saved
  <2>1. /\ recorded' = frame.pixels /\ recorded < frame.pixels /\ frame.pixels \in published
        /\ published' = published
    BY <1>2, SavedInFull DEF OutputStep, Saved, RecordedOK, inputVars
  <2>2. shown' = [shown EXCEPT ![Rec] = frame.pixels] /\ frame.pixels > shown[Rec]
    BY <2>1, Pictures DEF TypeInv, TypeOK
  <2>3. Feed!Show(Rec)
    BY <2>1, <2>2 DEF Feed!Show
  <2> QED BY <2>3 DEF Feed!Next
<1>3. CASE UNCHANGED <<published, recorded>>
  BY <1>3
<1>4. \/ Publish /\ InputStep
      \/ OutputStep /\ Saved
      \/ UNCHANGED <<published, recorded>>
  <2>1. WriterStep \/ Tick \/ Interrupt \/ Restart \/ UNCHANGED vars
        => UNCHANGED <<published, recorded>>
    BY DEF WriterStep, Writer, BeginWrite, EndWrite, Tick, Interrupt, Restart, vars, inputVars
  <2>2. InputStep /\ ~ Publish => UNCHANGED <<published, recorded>>
    BY DEF InputStep, InWorker, InTop, ReadEvents, EventFails, OpenFile, InLock, AllocBuf, CopyFile, RemoveFile,
           InCleanup, InCancelled
  <2>3. OutputStep /\ ~ Saved => UNCHANGED <<published, recorded>>
    BY DEF OutputStep, inputVars
  <2> QED BY <2>1, <2>2, <2>3 DEF Next
<1> QED BY <1>1, <1>2, <1>3, <1>4

\* Recorder implements the feed, over all restarts: each picture recorded is
\* a published one and newer than the one recorded before it.
THEOREM RecorderIsFeed ==
  ASSUME ~Reuses
  PROVE  Spec => FeedSpec
<1>1. Init => Feed!Init
  BY DEF Init, InputInit, Feed!Init
<1>2. /\ TypeInv /\ (~Reuses => FilesInv) /\ MutexOK /\ (~Reuses => RecorderInv)
      /\ (~Reuses => RecordedOK) /\ [Next]_vars
      => [Feed!Next]_<<published, [r \in {Rec} |-> recorded]>>
  BY StepsFeed
<1> QED BY <1>1, <1>2, TypesHold, FilesHold, MutexHolds, ShotsHold, RecordedHolds, PTL
        DEF Spec, FeedSpec, Feed!Spec, Feed!feedVars
=============================================================================
