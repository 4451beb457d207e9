# Verification of Pets_Keeper_Project

TLA+ models of the home control system in this repository, the TLC runs that
check them on small instances, and theorems about them proved with TLAPS for
every value of the constants.

## 1. The system

A Cortex-A8 board stands at home with a camera, motors and a fan. People command
it with phones, and look at the camera through it.

| component | code | keeps | operations | talks to |
|---|---|---|---|---|
| control file | `webcam_server/control.txt` | one section (keyword, value) per mode | read, copied, overwritten as a whole | phones (HTTP, FTP), operator (editor), board (NFS) |
| daemon | `webcam_server/webcam_server.c`, `pkill.sh` | `cur_ctrl`, `last_ctrl`, its copy of the file, the mount | copy, sleep, remount, parse, one operation per changed value | file, motor pins (sysfs), streamer (`start.sh`, `pkill.sh`) |
| phone application | `webcam_client/.../Webcam.java`, `MainActivity.java` | one cached value per button | start, update, three toggles; download, parse, write, upload | file |
| streamer core | `mjpg-streamer/mjpg_streamer.c` | `globals`: picture, mutex, condition variable, `stop` | start plugins, `signal_handler` | plugins |
| camera plugin | `plugins/input_uvc` | device, driver buffers, `vd->buf`, `tmpbuffer`, `streamingState` | `cam_thread`, `uvcGrab`, `setResolution`, `cam_cleanup` | driver, frame buffer |
| HTTP plugin | `plugins/output_http` | a thread and a copy of a picture per client | accept, `send_stream`, `send_snapshot`, commands | frame buffer, camera plugin, clients |
| folder reader | `plugins/input_file` | inotify descriptor and queue, the file being read | `worker_thread`, `worker_cleanup`, `input_stop` | a program that writes files, frame buffer |
| recorder | `plugins/output_file` | its copy of the picture, `counter`, a folder of pictures | `worker_thread`, `maintain_ringbuffer`, `output_stop` | frame buffer, folder |
| other plugins | `plugins/output_udp`, `output_rtsp`, `output_autofocus`, `output_viewer`, `input_testpicture`, ... | a copy of the picture | the same protocol on the frame buffer | not loaded by `start.sh` |
| rendezvous server | `pets-socket/p2p-server.py` | `user_list`: who logged in, from which address | login, getalluser, alive; keepconnect to each entry in turn | robot and phones, over UDP |
| robot | `pets-socket/p2p-client-robot.py` | dictionary of users, shared by two threads | login, getalluser until the mobile user is listed, then echo to it for ever | server, phone, over UDP |
| UDP phone application | `Android/webcam` | socket, one `UserName`, a `SocketThread` per press | `setupSocket`, `registerClient`, `SocketThread.run` | server, robot, over UDP |
| yeelink uploader | `yeelink/yeelink.sh` | photos on disk | shoot, upload newest, remove oldest | `luvcview` |

What is hard in it, and what makes each part correct:

* **Daemon and phones** share one file with no lock. Uploads are seen half done,
  downloads end early or are garbled, phones keep old caches, copies and mounts
  fail and nobody looks at the result, the daemon may be restarted and forgets.
  Correct is: the camera does only what somebody chose for it, and no other value
  is invented but by a garbled download; the pins show what the daemon remembers;
  and in the end the board does what the file says.
* **Streamer** is a monitor with many clients around a camera thread, a device
  with few buffers, an unlocked resolution change and an abrupt shutdown.
  Correct is: mutual exclusion, whole pictures, fresh pictures in order, no lost
  wakeup, no driver buffer lost but to an empty frame.
* **Folder reader and recorder** have two folders that outlive the process and
  are named, not locked: a file is deleted by its name, the oldest files are
  known by their names, a start begins to count at 0, and any call on them may
  fail. Correct is: nothing is deleted that was not shown or is among the newest,
  what is saved is a picture somebody wrote, the ring keeps to its size while its
  files can be deleted, and the reader goes on.
* **Rendezvous** is a protocol over datagrams that are lost, repeated and
  overtaken, with an address table that only grows, and in the robot and in the
  phone a record shared by threads without a lock. Correct is: an address used
  is one its user announced, the robot fails at most where its two threads meet at
  one entry, and it finds the phone.

`PROJECT.json` lists the hazards line by line.

## 2. The modules

```
ControlFile --+-- WebcamServer --+
              +-- PhoneApp ------+-- ControlSystem -- MCControlSystem
                                          \---------- ControlSystem_proofs

FrameBuffer --+-- InputUvc ------+
              +-- OutputHttp ----+-- MjpgStreamer -- MCMjpgStreamer
              |    FrameFeed ----/        \--------- MjpgStreamer_proofs -- Pictures_proofs
              |        |
              |        +---------+
              +-- InputFile -----+
              +-- OutputFile ----+-- Recorder -- MCRecorder
                                          \----- Recorder_proofs

Datagrams ----+-- P2pServer -----+
              +-- P2pRobot ------+-- Rendezvous -- MCRendezvous
              +-- UdpPhone ------+        \------- Rendezvous_proofs
```

### The command path

* **ControlFile**: a file is the sequence of its sections; `NoVal` is the value
  line missing in a file cut right after a keyword, `Cuts(f)` everything an
  interrupted transfer may leave of `f`. A cut inside a keyword line leaves
  nothing a reader recognises, so it is a cut between sections. `remote` is the
  published file. `asked` is a history variable: what people chose, per mode;
  `stray` is another: values that only a garbled download put under a mode.
  `Given(m)` is both.
* **WebcamServer**: one action per step of the main loop. `pc` is `download`,
  `sleep`, `load` (remount and open), `parse` (one section per step), then one
  position per comparison of `compare_update`, and `pins` while the four
  `echo` commands of `car_operation` run one by one. `Assign` is the switch of
  `load_config_data` with its missing `break`. `ParseFails` is its early return,
  which leaves the file open. A failed `cp` keeps the old copy. On a host that is
  gone `cp` blocks on a mount that is still there. The daemon may start beside an
  older copy (`OldCopies`; the repository ships one in its directory). `Restart`, `Boot` (start.sh
  reaches the streamer), `StreamerDies`, `HostDown` and `HostBack` are the
  surroundings.
* **PhoneApp**: one action per handler of `MainActivity`, which runs on the
  phone's user interface thread. A toggle stores the value, writes the local
  file and starts the upload; the upload is three steps because the daemon can
  copy the file in between: `FtpConnect` (the server empties the file, or refuses
  the store), `StorePart`, `StoreFile`. `Ends` is an exception that no handler
  catches. The 256-byte buffer of the download is written whole even when a read
  was short (`Webcam.java:257`), so bytes of earlier reads follow the new ones.
  `Mixtures(f, i)` is what parseInt may then find under the keyword of section i:
  its own value, that of an earlier section, or its own digits with an earlier
  value's behind them. Only earlier sections count, because what is stale in the
  buffer came before what was just read. `GarbledReads` lets each switch take any
  of these independently, or keep the value it had. This is what the first
  section, the camera's, escapes, and no other.
* **ControlSystem**: both around the published file, and the operator who edits
  it. No program writes a car section, only a person does.

### The streamer

* **FrameBuffer**: what one input plugin shares with all outputs. A picture is
  known by the number of the grab it came from, separately for its content, its
  length and its timestamp, so that mixtures can be seen. The number -1 is
  content read from freed or unfinished memory.
* **InputUvc**: `cam_thread` with `uvcGrab` from system call to system call, the
  driver's queue of `NB_BUFFER` buffers, and `setResolution` step by step as a
  thread of its own, because a client thread calls it with no lock. A frame is
  `ok`, `torn` (no start-of-frame marker: `memcpy_picture` returns 0 and leaves
  the old picture), `small` (dropped with `-m`) or `empty` (its buffer is not
  queued again; `ignored`, a history variable, counts those). `len` is what
  `memcpy_picture` returned, which becomes the size of the shared picture. When
  `init_v4l2` fails the device may be closed, or `bare`: open, with some of its
  buffers queued and the stream off.
* **OutputHttp**: a client is a stream or a snapshot. The two functions have the
  same steps; a snapshot does them once.
* **FrameFeed**: the abstract promise: pictures are published in the order they
  were taken, and what a client is shown was published and is newer than what it
  saw before. Both compositions around the frame buffer implement it.
* **MjpgStreamer**: all threads, plus `signal_handler`, whose sleeps wait for
  nobody. It implements FrameFeed with `shown[r] = sent[r].pixels`.

### The recorder

* **InputFile**: `BeginWrite` and `EndWrite` are the program that puts pictures
  into the folder (external; it writes in place, one file at a time) and
  inotify, which merges two equal events in a row. `worker_thread` is one action
  per system call: `ReadEvents` takes every queued event and keeps the first
  (line 233), `EventFails` is a break before the copy (a failed read, open or
  fstat, or the end of the watch), `OpenFile` is open and fstat, `InLock`, `AllocBuf` is free and
  malloc of the shared buffer (a failure leaves with the mutex held), `CopyFile`
  the read, `Publish` broadcast and unlock, `RemoveFile` the unlink by name, which
  may fail. `failed` is a history variable: memory or a call has failed.
  `InCancelled` is the pending cancellation at a system call, `InCleanup` frees
  the buffer without the mutex.
* **OutputFile**: `worker_thread` from lock to ring: the length and the content
  are copied in two steps because the buffer may be freed in between; `SavePicture`
  is open, write and close with their failures, a short write among them; `KeepRing` calls
  `MaintainRingbuffer` when `Due(counter)`. A file is named by the second and the
  counter, and `Before` is the order alphasort gives these names. `Oldest` is what
  the ring deletes; when scandir fails nothing of it goes, and when unlink fails
  for some the others go all the same. `ringFailed` is a history variable: the
  ring's last turn left a file it was to delete.
* **Recorder**: both around one frame buffer, with the clock, an interrupt, and
  `Restart`: the process ends anywhere and comes back a second or more later
  with its counter at 0, inotify's queue gone and both folders as they were.
  `recorded` is a history variable: the picture last saved in full (`Saved`). With
  it the composition implements FrameFeed for one client, across restarts.

### The rendezvous

* **Datagrams**: the network is a set of datagrams. `Send` lets each one get
  under way or be lost; `Exchange` is a `recvfrom` with the answers it causes and
  may leave the datagram to come again. Order is not kept. A datagram is its type
  and the user and address its reader picks out of it. `logged` is a history
  variable: who announced itself, and from which address.
* **P2pServer**: one handler per type of datagram and one turn of the
  keepconnect loop. Only the handler thread changes `user_list`, and only by
  appending, so a datagram and its answers are one step.
* **P2pRobot**: the main thread line by line where it touches the dictionary
  (`ListUsers`, `Scan`, `ScanOver`, `ConnectIp`, `ConnectPort`), the receiver
  thread key by key (`RobotReceive` empties an entry, `RobotStore` sets the next
  of its four keys). A missing key or a dictionary that grew under the loop ends
  the program (`Scan`, `ScanBroken`).
* **UdpPhone**: the user interface thread (`SetupSocket`, `RegisterClient`,
  `RegisterPort`, `RestartApp`) and a `SocketThread` per press of the button,
  which writes the one `UserName` field by field (`SetParam`). After it answered
  keepconnect a thread receives into the ten bytes of its answer and does not
  survive the next datagram (`Take`, `TakeShort`).
* **Rendezvous**: the three of them; no step is shared, they meet in the network.

### Abstractions

* Values, pictures, addresses and names are small sets; formatting and logging
  are left out.
* The file phones download and upload over the web and the file the board copies
  over NFS are taken as one, as in the commented `wget` line of
  `download_config_file`.
* An empty copy and a missing one are the same: nothing is parsed.
* A write to a pin does not fail.
* Multi-digit values cut in the middle are not distinguished; the phones write
  single digits. In a garbled download a value joins another only once, and only
  if it has one digit.
* The camera delivers MJPEG, the default; `fps` is at least 5. The limit of `-m`
  is larger than `HEADERFRAME1`, so that an empty frame is below it too.
* Pictures have no sizes in bytes: that `setResolution` allocates neither
  `tmpbuffer` nor the shared buffer anew, so that a larger picture does not fit,
  cannot be seen in the model.
* The clock of the recorder is not set back, and a restart comes in a later
  second (`Recorder.Restart`). Names are local time (`output_file.c:242`), which
  does go back once a year and on a board that sets its clock after booting; a
  file may then be overwritten (`O_TRUNC`) or sorted before older ones.
* `pkill.sh` kills what `ps` lists as mjpg_streamer; that its pattern may match
  the script's own process is not modelled.
* An overflow of inotify's queue carries another watch's number, which
  `input_file.c:239` skips; it takes more events than the model's writer produces.
* The recorder's waits do not return by themselves (in the streamer they may).
* A receiver at an address gets what is sent there and nothing else: filtering
  routers and forged addresses are outside the model. The private address in an
  entry is stored by the robot and used by nobody: it is only counted as a key.

## 3. The runs

Every bound is a constant. On the command path: `MaxEdits` (decisions of
people), `MaxShort` (downloads garbled by short reads), `MaxFaults` (restarts of the daemon, deaths of the streamer),
`MaxOutages`, `MaxOpen` (descriptors; 0 means the limit is never reached). In the
streamer: `MaxFrames`, `MaxResizes`. In the recorder: `MaxNames`, `MaxWrites`
(pictures the writer produces), `MaxTime` (seconds), `MaxRestarts`. In the
rendezvous: `MaxNet` (datagrams under way; a full network loses), `MaxEntries`
(logins the server takes), `MaxSetups` (presses of the button per start),
`MaxRestarts` (starts of the phone application). `Deaf` names addresses that
hear nothing: a run about one half of the rendezvous silences the other, which
a network that may lose every datagram allows.

| run | instance | shows |
|---|---|---|
| ControlPhones | one phone and the operator, two decisions, one garbled download | TypeOK, Commanded |
| ControlBoard | an old copy or none, operator with five settings, three edits, one fault, one outage, fair | RoundSettled, StoppedWhenStopped, PinsSweep, Converges |
| ControlFair | one phone and the operator, two decisions, fair | StreamerShown, StreamerFollows |
| StreamSafety | stream, snapshot, `-m`, small and empty frames, two resolution changes, three frames | TypeOK, WholePictures, FreshPictures, BuffersConserved, FeedSpec (implements FrameFeed) |
| StreamStop | without `-m`, torn and small frames, one resolution change, interrupts, spurious wakeups, two frames | MutualExclusion, MutexGoesBack, WholePictures |
| StreamFair | two streams, small and empty frames, three frames, fair | WaitersServed, CameraGoesOn |
| RendezvousRobot | the phone logs in from two addresses, one restart, loss and overtaking | TypeOK, RobotCallsMobile, RobotEndsInTheRace |
| RendezvousPhone | two presses of the button, the fan button, duplicates as well | PhoneHoldsAnnounced |
| RendezvousFair | one login of the phone, fair | RobotFindsMobile |
| Recorder | three pictures under three names, `-r`, a ring of one that may hold two, failures, interrupt, one restart, fair | TypeOK, SavedWhole, RingBounded, RemovedWasShown, InputGoesOnFresh, MutexGoesBack, KeepsNewest, SavesInNewFiles, FeedSpec (implements FrameFeed), HeadIsShown |
| ControlFeed (violation) | one phone, one press | FeedDoesNotDrive fails: feeding drives the car |
| RecorderReuse (violation) | one name written again and again, `-r` | InputGoesOn fails: the reader deletes a picture it has not read, and ends |

Why the bounds are enough for the interesting cases.

* *Command path.* With two decisions the operator can overtake the cache of a
  phone, whose press then puts the old values back, and the daemon can copy an
  upload half stored. One garbled download gives every mixture its sections
  allow, and a press after it publishes them. (Two phones with garbled downloads
  are more than TLC can visit in reasonable time; `CommandsAreChosen` is proved
  for any number of phones.) Three edits give a motion, another motion that differs in each pin,
  and a stop, with a code `car_operation` rejects among the choices; a restart
  can fall between two pin writes.
* *Streamer.* Two driver buffers are the smallest number for which a buffer can
  be lost while another still circulates (the code has `NB_BUFFER` 4). Three
  frames let a client miss one and get the next, and let the camera lose both
  buffers to empty frames. Two resolution changes let the second find the camera
  thread where the first has left it. One stream and one snapshot are
  two waiters for one broadcast.
* *Recorder.* Three pictures fill a ring of one that may hold two, overflow it,
  and can be divided before and after the restart, so that a full ring of the
  last start meets a counter of 0. A failed unlink leaves the older of two files
  in the ring for a later turn. Two pictures saved in one second need the
  counter in their names, two starts the second. While the reader is busy with one file two
  more can queue, so that events are thrown away. One restart uses up the one
  second of `MaxTime`; more restarts repeat this.
* *Rendezvous.* Three entries hold the robot and two logins of the phone from
  different addresses, the least for an address that mixes two. Two datagrams
  under way can overtake each other and two answers can be stored one over the
  other. Two `SocketThread`s write one `UserName`. In RendezvousFair the network
  holds every datagram there can be: nothing is lost for want of room.

Deadlock is not checked where the modelled world really ends: the daemon's loop
blocks in `cp` on a host that is gone until it is back, the bounded camera and
the bounded writer of files fall silent, the streamer may exit. It is checked in
the rendezvous, where the robot asks and the server calls for ever.

### Fairness

* The daemon is a sequential loop that no file content and no device blocks, so
  its steps are weakly fair; so are `Boot` (a script that reaches its last line)
  and `HostBack` (an outage ends). Uploads, people and faults are not fair:
  `Quiet` says they are over, as `Converges` and `StreamerFollows` need.
* `StreamerFollows` is stated for a daemon that was never restarted and a
  streamer that never died (`faults = 0`), and checked with start.sh done
  before the next round (`SleepCoversBoot`): otherwise the code does not keep it.
* Every runnable thread of the streamer is weakly fair. Weak fairness of taking
  the mutex does not promise that a client gets it against others that come
  back; `WaitersServed` holds because a client waits for the next broadcast
  before it takes the mutex again, and the bounded camera ends its own turn.
  The driver delivers while it has buffers. Requests, signals and resolution
  changes are not fair.
* Both worker threads of the recorder are weakly fair, the reader in the steps
  in which nothing fails: a read that blocks need not fail some day. The writer,
  the clock, interrupts, failures and restarts are not fair. `HeadIsShown` is stated of the last start:
  one that is cut short shows nothing.
* In the rendezvous the threads of server and robot are weakly fair. A datagram
  that is sent again and again gets through sometime: strong fairness of the
  robot's request reaching the network, of the server's answer reaching it, and
  of the robot taking it. The phone's datagrams are sent once, so nothing is
  assumed of them: `RobotFindsMobile` starts when the server has the login.

## 4. The proofs

Each proof module holds for every value of the constants: any number of phones,
clients, buffers, addresses, files or restarts, and any bounds. Assumptions are
the named ASSUMEs of the modules and what a theorem states for itself.

`ControlSystem_proofs` (from `NoValAssumption`, `DaemonAssumption`,
`PhoneAssumption`, `OperatorAssumption` only):

* **Typing**, **CommandsAreChosen**: the inductive invariant is
  `Inv == TypeOK /\ KnownMotion /\ OpenFile /\ Chosen /\ Unspoiled`. `Commanded`
  speaks of `last_ctrl` alone, but a value reaches it through the published file,
  the copy, the unread rest, the caches of the phones and `cur_ctrl`: `Chosen`
  says for each of them that its values have an origin (`Given`) under the mode
  they stand for. `Unspoiled` says that every published file has the camera's
  section in front, so that a garbled download finds nothing else to read for it:
  what the camera does was chosen for the camera.
  `KnownMotion` says that while pins are written the code is one of the seven,
  which `CarPins` needs, and `OpenFile` that a round only parses while a
  descriptor is left, which bounds `leaked`. Cuts of a file of chosen values have
  chosen values (`CutsAreFiles`), and what was chosen stays chosen.
* **RoundsSettle**, **StopsAreShown**, **PinsAreSwept**: `MotionInv` adds
  `Settled` (which comparisons of a round are behind, position by position) and
  `PinsShown` (what the pins show at rest). The three properties need each
  other: the sweep starts from pins at rest, and rest is what a sweep ends in.
* **StreamerIsShown**: a stop that meets a start under way is lost, so
  `StreamerShown` has to say that none does. Only one place of the loop can send
  a stop; `NoStartUnderWay` carries the end of the sleep, at which start.sh is
  done, over remounting and parsing to that place.

`MjpgStreamer_proofs`:

* **Typing**: `TypeInv` adds that the shared picture's content is a frame number,
  which `published` needs.
* **Exclusion**: `MutualExclusion` with the types is inductive, one step per
  action: whoever enters the section takes the mutex, whoever is inside is its
  holder, and an unlock is only done from inside.
* **MutexIsGivenBack**: the other direction, that the holder is inside. Nobody
  leaves the section but by its unlock, the client without memory included; the
  camera thread looks at `stop` and is cancelled outside only.

`Pictures_proofs` rests on the types and the exclusion. A theorem names what
the camera and the world are assumed to do, because without it the code does not
keep the property (section 5):

* **Conservation** (no assumption): the queue, the free buffers, the one in the
  thread's hands and those lost to empty frames (`ignored`) add up to
  `NB_BUFFER`. The property ends at the first resolution change; `SettersIdle`
  says that until then no setter is under way.
* **Wholeness** (`EmptiesDropped`: no empty frames, or `-m`; any number of
  resolution changes, spurious wakeups allowed): `WholeInv` follows a picture from
  `tmpbuffer` through the shared one (`GrabWhole`, by the position of the camera
  thread) into each client's copy (`CopiesWhole`, by the position of the client),
  and the timestamp, which only an unchanged resolution keeps to it (`GrabStamp`,
  `CopiesStamp`). A reader inside its section knows from `MutualExclusion` that
  the camera is not.
* **Freshness** (as Wholeness, no spurious wakeups): a client's copy is older
  than everything still to come. `OrderOK` orders the driver's queue and puts it
  behind the grab, `GrabFresh` the grab behind the shared picture, `ClientsFresh`
  the shared picture behind the client, whether it waits, woke or copies. A
  resolution change under the grab resets `vd->buf`; the copy that follows then
  has no byte and its size says so, whatever number of changes there are.
* **Refinement** (`Undisturbed`: also no interrupt): every step is a step of
  FrameFeed or a stutter. `CamPublish` maps to the abstract publication, the
  send of a client to the showing; `PublishedOK` says that what clients hold was
  published.

`Rendezvous_proofs`, with any loss, duplication and reordering:

* The invariant is about where an address comes from:
  `Inv == TypeOK /\ NetTruthful /\ ListAnnounced /\ BookOK /\ CalleeOK /\ PhoneOK`.
  Every datagram under way, every entry of the server, every entry of the
  robot's dictionary down to the key it has got to, the address the robot holds
  and each field of the phone's `UserName` goes back to a login in `logged`,
  which only grows. **Typing**, **CalleeIsMobile** and **PhoneIsTold** are parts
  of it.
* **RobotFailsInRace**: from `BookOK`, by which an entry is incomplete only while
  the receiver is at it. A lookup that fails in the loop therefore concerns the
  entry being written, and the two lookups after the loop, whose entry the loop
  had found, fail only while the mobile user's entry is written anew.

`Recorder_proofs`:

* **ShownBeforeRemoved**, **InputIsNotEnded** (both say `~Reuses` themselves):
  `FilesInv` relates folder, inotify's queue and the file in the thread's hands:
  a queued name is complete, there, and not the one being read; a name is gone
  only after it was published.
* **SavesWholePictures**: from the mutex (`MutexOK`) and `ShotOK`, which follows
  the published picture into the recorder's copy.
* **RingIsTheNewest**: `FolderOK` says that names and pictures are in the same
  order, which a restart keeps because it comes in a later second, and that all
  of them are behind the picture in hand. `RingTurn` says that a turn of the ring
  only takes files of `Oldest`, whichever calls fail, and `RingDeletes` that
  nothing else takes any. `RingKeepsLast` shows by cardinality that the names
  outside `Oldest` come behind those in it; a turn that failed nowhere
  (`~ringFailed`) keeps only those.
* **SavingKeepsFiles**, **RingStaysBounded** (no condition on the writer):
  `NamesOK` says that names are unique and lie behind the present second and
  counter, so a saved picture is one file more. `RingHasItsSize` maps each file
  that stays to its rank, the number of names behind it: ranks differ
  (`RanksDiffer`) and are below `size`, so the files are no more than `size`.
  `CountOK` adds up the pictures saved since the folder was last looked at
  (`Over`), which the first picture of a start and each multiple of `-e` plus 1
  put back to none, if the turn deletes what it should.
* **MutexIsGivenBack**: inductive as it stands, with its two exceptions: a
  malloc that fails in the input thread and a cancellation.
* **RecorderIsFeed** (`~Reuses`): only `Publish` and a picture saved in full are
  seen. `RecordedOK` says that from its wakeup to the file the recorder has a
  picture in hand that is newer than the one it recorded last, because it waits
  for a broadcast in between; what it copies from freed memory passes for no
  picture. A restart loses the hand, not the order.

Every safety property, action property and refinement of the passing runs is
proved. Model-checked only are the liveness properties `Converges`,
`StreamerFollows`, `WaitersServed`, `CameraGoesOn`, `RobotFindsMobile` and
`HeadIsShown`: liveness under fairness rests on ENABLED, which is beyond the
prover. The two violations are found by TLC.

## 5. What the code does that its text does not say

The two findings:

* A feed value is stored as the car's value (`webcam_server.c:202`). With the
  file a phone writes, switching feeding on makes the car go forward.
* `input_file -r` deletes by name what may have been written since it was read
  (`input_file.c:306`); the event of the new file then ends the thread for good.
  `start.sh:76-78` writes one name over and over and starts the plugin so.

Behaviour of the code behind the conditions of the properties. Each can be seen
by giving the named run other constants:

* A control file cut after a keyword is never closed (`webcam_server.c:216`):
  `Converges` fails with one phone, two presses and `MaxOpen = 2`.
* `pthread_cond_wait` without a predicate (`httpd.c:380`, `313`): `FreshPictures`
  fails with `SpuriousWakeups = TRUE`.
* The buffer of an empty frame is not queued again (`v4l2uvc.c:442`), although
  the message says no more than "Ignoring empty buffer": after `NB_BUFFER` of them
  the camera thread waits for ever and so do all clients. `BuffersConserved` counts
  these buffers and `CameraGoesOn` ends with the last; neither says that none is
  lost. Without `-m` the empty frame is moreover published with the bytes of the
  frame before: with `Kinds <- WithEmpties` and `MinimumSize = FALSE`,
  `WholePictures` and `FreshPictures` fail.
* A download that arrives in short reads is written with the stale end of the
  buffer after each (`Webcam.java:257`): the phone may then read one switch's
  value under a later keyword, or two values run together, and publish it with
  the next press. "No value under another switch" is not true of the fan and of
  feeding, nor through feeding of the car; it is true of the camera.
* Address and port the robot calls may be of two logins of the phone
  (`p2p-client-robot.py:81-82`), and the phone's `UserName` of two users when two
  `SocketThread`s write it; both may be old.
* When unlink fails the ring goes on with the next name (`output_file.c:172`): the
  oldest file stays and a newer one goes; when scandir fails (155) nothing goes
  until the next turn. `KeepsNewest` and `RingBounded` say what is left of the
  promise then.
* A resolution change can end the streamer (the camera thread's DQBUF fails once
  the stream is off); a failed re-initialisation leaves it paused for ever, deaf
  to `stop`; shutdown frees the picture under the clients' hands and destroys a
  condition variable others wait on; a restarted daemon does not stop what runs.
* `input_file` looks at the first of all queued events only
  (`input_file.c:233`): files that arrive while it is busy are neither shown nor,
  with `-r`, deleted. A failed malloc leaves the mutex locked for good (283).
* A short write is not noticed (`output_file.c:269` tests for a negative result
  only): the torn file stays in the ring as a picture. It does not count as
  `recorded`.
* During shutdown the recorder may save a file from freed memory; it takes the
  place of a picture in the ring.
* The robot runs into a KeyError or a changed dictionary when an answer comes
  while its loop is at it (`p2p-client-robot.py:40`).
* A `SocketThread` receives into the packet it last sent: after one answer to
  keepconnect the next datagram ends it (`SocketThread.java:104`).
* The test for the robot's name is commented out (`SocketThread.java:90`): the
  phone stores whatever user an answer describes, itself included, and the last
  one wins. So `PhoneHoldsAnnounced` speaks of some user, not of the robot.
* `UserName.isNull` (30) calls a method of the missing name: the fan button
  before the first answer ends the application.
* Read, not modelled: `output_file` takes indices 12 and 13 of its option table
  for `-i`, but they are `-m`; `-i` is ignored, and `-m`, which the help calls
  "save the stream to an mjpeg file", selects the input plugin.

## 6. Not modelled, and why

* **Accept loop** of `output_http` (`httpd.c:1109`): one `pcfd` is shared by the
  connections of a pass of select, and `client_thread` copies its argument and
  frees it. Two connections in one pass therefore free one block twice, and a
  thread may copy what the other has freed; C gives the program no meaning from
  there on that a model could state. With one connection per pass nothing is
  shared.
  Requests, files, JSON and the commands besides the resolution are parsing.
* **V4L2 controls** and the YUYV compression of `input_uvc`: each is one ioctl
  or one library call whose result nothing here depends on.
* **output_udp, output_rtsp, output_autofocus, output_viewer**: further readers
  with the wait, copy and unlock of `output_file`; what they do with the copy is
  network, servo or display. `start.sh` loads none of them.
* **input_testpicture, input_gspcav1, input_control**: writers with the lock,
  copy and broadcast of the ones modelled, or no picture at all.
* **`-n`** of `input_file` and **`-m`** of `output_file`: a filter of names, and
  an option without code behind it. The delay of `input_file` and `output_file`
  is time only.
* **signal_handler with the recorder's plugins**: its two seconds are in
  MjpgStreamer; in Recorder the interrupt sets `stop`, cancellation may follow
  at once, and a restart takes the place of the exit.
* **p2p-client-mobile.py**: the robot's program with a prompt for each step, a
  test tool; the phone application takes its place. Only this tool sends `move`,
  which the robot's receiver prints without changing anything.
* **yeelink.sh**: one sequential loop without state of its own.
* **luvcview_port, jpeg-9, the other copies of the streamer, viewers on other
  machines, documentation**: third-party code, other versions of what is
  modelled, display programs. They are most of the lines of the repository
  (JPEG arithmetic, a test picture as a table of bytes, an experimental copy of
  the same plugins), which is why the modelled part is a small share of it: it
  is the part with state that outlives a call.
* Left out everywhere: option parsing, plugin loading, daemon mode, JPEG
  compression, toasts and menus.
