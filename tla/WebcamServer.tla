---------------------------- MODULE WebcamServer ----------------------------
(***************************************************************************)
(* webcam_server.c: the daemon of the board.  Its main loop copies the     *)
(* published control file from the NFS mount, sleeps, remounts, parses its *)
(* own copy into cur_ctrl and runs one operation for every value that      *)
(* differs from last_ctrl.  The car operation sets the four motor pins one *)
(* after another, each by a command of its own.                            *)
(*                                                                         *)
(* The results of cp, umount, mount and of load_config_data are ignored by *)
(* the code; a missing local copy and an empty one therefore behave alike  *)
(* and are both <<>>.                                                      *)
(***************************************************************************)
EXTENDS ControlFile

CONSTANTS MaxFaults,    \* bound: restarts of the daemon, deaths of the streamer
          MaxOutages,   \* bound: times the NFS host goes away
          MaxOpen,      \* files a process may have open; 0: never reached
          SleepCoversBoot, \* start.sh is done before sleep(sleep_time) returns
          OldCopies     \* what ./control.txt may be when the daemon starts

ASSUME DaemonAssumption ==
  /\ MaxFaults \in Nat
  /\ MaxOutages \in Nat
  /\ MaxOpen \in Nat
  /\ SleepCoversBoot \in BOOLEAN
  /\ OldCopies \subseteq File

VARIABLES pc,        \* where the main loop stands
          local,     \* ./control.txt
          mounted,   \* /mnt holds the NFS mount
          hostUp,    \* the NFS host answers
          rest,      \* sections fgets has still to read
          leaked,    \* control files opened and never closed
          cur,       \* cur_ctrl
          last,      \* last_ctrl
          pins,      \* gph3_0 .. gph3_3, which drive the motors
          pin,       \* the pin car_operation writes next
          streamer,  \* the mjpg_streamer process started by start.sh
          faults, outages   \* what is used of the bounds

daemonVars == <<pc, local, mounted, rest, leaked, cur, last, pin>>
deviceVars == <<pins, streamer>>
hostVars   == <<hostUp, outages>>
serverVars == <<daemonVars, deviceVars, hostVars, faults>>

PinNo   == 1..4
Ctrl    == [Mode -> Int]
Zero    == [m \in Mode |-> 0]
CarCode == 0..6

\* The pin levels of car_operation, in the order of enum car_ctrl_code:
\* STOP, FORWARD, BACKWARD, LEFT, RIGHT, CENTER_LEFT, CENTER_RIGHT.
CarPins ==
  [c \in CarCode |->
     <<<<0,0,0,0>>, <<1,0,1,0>>, <<0,1,0,1>>, <<1,0,0,1>>,
       <<0,1,1,0>>, <<1,0,1,1>>, <<1,1,1,0>>>>[c + 1]]

-----------------------------------------------------------------------------

\* The daemon starts in a directory with one of the older copies; the motors
\* are off.
ServerInit ==
  /\ pc = "download" /\ pin = 1 /\ rest = <<>> /\ leaked = 0
  /\ local \in OldCopies
  /\ mounted \in BOOLEAN /\ hostUp = TRUE
  /\ cur = Zero /\ last = Zero
  /\ pins = CarPins[0] /\ streamer = "off"
  /\ faults = 0 /\ outages = 0

\* cp /mnt/mjpg-streamer/control.txt ./control.txt.  Without the mount there
\* is no such file and the old copy stays; on a dead host cp blocks, as
\* requests on a hard NFS mount do.
DownloadConfigFile ==
  /\ pc = "download"
  /\ mounted => hostUp
  /\ local' = IF mounted THEN remote ELSE local
  /\ pc' = "sleep"
  /\ UNCHANGED <<mounted, rest, leaked, cur, last, pin, deviceVars, hostVars, faults>>

\* sleep(sleep_time) returns.
Sleep ==
  /\ pc = "sleep"
  /\ SleepCoversBoot => streamer # "starting"
  /\ pc' = "load"
  /\ UNCHANGED <<local, mounted, rest, leaked, cur, last, pin, deviceVars, hostVars, faults>>

\* fopen of the local copy; when no descriptor is left the round goes on
\* with what cur_ctrl had.
Fopen ==
  IF MaxOpen > 0 /\ leaked = MaxOpen
  THEN pc' = "webcam" /\ rest' = <<>>
  ELSE pc' = "parse" /\ rest' = local

\* Mutant: only a mount that is there is renewed.
OpenConfigNoMount ==
  /\ pc = "load"
  /\ mounted' \in IF hostUp THEN {mounted} ELSE {FALSE, mounted}
  /\ Fopen
  /\ UNCHANGED <<local, leaked, cur, last, pin, deviceVars, hostVars, faults>>

\* load_config_data: umount and mount, then fopen.  With the host gone the
\* mount fails, and umount may have failed too.
OpenConfig ==
  /\ pc = "load"
  /\ mounted' \in IF hostUp THEN {TRUE} ELSE {FALSE, mounted}
  /\ Fopen
  /\ UNCHANGED <<local, leaked, cur, last, pin, deviceVars, hostVars, faults>>

\* The switch over the keyword: MODE_FEED has no break and runs on into
\* MODE_CAR, so a feeding value is stored as the car's value as well.
Assign(c, s) ==
  CASE s.mode = "feed" -> [c EXCEPT !["feed"] = s.val, !["car"] = s.val]
    [] OTHER           -> [c EXCEPT ![s.mode] = s.val]

\* Mutant: the missing value line is not noticed.
ParseSectionUnchecked ==
  /\ pc = "parse" /\ rest # <<>>
  /\ rest' = Tail(rest) /\ cur' = Assign(cur, Head(rest))
  /\ UNCHANGED <<pc, leaked, local, mounted, last, pin, deviceVars, hostVars, faults>>

\* One section of the file.
ParseSection ==
  /\ pc = "parse" /\ rest # <<>> /\ Head(rest).val # NoVal
  /\ rest' = Tail(rest) /\ cur' = Assign(cur, Head(rest))
  /\ UNCHANGED <<pc, leaked, local, mounted, last, pin, deviceVars, hostVars, faults>>

\* A keyword without a value line: load_config_data returns at once and does
\* not close the file.
ParseFails ==
  /\ pc = "parse" /\ rest # <<>> /\ Head(rest).val = NoVal
  /\ leaked' = IF MaxOpen > 0 THEN leaked + 1 ELSE 0
  /\ rest' = <<>> /\ pc' = "webcam"
  /\ UNCHANGED <<cur, local, mounted, last, pin, deviceVars, hostVars, faults>>

ParseDone ==
  /\ pc = "parse" /\ rest = <<>>
  /\ pc' = "webcam"
  /\ UNCHANGED <<local, mounted, rest, leaked, cur, last, pin, deviceVars, hostVars, faults>>

\* Mutant: case 0 has no break either.
WebcamOperationFallsThrough(code) ==
  IF code \in {0, 1} /\ streamer # "starting" THEN "starting" ELSE streamer

\* What webcam_operation does to the streamer.  A second start finds the
\* camera taken and exits; pkill.sh kills what ps lists as mjpg_streamer,
\* which a start.sh still on its way to the streamer is not.
WebcamOperation(code) ==
  CASE code = 0 /\ streamer = "on"  -> "off"
    [] code = 1 /\ streamer = "off" -> "starting"
    [] OTHER                        -> streamer

\* compare_update, first comparison.
UpdateWebcam ==
  /\ pc = "webcam"
  /\ IF cur["webcam"] # last["webcam"]
     THEN /\ streamer' = WebcamOperation(cur["webcam"])
          /\ last' = [last EXCEPT !["webcam"] = cur["webcam"]]
     ELSE UNCHANGED <<streamer, last>>
  /\ pc' = "fan"
  /\ UNCHANGED <<local, mounted, rest, leaked, cur, pin, pins, hostVars, faults>>

\* Mutant: last_ctrl is not brought up to date.
UpdatePrintedForgets(m, next) ==
  /\ pc = m /\ pc' = next
  /\ UNCHANGED <<local, mounted, rest, leaked, cur, last, pin, deviceVars, hostVars, faults>>

\* compare_update, second and third comparison: fan_operation and
\* feed_operation drive nothing yet, they print the code.
UpdatePrinted(m, next) ==
  /\ pc = m
  /\ last' = [last EXCEPT ![m] = cur[m]]
  /\ pc' = next
  /\ UNCHANGED <<local, mounted, rest, leaked, cur, pin, deviceVars, hostVars, faults>>

UpdateFan  == UpdatePrinted("fan", "feed")
UpdateFeed == UpdatePrinted("feed", "car")

\* Mutant: the code of the stop is taken for an unknown one.
UpdateCarSkipsStop ==
  /\ pc = "car"
  /\ IF cur["car"] # last["car"] /\ cur["car"] \in CarCode \ {0}
     THEN pc' = "pins" /\ UNCHANGED last
     ELSE pc' = "download" /\ last' = [last EXCEPT !["car"] = cur["car"]]
  /\ UNCHANGED <<local, mounted, rest, leaked, cur, pin, deviceVars, hostVars, faults>>

\* compare_update, last comparison: nothing to do, a code car_operation
\* rejects (last_ctrl takes it all the same), or the first of four writes.
UpdateCar ==
  /\ pc = "car"
  /\ IF cur["car"] # last["car"] /\ cur["car"] \in CarCode
     THEN pc' = "pins" /\ UNCHANGED last
     ELSE pc' = "download" /\ last' = [last EXCEPT !["car"] = cur["car"]]
  /\ UNCHANGED <<local, mounted, rest, leaked, cur, pin, deviceVars, hostVars, faults>>

\* Mutant: the levels go to the pins in reverse.
WritePinReversed ==
  /\ pc = "pins"
  /\ pins' = [pins EXCEPT ![5 - pin] = CarPins[cur["car"]][pin]]
  /\ IF pin < 4
     THEN pin' = pin + 1 /\ UNCHANGED <<pc, last>>
     ELSE /\ pin' = 1 /\ pc' = "download"
          /\ last' = [last EXCEPT !["car"] = cur["car"]]
  /\ UNCHANGED <<local, mounted, rest, leaked, cur, streamer, hostVars, faults>>

\* One "echo b > gph3_i" of car_operation; last_ctrl is set after the fourth.
WritePin ==
  /\ pc = "pins"
  /\ pins' = [pins EXCEPT ![pin] = CarPins[cur["car"]][pin]]
  /\ IF pin < 4
     THEN pin' = pin + 1 /\ UNCHANGED <<pc, last>>
     ELSE /\ pin' = 1 /\ pc' = "download"
          /\ last' = [last EXCEPT !["car"] = cur["car"]]
  /\ UNCHANGED <<local, mounted, rest, leaked, cur, streamer, hostVars, faults>>

Daemon ==
  \/ DownloadConfigFile \/ Sleep \/ OpenConfig
  \/ ParseSection \/ ParseFails \/ ParseDone
  \/ UpdateWebcam \/ UpdateFan \/ UpdateFeed \/ UpdateCar \/ WritePin

-----------------------------------------------------------------------------
\* What happens to the daemon.

\* The daemon is killed and started again: cur_ctrl and last_ctrl are back at
\* their initialisers, the pins and the streamer keep what they had.
Restart ==
  /\ faults < MaxFaults
  /\ faults' = faults + 1
  /\ pc' = "download" /\ rest' = <<>> /\ leaked' = 0 /\ pin' = 1
  /\ cur' = Zero /\ last' = Zero
  /\ UNCHANGED <<local, mounted, deviceVars, hostVars>>

\* start.sh reaches its ./mjpg_streamer line.
Boot ==
  /\ streamer = "starting"
  /\ streamer' = "on"
  /\ UNCHANGED <<daemonVars, pins, hostVars, faults>>

\* mjpg_streamer exits by itself (no camera, a failed grab).
StreamerDies ==
  /\ streamer = "on" /\ faults < MaxFaults
  /\ faults' = faults + 1
  /\ streamer' = "off"
  /\ UNCHANGED <<daemonVars, pins, hostVars>>

\* The NFS host goes away, at most MaxOutages times, and comes back.
HostDown ==
  /\ hostUp /\ outages < MaxOutages
  /\ hostUp' = FALSE /\ outages' = outages + 1
  /\ UNCHANGED <<daemonVars, deviceVars, faults>>

HostBack ==
  /\ ~hostUp
  /\ hostUp' = TRUE
  /\ UNCHANGED <<daemonVars, deviceVars, outages, faults>>

Surroundings == Restart \/ Boot \/ StreamerDies \/ HostDown \/ HostBack

ServerNext == (Daemon \/ Surroundings) /\ UNCHANGED fileVars

ServerTypeOK ==
  /\ pc \in {"download", "sleep", "load", "parse", "pins"} \cup Mode
  /\ local \in File /\ rest \in File /\ leaked \in 0..MaxOpen
  /\ mounted \in BOOLEAN /\ hostUp \in BOOLEAN
  /\ cur \in Ctrl /\ last \in Ctrl
  /\ pins \in [PinNo -> {0, 1}] /\ pin \in PinNo
  /\ streamer \in {"off", "starting", "on"}
  /\ faults \in 0..MaxFaults /\ outages \in 0..MaxOutages
=============================================================================
