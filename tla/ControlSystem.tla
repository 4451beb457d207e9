--------------------------- MODULE ControlSystem ----------------------------
(***************************************************************************)
(* The command path of the project: phones and the operator of the host    *)
(* write control.txt, the daemon of the board polls it and drives the      *)
(* streamer and the motor pins.  WebcamServer and PhoneApp share the       *)
(* published file and nothing else.                                        *)
(***************************************************************************)
EXTENDS WebcamServer, PhoneApp

CONSTANT OperatorChoices   \* the settings the operator may write

ASSUME OperatorAssumption == OperatorChoices \subseteq [Mode -> Int]

vars == <<serverVars, phoneVars, fileVars>>

\* The sample control.txt has a section for each mode, the car's one last.
\* No program of the project writes a car section: a person does, by hand.
FullFile(v) == Append(PhoneFile(v), Sect("car", v["car"]))

\* The values a file has for a mode.
FileValues(f, m) == {f[i].val : i \in {j \in DOMAIN f : f[j].mode = m}} \ {NoVal}

\* Nothing is published yet; what an old copy says was somebody's choice.
Init ==
  /\ ServerInit /\ PhoneInit
  /\ remote = <<>>
  /\ asked = [m \in Mode |-> {OFF} \cup FileValues(local, m)]
  /\ stray = [m \in Mode |-> {}]

\* The operator edits the file on the host: it is replaced as a whole.
OperatorEdit ==
  /\ edits < MaxEdits
  /\ edits' = edits + 1
  /\ \E v \in OperatorChoices : remote' = FullFile(v) /\ Choose(v)
  /\ UNCHANGED <<app, g, shorts>>

People == (OperatorEdit \/ \E p \in Phones : PhoneStep(p)) /\ UNCHANGED serverVars

Next == (ServerNext /\ UNCHANGED phoneVars) \/ People

Spec == Init /\ [][Next]_vars

-----------------------------------------------------------------------------

TypeOK == FileTypeOK /\ ServerTypeOK /\ PhoneTypeOK

\* Whatever the daemon has acted on for the camera was chosen by a person, for
\* the camera, at some time: through stale caches of several phones, cut files,
\* garbled downloads, failed copies and restarts no value is invented or put
\* under this switch.  For the fan and feeding the one other origin of a value
\* is a download in short reads; the car may also take what feeding had, the
\* exception the daemon's parser makes.
Commanded ==
  /\ last["webcam"] \in asked["webcam"]
  /\ \A m \in Switch : last[m] \in Given(m)
  /\ last["car"] \in asked["car"] \cup Given("feed")

\* Between two rounds the daemon owes nothing: last_ctrl is what was parsed,
\* and a motion it remembers is the one the four pins show.  (For the code 0
\* this needs a daemon that was never restarted: see StoppedWhenStopped.)
RoundSettled ==
  pc \in {"download", "sleep", "load"} =>
    /\ last = cur
    /\ last["car"] \in CarCode \ {0} => pins = CarPins[last["car"]]

\* With no restart the pins are also at rest when last_ctrl says stop.
StoppedWhenStopped ==
  faults = 0 /\ pc \notin {"pins"} /\ last["car"] = 0 => pins = CarPins[0]

\* While the four writes run, the pins are a front of the new pattern and a
\* tail of the one the car had at rest, never anything else.
PinsSweep ==
  pc = "pins" =>
    /\ \A i \in PinNo : i < pin => pins[i] = CarPins[cur["car"]][i]
    /\ last["car"] \in CarCode \ {0} =>
         \A i \in PinNo : i >= pin => pins[i] = CarPins[last["car"]][i]

\* With no restart and no death of the streamer last_ctrl is right about it at
\* every moment, not only in the end: it runs or is on its way while 1 is
\* remembered, and is off while 0 is, unless a stop could overtake a start.
StreamerShown ==
  faults = 0 =>
    /\ last["webcam"] = ON => streamer \in {"starting", "on"}
    /\ SleepCoversBoot /\ last["webcam"] = OFF => streamer = "off"

\* What README.md:9 promises as a function of its own, feeding, commands the
\* car only if somebody chose that code for the car.
FeedDoesNotDrive == last["car"] \in asked["car"]
-----------------------------------------------------------------------------
\* Liveness.  The main loop is never blocked by the file or the devices, so
\* each of its steps is weakly fair; the host comes back, start.sh reaches the
\* streamer, and an upload that has begun ends.

Fairness ==
  /\ WF_vars(Daemon /\ UNCHANGED <<fileVars, phoneVars>>)
  /\ WF_vars(HostBack /\ UNCHANGED <<fileVars, phoneVars>>)
  /\ WF_vars(Boot /\ UNCHANGED <<fileVars, phoneVars>>)

FairSpec == Spec /\ Fairness

\* Nobody decides anything any more, no upload is under way, and nothing
\* more will fail.
Quiet ==
  /\ edits = MaxEdits /\ faults = MaxFaults /\ outages = MaxOutages
  /\ \A p \in Phones : app[p] \notin {"connect", "store"}

\* The last complete section for m in front of the first cut.
Says(f, m) ==
  LET at == {i \in DOMAIN f : f[i].mode = m /\ f[i].val # NoVal} IN
  IF at = {} THEN {} ELSE {f[Latest(at)].val}

\* Once quiet, the daemon ends up, for good, with what the published file
\* says for each switch it mentions, however often copies and mounts failed
\* before, and with the car's value where the file has a car section.
Converges ==
  Quiet ~> [](Quiet /\ \A m \in Mode : Says(remote, m) \subseteq {last[m]})

\* Once quiet, the streamer ends up as the published file says, for good:
\* stopped on 0 and running on 1.  Neither a restart (which forgets that the
\* streamer runs) nor a death of the streamer (which nobody notices) may have
\* happened, and no stop may overtake a start (SleepCoversBoot).
StreamerFollows ==
  Quiet /\ faults = 0 ~>
    [](/\ Says(remote, "webcam") = {OFF} => streamer = "off"
       /\ Says(remote, "webcam") = {ON}  => streamer = "on")
=============================================================================
