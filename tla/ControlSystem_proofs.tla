------------------------ MODULE ControlSystem_proofs ------------------------
(***************************************************************************)
(* Proofs about ControlSystem, for any phones, operator choices and bounds.*)
(* The lemmas about control files come first, then one lemma for the       *)
(* initial state, the daemon, its surroundings and the people, and last    *)
(* the theorems.                                                           *)
(***************************************************************************)
EXTENDS ControlSystem, SequenceTheorems, WellFoundedInduction, TLAPS

\* A nonempty set of positions of a file has a last one, and Latest is it.
LEMMA LatestIsLast ==
  ASSUME NEW n \in Nat, NEW S, S \subseteq 1..n, S # {}
  PROVE  Latest(S) \in S /\ \A j \in S : j <= Latest(S)
<1> DEFINE T == {k \in Nat : \E i \in S : k = n - i}
<1>1. \A i \in S : i \in Int /\ n - i \in Nat
  OBVIOUS
<1>2. T \subseteq Nat /\ T # {}
  BY <1>1
<1>3. PICK x \in T : \A y \in T : <<y, x>> \notin OpToRel(<, Nat)
  BY <1>2, WFMin, NatLessThanWellFounded
<1>4. \A y \in T : ~ (y < x)
  <2> TAKE y \in T
  <2>1. SUFFICES ASSUME y < x PROVE FALSE
    OBVIOUS
  <2>2. <<y, x>> \in Nat \X Nat /\ <<y, x>>[1] < <<y, x>>[2]
    BY <2>1
  <2>3. <<y, x>> \in OpToRel(<, Nat)
    BY <2>2 DEF OpToRel
  <2> QED BY <1>3, <2>3
<1>5. PICK i \in S : x = n - i
  OBVIOUS
<1>6. \A j \in S : j <= i
  <2> TAKE j \in S
  <2>1. n - j \in T
    BY <1>1
  <2>2. ~ (n - j < x)
    BY <1>4, <2>1
  <2> QED BY <1>1, <1>5, <2>2
<1> QED BY <1>6 DEF Latest

\* Cutting a file leaves a file, and invents no value.
LEMMA CutsAreFiles ==
  ASSUME NEW f \in File, NEW c \in Cuts(f)
  PROVE  /\ c \in File
         /\ ChosenFile(f) => ChosenFile(c)
         /\ WebcamFirst(f) => WebcamFirst(c)
<1>1. CASE \E k \in 0..Len(f) : c = SubSeq(f, 1, k)
  <2>1. PICK k \in 0..Len(f) : c = SubSeq(f, 1, k)
    BY <1>1
  <2>2. /\ c \in Seq(Section) /\ Len(c) = k
        /\ \A i \in 1..k : c[i] = f[i]
    BY <2>1, SubSeqProperties DEF File
  <2> QED BY <2>2, LenProperties DEF File, ChosenFile, WebcamFirst
<1>2. CASE \E k \in 1..Len(f) : c = Append(SubSeq(f, 1, k - 1), Sect(f[k].mode, NoVal))
  <2>1. PICK k \in 1..Len(f) : c = Append(SubSeq(f, 1, k - 1), Sect(f[k].mode, NoVal))
    BY <1>2
  <2> DEFINE h == SubSeq(f, 1, k - 1)
             e == Sect(f[k].mode, NoVal)
  <2>2. /\ h \in Seq(Section) /\ Len(h) = k - 1
        /\ \A i \in 1..(k - 1) : h[i] = f[i]
    BY <2>1, SubSeqProperties DEF File
  <2>3. e \in Section
    BY <2>1, ElementOfSeq DEF File, Section, Sect
  <2>4. /\ c \in Seq(Section) /\ Len(c) = k
        /\ \A i \in 1..(k - 1) : c[i] = f[i]
        /\ c[k] = e
    BY <2>1, <2>2, <2>3, AppendProperties
  <2> QED BY <2>4, LenProperties DEF File, ChosenFile, WebcamFirst, Sect
<1> QED BY <1>1, <1>2 DEF Cuts

\* The rest of a file after its first section is a file.
LEMMA TailIsFile ==
  ASSUME NEW f \in File, f # <<>>
  PROVE  /\ Head(f) \in Section /\ Tail(f) \in File
         /\ ChosenFile(f) => /\ ChosenFile(Tail(f))
                             /\ Head(f).val = NoVal \/ Head(f).val \in Given(Head(f).mode)
<1>1. /\ Head(f) \in Section /\ Tail(f) \in Seq(Section)
      /\ Len(Tail(f)) = Len(f) - 1
      /\ \A i \in 1..Len(Tail(f)) : Tail(f)[i] = f[i + 1]
  BY HeadTailProperties DEF File
<1>2. Len(f) \in Nat /\ Len(f) > 0 /\ Head(f) = f[1]
  BY EmptySeq DEF File
<1> QED BY <1>1, <1>2, LenProperties DEF File, ChosenFile

-----------------------------------------------------------------------------
(***************************************************************************)
(* The inductive invariant.  Commanded speaks of last_ctrl alone; a value  *)
(* gets there from a file through the daemon's copy, the sections still to *)
(* be parsed and cur_ctrl, and into a file from a phone's cached values,   *)
(* so each of these has to hold values with an origin only.  A download    *)
(* in short reads never garbles the first section: in every published file *)
(* that is the camera's.                                                   *)
(***************************************************************************)

\* The pins are being written only for a motion that exists.
KnownMotion == pc = "pins" => cur["car"] \in CarCode

\* The values in c have an origin, the car's possibly under feeding.
ChosenCtrl(c) ==
  /\ \A m \in Switch : c[m] \in Given(m)
  /\ c["car"] \in Given("car") \cup Given("feed")

Chosen ==
  /\ ChosenFile(remote) /\ ChosenFile(local) /\ ChosenFile(rest)
  /\ ChosenCtrl(cur) /\ ChosenCtrl(last)
  /\ \A p \in Phones : \A m \in Switch : g[p][m] \in Given(m)
  /\ \A m \in Mode : OFF \in Given(m)

\* Garbled downloads put nothing under the camera, nor under the car, which
\* the phones do not know.
Unspoiled == stray["webcam"] = {} /\ stray["car"] = {} /\ WebcamFirst(remote)

\* A file is being read: its descriptor was not the last.
OpenFile == pc = "parse" => MaxOpen = 0 \/ leaked < MaxOpen

Inv == TypeOK /\ KnownMotion /\ OpenFile /\ Chosen /\ Unspoiled

\* The program starts in the invariant.
LEMMA InitInv == Init => Inv
<1> SUFFICES ASSUME Init PROVE Inv
  OBVIOUS
<1> USE DEF Init, ServerInit, PhoneInit
<1>1. <<>> \in File /\ local \in File
  BY EmptySeq, DaemonAssumption DEF File
<1>2. ServerTypeOK
  BY <1>1, DaemonAssumption DEF ServerTypeOK, Zero, Ctrl, CarPins, CarCode, PinNo, Mode, Switch
<1>3. DOMAIN local = 1..Len(local) /\ \A i \in DOMAIN local : local[i] \in Section
  BY <1>1, LenProperties, ElementOfSeq DEF File
<1>4. asked \in [Mode -> SUBSET Int] /\ stray \in [Mode -> SUBSET Int]
  BY <1>3 DEF FileValues, OFF, Section
<1>5. FileTypeOK /\ PhoneTypeOK
  BY <1>1, <1>4, PhoneAssumption DEF FileTypeOK, PhoneTypeOK, AllOff, OFF
<1>6. ChosenFile(<<>>) /\ WebcamFirst(<<>>)
  BY DEF ChosenFile, WebcamFirst
<1>7. ChosenFile(local)
  <2> SUFFICES ASSUME NEW i \in DOMAIN local, local[i].val # NoVal
               PROVE  local[i].val \in Given(local[i].mode)
    BY DEF ChosenFile
  <2>1. local[i].mode \in Mode /\ local[i].val \in FileValues(local, local[i].mode)
    BY <1>3 DEF FileValues, Section
  <2> QED BY <2>1 DEF Given
<1>8. \A m \in Mode : OFF \in Given(m)
  BY DEF Given
<1>9. Chosen
  BY <1>6, <1>7, <1>8 DEF Chosen, ChosenCtrl, Zero, AllOff, OFF, Mode, Switch
<1>10. Unspoiled
  BY <1>6 DEF Unspoiled, Mode, Switch
<1> QED BY <1>2, <1>5, <1>9, <1>10 DEF Inv, TypeOK, KnownMotion, OpenFile

\* Every motion sets every pin to 0 or 1.
LEMMA CarPinsType ==
  ASSUME NEW c \in CarCode, NEW i \in PinNo
  PROVE  CarPins[c][i] \in {0, 1}
BY DEF CarPins, CarCode, PinNo

\* Assign keeps cur_ctrl an integer for each mode, and chosen.
LEMMA AssignType ==
  ASSUME NEW c \in Ctrl, NEW s \in Section, s.val # NoVal
  PROVE  /\ Assign(c, s) \in Ctrl
         /\ ChosenCtrl(c) /\ s.val \in Given(s.mode) => ChosenCtrl(Assign(c, s))
<1>1. s.val \in Int /\ s.mode \in Mode
  BY DEF Section
<1>2. CASE s.mode = "feed"
  BY <1>1, <1>2 DEF Assign, Ctrl, Mode, Switch, ChosenCtrl
<1>3. CASE s.mode # "feed"
  <2>1. Assign(c, s) = [c EXCEPT ![s.mode] = s.val]
    BY <1>3 DEF Assign
  <2> QED BY <1>1, <1>3, <2>1 DEF Ctrl, Mode, Switch, ChosenCtrl
<1> QED BY <1>2, <1>3

-----------------------------------------------------------------------------
\* A step of the daemon leaves files, phones and choices to the people.
LEMMA DaemonInv ==
  ASSUME Inv, Daemon, UNCHANGED <<remote, asked, stray, phoneVars>>
  PROVE  Inv'
<1> USE DEF Inv, TypeOK, FileTypeOK, ServerTypeOK, KnownMotion, OpenFile
<1>1. PhoneTypeOK' /\ FileTypeOK'
  BY DEF PhoneTypeOK, phoneVars
<1>2. ASSUME ChosenFile(local'), ChosenFile(rest'), ChosenCtrl(cur'), ChosenCtrl(last')
      PROVE  Chosen' /\ Unspoiled'
  BY <1>2 DEF Chosen, ChosenFile, ChosenCtrl, phoneVars, Given, Unspoiled, WebcamFirst
<1>3. ChosenFile(remote) /\ ChosenFile(local) /\ ChosenFile(rest)
  BY DEF Chosen
<1>4. ChosenCtrl(cur) /\ ChosenCtrl(last)
  BY DEF Chosen
<1>5. cur \in [Mode -> Int] /\ last \in [Mode -> Int]
  BY DEF Ctrl
<1>6. CASE DownloadConfigFile
  <2>1. ServerTypeOK' /\ KnownMotion' /\ OpenFile'
    BY <1>6 DEF DownloadConfigFile, deviceVars, hostVars, Mode, Switch
  <2>2. ChosenFile(local') /\ rest' = rest /\ cur' = cur /\ last' = last
    BY <1>3, <1>6 DEF DownloadConfigFile
  <2> QED BY <1>1, <1>2, <1>3, <1>4, <2>1, <2>2
<1>7. CASE Sleep
  <2>1. ServerTypeOK' /\ KnownMotion' /\ OpenFile'
    BY <1>7 DEF Sleep, deviceVars, hostVars, Mode, Switch
  <2> QED BY <1>1, <1>2, <1>3, <1>4, <1>7, <2>1 DEF Sleep
<1>8. CASE OpenConfig
  <2>1. <<>> \in File /\ ChosenFile(<<>>)
    BY EmptySeq DEF File, ChosenFile
  <2>2. /\ UNCHANGED <<local, leaked, cur, last, pin, pins, streamer, hostUp, outages, faults>>
        /\ mounted' \in BOOLEAN
        /\ rest' \in {<<>>, local}
    BY <1>8 DEF OpenConfig, Fopen, deviceVars, hostVars
  <2>3. \/ pc' = "webcam"
        \/ pc' = "parse" /\ ~ (MaxOpen > 0 /\ leaked = MaxOpen)
    BY <1>8 DEF OpenConfig, Fopen
  <2>4. ServerTypeOK'
    BY <2>1, <2>2, <2>3 DEF Mode, Switch
  <2>5. KnownMotion' /\ OpenFile'
    BY <2>2, <2>3, DaemonAssumption
  <2> QED BY <1>1, <1>2, <1>3, <1>4, <2>1, <2>2, <2>4, <2>5
<1>9. CASE ParseSection
  <2>1. pc' = pc /\ pc = "parse"
    BY <1>9 DEF ParseSection
  <2>2. /\ Head(rest) \in Section /\ Tail(rest) \in File
        /\ ChosenFile(Tail(rest))
        /\ Head(rest).val = NoVal \/ Head(rest).val \in Given(Head(rest).mode)
    BY <1>3, <1>9, TailIsFile DEF ParseSection
  <2>3. /\ rest' = Tail(rest) /\ cur' = Assign(cur, Head(rest))
        /\ UNCHANGED <<last, local, leaked>>
    BY <1>9 DEF ParseSection
  <2>4. cur' \in Ctrl /\ ChosenCtrl(cur')
    BY <1>4, <1>9, <2>2, <2>3, AssignType DEF ParseSection
  <2>5. ServerTypeOK' /\ KnownMotion' /\ OpenFile'
    BY <1>9, <2>1, <2>2, <2>3, <2>4 DEF ParseSection, deviceVars, hostVars
  <2> QED BY <1>1, <1>2, <1>3, <1>4, <2>2, <2>3, <2>4, <2>5
<1>16. CASE ParseFails
  <2>1. <<>> \in File /\ ChosenFile(<<>>)
    BY EmptySeq DEF File, ChosenFile
  <2>2. /\ pc = "parse" /\ pc' = "webcam" /\ rest' = <<>>
        /\ UNCHANGED <<cur, last, local>>
    BY <1>16 DEF ParseFails
  <2>3. leaked' \in 0..MaxOpen
    BY <1>16, <2>2, DaemonAssumption DEF ParseFails
  <2>4. ServerTypeOK' /\ KnownMotion' /\ OpenFile'
    BY <1>16, <2>1, <2>2, <2>3 DEF ParseFails, deviceVars, hostVars, Mode, Switch
  <2> QED BY <1>1, <1>2, <1>3, <1>4, <2>1, <2>2, <2>4
<1>10. CASE ParseDone
  <2>1. ServerTypeOK' /\ KnownMotion' /\ OpenFile'
    BY <1>10 DEF ParseDone, deviceVars, hostVars, Mode, Switch
  <2> QED BY <1>1, <1>2, <1>3, <1>4, <1>10, <2>1 DEF ParseDone
<1>11. CASE UpdateWebcam
  <2>1. last' \in Ctrl /\ ChosenCtrl(last')
    BY <1>4, <1>5, <1>11 DEF UpdateWebcam, Ctrl, ChosenCtrl, Mode, Switch
  <2>2. streamer' \in {"off", "starting", "on"}
    BY <1>11 DEF UpdateWebcam, WebcamOperation
  <2>3. ServerTypeOK' /\ KnownMotion' /\ OpenFile'
    BY <1>11, <2>1, <2>2 DEF UpdateWebcam, hostVars, Mode, Switch
  <2> QED BY <1>1, <1>2, <1>3, <1>4, <1>11, <2>1, <2>3 DEF UpdateWebcam
<1>12. ASSUME NEW m \in {"fan", "feed"}, NEW next \in {"feed", "car"}, UpdatePrinted(m, next)
       PROVE  Inv'
  <2>1. last' \in Ctrl /\ ChosenCtrl(last')
    BY <1>4, <1>5, <1>12 DEF UpdatePrinted, Ctrl, ChosenCtrl, Mode, Switch
  <2>2. ServerTypeOK' /\ KnownMotion' /\ OpenFile'
    BY <1>12, <2>1 DEF UpdatePrinted, deviceVars, hostVars, Mode, Switch
  <2> QED BY <1>1, <1>2, <1>3, <1>4, <1>12, <2>1, <2>2 DEF UpdatePrinted
<1>13. last["car"] \in Int /\ ChosenCtrl([last EXCEPT !["car"] = cur["car"]])
       /\ [last EXCEPT !["car"] = cur["car"]] \in Ctrl
  BY <1>4, <1>5 DEF Ctrl, ChosenCtrl, Mode, Switch
<1>14. CASE UpdateCar
  <2>1. last' \in Ctrl /\ ChosenCtrl(last')
    BY <1>4, <1>13, <1>14 DEF UpdateCar
  <2>2. ServerTypeOK' /\ KnownMotion' /\ OpenFile'
    BY <1>14, <2>1 DEF UpdateCar, deviceVars, hostVars, Mode, Switch
  <2> QED BY <1>1, <1>2, <1>3, <1>4, <1>14, <2>1, <2>2 DEF UpdateCar
<1>15. CASE WritePin
  <2>1. last' \in Ctrl /\ ChosenCtrl(last')
    BY <1>4, <1>13, <1>15 DEF WritePin
  <2>2. pins' \in [PinNo -> {0, 1}] /\ pin' \in PinNo
    BY <1>15, CarPinsType DEF WritePin, PinNo
  <2>3. ServerTypeOK' /\ KnownMotion' /\ OpenFile'
    BY <1>15, <2>1, <2>2 DEF WritePin, hostVars
  <2> QED BY <1>1, <1>2, <1>3, <1>4, <1>15, <2>1, <2>3 DEF WritePin
<1> QED
  BY <1>6, <1>7, <1>8, <1>9, <1>10, <1>11, <1>12, <1>14, <1>15, <1>16
  DEF Daemon, UpdateFan, UpdateFeed

\* Neither does a restart, a death of the streamer or an outage of the host.
LEMMA SurroundingsInv ==
  ASSUME Inv, Surroundings, UNCHANGED <<remote, asked, stray, phoneVars>>
  PROVE  Inv'
<1> USE DEF Inv, TypeOK, FileTypeOK, ServerTypeOK, KnownMotion, OpenFile
<1>1. PhoneTypeOK' /\ FileTypeOK'
  BY DEF PhoneTypeOK, phoneVars
<1>2. ASSUME local' = local, ChosenFile(rest'), ChosenCtrl(cur'), ChosenCtrl(last')
      PROVE  Chosen' /\ Unspoiled'
  BY <1>2 DEF Chosen, ChosenFile, ChosenCtrl, phoneVars, Given, Unspoiled, WebcamFirst
<1>3. CASE Restart
  <2>1. <<>> \in File /\ ChosenFile(<<>>)
    BY EmptySeq DEF File, ChosenFile
  <2>2. Zero \in Ctrl /\ ChosenCtrl(Zero)
    BY DEF Zero, Ctrl, ChosenCtrl, Chosen, OFF, Mode, Switch
  <2>3. ServerTypeOK' /\ KnownMotion' /\ OpenFile'
    BY <1>3, <2>1, <2>2, DaemonAssumption DEF Restart, deviceVars, hostVars, PinNo
  <2> QED BY <1>1, <1>2, <1>3, <2>1, <2>2, <2>3 DEF Restart
<1>4. CASE Boot \/ StreamerDies
  <2>1. ServerTypeOK' /\ KnownMotion' /\ OpenFile'
    BY <1>4, DaemonAssumption DEF Boot, StreamerDies, daemonVars, hostVars
  <2>2. rest' = rest /\ cur' = cur /\ last' = last /\ local' = local
    BY <1>4 DEF Boot, StreamerDies, daemonVars
  <2> QED BY <1>1, <1>2, <2>1, <2>2 DEF Chosen
<1>5. CASE HostDown \/ HostBack
  <2>1. daemonVars' = daemonVars /\ deviceVars' = deviceVars /\ faults' = faults
    BY <1>5 DEF HostDown, HostBack, daemonVars, deviceVars
  <2>2. hostUp' \in BOOLEAN /\ outages' \in 0..MaxOutages
    <3>1. CASE HostDown
      <4>1. hostUp' \in BOOLEAN
        BY <3>1 DEF HostDown
      <4>2. outages' \in 0..MaxOutages
        BY <3>1, DaemonAssumption DEF HostDown
      <4> QED BY <4>1, <4>2
    <3>2. CASE HostBack
      BY <3>2 DEF HostBack
    <3> QED BY <1>5, <3>1, <3>2
  <2>3. ServerTypeOK' /\ KnownMotion' /\ OpenFile'
    BY <2>1, <2>2 DEF daemonVars, deviceVars
  <2>4. rest' = rest /\ cur' = cur /\ last' = last /\ local' = local
    BY <2>1 DEF daemonVars
  <2> QED BY <1>1, <1>2, <2>3, <2>4 DEF Chosen
<1> QED BY <1>3, <1>4, <1>5 DEF Surroundings

-----------------------------------------------------------------------------
\* What a phone reads from a file that parses is an integer for each switch,
\* and has an origin if the file's values and its own have.
LEMMA ReadControlFileType ==
  ASSUME NEW old \in [Switch -> Int], NEW f \in File, Readable(f)
  PROVE  /\ ReadControlFile(old, f) \in [Switch -> Int]
         /\ ChosenFile(f) =>
              \A m \in Switch : old[m] \in Given(m) => ReadControlFile(old, f)[m] \in Given(m)
<1> DEFINE at(m) == {i \in DOMAIN f : f[i].mode = m}
<1>1. Len(f) \in Nat /\ DOMAIN f = 1..Len(f) /\ \A i \in DOMAIN f : f[i] \in Section
  BY LenProperties, ElementOfSeq DEF File
<1>2. ASSUME NEW m \in Switch, at(m) # {}
      PROVE  /\ Latest(at(m)) \in DOMAIN f /\ f[Latest(at(m))].mode = m
             /\ f[Latest(at(m))].val \in Int
  <2>1. at(m) \subseteq 1..Len(f)
    BY <1>1
  <2>2. Latest(at(m)) \in at(m)
    BY <1>1, <1>2, <2>1, LatestIsLast
  <2> QED BY <1>1, <2>2 DEF Readable, Section
<1>3. ASSUME NEW m \in Switch
      PROVE  ReadControlFile(old, f)[m] = IF at(m) = {} THEN old[m] ELSE f[Latest(at(m))].val
  BY DEF ReadControlFile
<1>4. ReadControlFile(old, f) = [m \in Switch |-> ReadControlFile(old, f)[m]]
  BY DEF ReadControlFile
<1>5. \A m \in Switch : ReadControlFile(old, f)[m] \in Int
  BY <1>2, <1>3
<1>6. ASSUME ChosenFile(f), NEW m \in Switch, old[m] \in Given(m)
      PROVE  ReadControlFile(old, f)[m] \in Given(m)
  <2>1. CASE at(m) = {}
    BY <1>3, <1>6, <2>1
  <2>2. CASE at(m) # {}
    <3>1. f[Latest(at(m))].val # NoVal
      BY <1>2, <2>2, NoValAssumption
    <3> QED BY <1>2, <1>3, <1>6, <2>2, <3>1 DEF ChosenFile
  <2> QED BY <2>1, <2>2
<1> QED BY <1>4, <1>5, <1>6

\* What a phone has after a garbled download is an integer for each switch,
\* and for the camera a value that has an origin there.
LEMMA GarbledReadsType ==
  ASSUME NEW old \in [Switch -> Int], NEW f \in File, NEW n \in GarbledReads(old, f)
  PROVE  /\ n \in [Switch -> Int]
         /\ WebcamFirst(f) /\ ChosenFile(f) /\ old["webcam"] \in Given("webcam")
              => n["webcam"] \in Given("webcam")
<1> DEFINE at(m)     == {j \in DOMAIN f : f[j].mode = m}
           values(m) == {old[m]} \cup UNION {Mixtures(f, i) : i \in at(m)}
<1>1. Len(f) \in Nat /\ DOMAIN f = 1..Len(f) /\ \A i \in DOMAIN f : f[i] \in Section
  BY LenProperties, ElementOfSeq DEF File
<1>2. ASSUME NEW i \in DOMAIN f
      PROVE  Mixtures(f, i) \subseteq Int
  <2>1. i \in 1..Len(f) /\ \A j \in 1..(i - 1) : j \in DOMAIN f
    BY <1>1
  <2>2. f[i].val \in Int \cup {NoVal} /\ \A j \in 1..(i - 1) : f[j].val \in Int \cup {NoVal}
    BY <1>1, <2>1 DEF Section
  <2> QED BY <2>2 DEF Mixtures
<1>3. \A m \in Switch : values(m) \subseteq Int
  BY <1>2
<1>4. /\ n \in [Switch -> UNION {values(m) : m \in Switch}]
      /\ \A m \in Switch : n[m] \in values(m)
  BY DEF GarbledReads
<1>5. n \in [Switch -> Int]
  BY <1>3, <1>4
<1>6. ASSUME WebcamFirst(f), ChosenFile(f), old["webcam"] \in Given("webcam")
      PROVE  n["webcam"] \in Given("webcam")
  <2>1. CASE n["webcam"] = old["webcam"]
    BY <1>6, <2>1
  <2>2. CASE \E i \in at("webcam") : n["webcam"] \in Mixtures(f, i)
    <3>1. PICK i \in at("webcam") : n["webcam"] \in Mixtures(f, i)
      BY <2>2
    <3>2. i = 1 /\ f[i].mode = "webcam" /\ i \in DOMAIN f
      BY <1>6, <3>1 DEF WebcamFirst
    <3>3. 1..(i - 1) = {}
      BY <3>2
    <3>4. n["webcam"] = f[i].val /\ f[i].val # NoVal
      BY <3>1, <3>3 DEF Mixtures
    <3> QED BY <1>6, <3>2, <3>4 DEF ChosenFile
  <2> QED BY <1>4, <2>1, <2>2 DEF Switch
<1> QED BY <1>5, <1>6

\* A choice only adds to what was chosen.
LEMMA ChooseAdds ==
  ASSUME FileTypeOK, NEW v, DOMAIN v \subseteq Mode, \A m \in DOMAIN v : v[m] \in Int, Choose(v)
  PROVE  /\ asked' \in [Mode -> SUBSET Int] /\ stray' = stray
         /\ \A m \in Mode : asked[m] \subseteq asked'[m]
         /\ \A m \in DOMAIN v : v[m] \in asked'[m]
BY DEF FileTypeOK, Choose

\* The file a phone writes, and the operator's: if every value is in the set
\* that a has for its mode, so is what the sections say.
LEMMA PhoneFileType ==
  ASSUME NEW v, \A m \in Switch : v[m] \in Int,
         NEW a, \A m \in Switch : v[m] \in a[m]
  PROVE  /\ PhoneFile(v) \in File /\ WebcamFirst(PhoneFile(v))
         /\ \A i \in DOMAIN PhoneFile(v) : /\ PhoneFile(v)[i].mode \in Mode
                                          /\ PhoneFile(v)[i].val \in a[PhoneFile(v)[i].mode]
<1>1. Sect("webcam", v["webcam"]) \in Section /\ Sect("fan", v["fan"]) \in Section
      /\ Sect("feed", v["feed"]) \in Section
  BY DEF Sect, Section, Mode, Switch
<1>2. PhoneFile(v) \in File
  BY <1>1 DEF PhoneFile, File
<1>3. DOMAIN PhoneFile(v) = 1..3
  BY DEF PhoneFile
<1>4. /\ PhoneFile(v)[1] = Sect("webcam", v["webcam"])
      /\ PhoneFile(v)[2] = Sect("fan", v["fan"])
      /\ PhoneFile(v)[3] = Sect("feed", v["feed"])
  BY DEF PhoneFile
<1> QED BY <1>2, <1>3, <1>4 DEF Sect, Switch, Mode, WebcamFirst

LEMMA FullFileType ==
  ASSUME NEW v \in [Mode -> Int], NEW a, \A m \in Mode : v[m] \in a[m]
  PROVE  /\ FullFile(v) \in File /\ WebcamFirst(FullFile(v))
         /\ \A i \in DOMAIN FullFile(v) : FullFile(v)[i].val \in a[FullFile(v)[i].mode]
<1>1. Sect("car", v["car"]) \in Section
  BY DEF Sect, Section, Mode
<1>2. /\ PhoneFile(v) \in File /\ WebcamFirst(PhoneFile(v))
      /\ \A i \in DOMAIN PhoneFile(v) : PhoneFile(v)[i].val \in a[PhoneFile(v)[i].mode]
  BY PhoneFileType DEF Mode
<1>3. /\ FullFile(v) \in Seq(Section) /\ Len(FullFile(v)) = Len(PhoneFile(v)) + 1
      /\ \A i \in 1..Len(PhoneFile(v)) : FullFile(v)[i] = PhoneFile(v)[i]
      /\ FullFile(v)[Len(PhoneFile(v)) + 1] = Sect("car", v["car"])
  BY <1>1, <1>2, AppendProperties DEF FullFile, File
<1>4. Len(PhoneFile(v)) \in Nat /\ DOMAIN PhoneFile(v) = 1..Len(PhoneFile(v))
      /\ DOMAIN FullFile(v) = 1..(Len(PhoneFile(v)) + 1)
  BY <1>2, <1>3, LenProperties DEF File
<1> QED BY <1>2, <1>3, <1>4 DEF File, Sect, Mode, WebcamFirst

\* What has an origin keeps it while origins are only added.
LEMMA ChosenGrows ==
  ASSUME FileTypeOK, \A m \in Mode : Given(m) \subseteq Given(m)'
  PROVE  /\ \A f \in File : ChosenFile(f) => \A i \in DOMAIN f :
               f[i].val = NoVal \/ f[i].val \in Given(f[i].mode)'
         /\ \A c : ChosenCtrl(c) => /\ \A m \in Switch : c[m] \in Given(m)'
                                    /\ c["car"] \in Given("car")' \cup Given("feed")'
<1>1. ASSUME NEW f \in File, ChosenFile(f), NEW i \in DOMAIN f
      PROVE  f[i].val = NoVal \/ f[i].val \in Given(f[i].mode)'
  <2>1. f[i] \in Section
    BY ElementOfSeq, LenProperties DEF File
  <2> QED BY <1>1, <2>1 DEF ChosenFile, Section, Given
<1>2. ASSUME NEW c, ChosenCtrl(c)
      PROVE  /\ \A m \in Switch : c[m] \in Given(m)'
             /\ c["car"] \in Given("car")' \cup Given("feed")'
  BY <1>2 DEF ChosenCtrl, Mode, Switch, Given
<1> QED BY <1>1, <1>2

\* What a step of a person has to show: the daemon's part stays, origins are
\* only added, none under the camera or the car but what was chosen there, and
\* what it leaves in the published file and the phones has one.
LEMMA PeopleStepInv ==
  ASSUME Inv, UNCHANGED serverVars, PhoneTypeOK',
         asked' \in [Mode -> SUBSET Int], \A m \in Mode : asked[m] \subseteq asked'[m],
         stray' \in [Mode -> SUBSET Int], \A m \in Mode : stray[m] \subseteq stray'[m],
         stray'["webcam"] = {}, stray'["car"] = {},
         remote' \in File, ChosenFile(remote)', WebcamFirst(remote'),
         \A p \in Phones : \A m \in Switch : g'[p][m] \in Given(m)'
  PROVE  Inv'
<1>1. ServerTypeOK' /\ KnownMotion' /\ OpenFile'
  BY DEF Inv, TypeOK, ServerTypeOK, KnownMotion, OpenFile, serverVars, daemonVars, deviceVars, hostVars
<1>2. /\ local' = local /\ rest' = rest /\ cur' = cur /\ last' = last
      /\ local \in File /\ rest \in File
  BY DEF Inv, TypeOK, ServerTypeOK, serverVars, daemonVars
<1>3. \A m \in Mode : Given(m) \subseteq Given(m)'
  BY DEF Given
<1>4. ChosenFile(local)' /\ ChosenFile(rest)' /\ ChosenCtrl(cur)' /\ ChosenCtrl(last)'
  <2>1. /\ ChosenFile(local) /\ ChosenFile(rest) /\ ChosenCtrl(cur) /\ ChosenCtrl(last)
        /\ FileTypeOK
    BY DEF Inv, TypeOK, Chosen
  <2> QED BY <1>2, <1>3, <2>1, ChosenGrows DEF ChosenFile, ChosenCtrl
<1>5. \A m \in Mode : OFF \in Given(m)'
  BY <1>3 DEF Inv, Chosen
<1> QED BY <1>1, <1>4, <1>5 DEF Inv, TypeOK, FileTypeOK, Chosen, Unspoiled, WebcamFirst

\* A step that leaves all histories and the published file alone, for the new
\* values v of one phone.
LEMMA PhoneSets ==
  ASSUME Inv, UNCHANGED <<fileVars, serverVars>>, PhoneTypeOK', NEW p \in Phones,
         NEW v, \A m \in Switch : v[m] \in Given(m), g' = [g EXCEPT ![p] = v]
  PROVE  Inv'
<1>1. \A q \in Phones : \A m \in Switch : g'[q][m] \in Given(m)
  BY DEF Inv, TypeOK, PhoneTypeOK, Chosen
<1>2. /\ remote \in File /\ asked \in [Mode -> SUBSET Int] /\ stray \in [Mode -> SUBSET Int]
      /\ ChosenFile(remote)' /\ stray["webcam"] = {} /\ stray["car"] = {} /\ WebcamFirst(remote)
  BY DEF Inv, TypeOK, FileTypeOK, Chosen, ChosenFile, Unspoiled, fileVars, Given
<1>3. \A q \in Phones : \A m \in Switch : g'[q][m] \in Given(m)'
  BY <1>1 DEF Given, fileVars
<1> QED BY <1>2, <1>3, PeopleStepInv DEF fileVars

\* Downloading and reading, and the end of the application.
LEMMA DownloadInv ==
  ASSUME Inv, NEW p \in Phones, NEW old \in [Switch -> Int],
         \A m \in Switch : old[m] \in Given(m), DownloadAndRead(p, old),
         UNCHANGED <<edits, remote, asked, serverVars>>
  PROVE  Inv'
<1> USE DEF Inv, TypeOK, FileTypeOK, PhoneTypeOK
<1>1. CASE Ends(p) /\ UNCHANGED <<shorts, stray>>
  <2>1. AllOff \in [Switch -> Int] /\ \A m \in Switch : AllOff[m] \in Given(m)
    BY DEF AllOff, OFF, Chosen, Mode
  <2>2. PhoneTypeOK' /\ g' = [g EXCEPT ![p] = AllOff]
    BY <1>1, <2>1 DEF Ends
  <2>3. UNCHANGED fileVars
    BY <1>1 DEF fileVars
  <2> QED BY <2>1, <2>2, <2>3, PhoneSets
<1>2. ASSUME NEW f \in Cuts(remote), Readable(f), g' = [g EXCEPT ![p] = ReadControlFile(old, f)],
             app' = [app EXCEPT ![p] = "idle"], UNCHANGED <<shorts, stray>>
      PROVE  Inv'
  <2> DEFINE new == ReadControlFile(old, f)
  <2>1. f \in File /\ ChosenFile(f)
    BY CutsAreFiles DEF Chosen
  <2>2. new \in [Switch -> Int] /\ \A m \in Switch : new[m] \in Given(m)
    BY <1>2, <2>1, ReadControlFileType
  <2>3. g' = [g EXCEPT ![p] = new]
    BY <1>2
  <2> HIDE DEF new
  <2>4. PhoneTypeOK'
    BY <1>2, <2>2, <2>3
  <2>5. UNCHANGED fileVars
    BY <1>2 DEF fileVars
  <2> QED BY <2>2, <2>3, <2>4, <2>5, PhoneSets
<1>3. ASSUME shorts < MaxShort, shorts' = shorts + 1,
             NEW n \in GarbledReads(old, remote), g' = [g EXCEPT ![p] = n],
             stray' = [m \in Mode |->
                         IF m \in Switch THEN stray[m] \cup ({n[m]} \ asked[m]) ELSE stray[m]],
             app' = [app EXCEPT ![p] = "idle"]
      PROVE  Inv'
  <2>1. /\ remote \in File /\ ChosenFile(remote) /\ WebcamFirst(remote)
        /\ stray["webcam"] = {} /\ stray["car"] = {}
    BY DEF Chosen, Unspoiled
  <2>2. "webcam" \in Switch /\ old["webcam"] \in Given("webcam")
    BY DEF Switch
  <2>3. n \in [Switch -> Int] /\ n["webcam"] \in Given("webcam")
    BY <2>1, <2>2, GarbledReadsType
  <2>4. n["webcam"] \in asked["webcam"]
    BY <2>1, <2>3 DEF Given
  <2>5. stray'["webcam"] = {} /\ stray'["car"] = {}
    BY <1>3, <2>1, <2>4 DEF Mode, Switch
  <2>6. stray' \in [Mode -> SUBSET Int] /\ \A m \in Mode : stray[m] \subseteq stray'[m]
    BY <1>3, <2>3
  <2>7. PhoneTypeOK'
    BY <1>3, <2>3, PhoneAssumption
  <2>8. \A m \in Mode : Given(m) \subseteq Given(m)'
    BY <2>6 DEF Given
  <2>9. \A m \in Switch : n[m] \in Given(m)'
    BY <1>3 DEF Given, Mode
  <2>10. \A q \in Phones : \A m \in Switch : g'[q][m] \in Given(m)'
    <3>1. \A q \in Phones : g'[q] = IF q = p THEN n ELSE g[q]
      BY <1>3
    <3> QED BY <2>8, <2>9, <3>1 DEF Chosen, Mode
  <2>11. ChosenFile(remote)'
    BY <2>1, <2>8, ChosenGrows DEF ChosenFile
  <2> QED BY <2>1, <2>5, <2>6, <2>7, <2>10, <2>11, PeopleStepInv
<1> QED BY <1>1, <1>2, <1>3 DEF DownloadAndRead

\* A phone leaves a file with an origin, the values and the histories as they
\* are.
LEMMA UploadInv ==
  ASSUME Inv, UNCHANGED <<g, edits, shorts, asked, stray, serverVars>>, PhoneTypeOK',
         remote' \in File, ChosenFile(remote'), WebcamFirst(remote')
  PROVE  Inv'
<1>1. ChosenFile(remote)'
  BY DEF ChosenFile, Given
<1>2. \A q \in Phones : \A m \in Switch : g'[q][m] \in Given(m)'
  BY DEF Inv, Chosen, Given
<1> QED BY <1>1, <1>2, PeopleStepInv DEF Inv, TypeOK, FileTypeOK, Unspoiled

\* A phone's step, and the operator's.
LEMMA PhoneInv ==
  ASSUME Inv, NEW p \in Phones, PhoneStep(p), UNCHANGED serverVars
  PROVE  Inv'
<1> USE DEF Inv, TypeOK, FileTypeOK, PhoneTypeOK
<1>1. AllOff \in [Switch -> Int] /\ \A m \in Switch : AllOff[m] \in Given(m)
  BY DEF AllOff, OFF, Chosen, Mode
<1>2. g[p] \in [Switch -> Int] /\ \A m \in Switch : g[p][m] \in Given(m)
  BY DEF Chosen
<1>3. ASSUME Ends(p), UNCHANGED <<edits, shorts, fileVars>>
      PROVE  Inv'
  <2>1. PhoneTypeOK' /\ g' = [g EXCEPT ![p] = AllOff]
    BY <1>1, <1>3 DEF Ends
  <2> QED BY <1>1, <1>3, <2>1, PhoneSets
<1>4. CASE OnCreate(p)
  BY <1>1, <1>4, DownloadInv DEF OnCreate
<1>5. CASE Update(p)
  BY <1>2, <1>5, DownloadInv DEF Update
<1>6. CASE Close(p)
  BY <1>3, <1>6 DEF Close
<1>7. PhoneFile(g[p]) \in File /\ ChosenFile(PhoneFile(g[p])) /\ WebcamFirst(PhoneFile(g[p]))
  <2> DEFINE given == [m \in Mode |-> Given(m)]
  <2>1. \A m \in Switch : g[p][m] \in Int /\ g[p][m] \in given[m]
    BY <1>2 DEF Mode
  <2>2. \A m \in Mode : given[m] = Given(m)
    OBVIOUS
  <2> HIDE DEF given
  <2>3. /\ PhoneFile(g[p]) \in File /\ WebcamFirst(PhoneFile(g[p]))
        /\ \A i \in DOMAIN PhoneFile(g[p]) : /\ PhoneFile(g[p])[i].mode \in Mode
                                            /\ PhoneFile(g[p])[i].val \in given[PhoneFile(g[p])[i].mode]
    BY <2>1, PhoneFileType
  <2> QED BY <2>2, <2>3 DEF ChosenFile
<1>8. CASE FtpConnect(p)
  <2>1. CASE Ends(p) /\ remote' = remote
    BY <1>3, <1>8, <2>1 DEF FtpConnect, fileVars
  <2>2. CASE app' = [app EXCEPT ![p] = "store"] /\ remote' = <<>> /\ g' = g
    <3>1. <<>> \in File /\ ChosenFile(<<>>) /\ WebcamFirst(<<>>)
      BY EmptySeq DEF File, ChosenFile, WebcamFirst
    <3>2. PhoneTypeOK' /\ UNCHANGED <<edits, shorts, asked, stray>>
      BY <1>8, <2>2 DEF FtpConnect
    <3> QED BY <2>2, <3>1, <3>2, UploadInv
  <2>3. CASE app' = [app EXCEPT ![p] = "idle"] /\ remote' = remote /\ g' = g
    <3>1. PhoneTypeOK' /\ UNCHANGED <<edits, shorts, asked, stray>>
      BY <1>8, <2>3 DEF FtpConnect
    <3> QED BY <2>3, <3>1, UploadInv DEF Chosen, Unspoiled
  <2> QED BY <1>8, <2>1, <2>2, <2>3 DEF FtpConnect
<1>9. CASE StoreFile(p)
  <2>1. UNCHANGED <<edits, shorts, asked, stray>>
    BY <1>9 DEF StoreFile
  <2>2. CASE remote' = remote /\ Ends(p)
    BY <1>3, <2>1, <2>2 DEF fileVars
  <2>3. CASE app' = [app EXCEPT ![p] = "idle"] /\ g' = g /\ remote' \in {remote, PhoneFile(g[p])}
    <3>1. PhoneTypeOK'
      BY <2>1, <2>3
    <3>2. remote' \in File /\ ChosenFile(remote') /\ WebcamFirst(remote')
      BY <1>7, <2>3 DEF Chosen, Unspoiled
    <3> QED BY <2>1, <2>3, <3>1, <3>2, UploadInv
  <2> QED BY <1>9, <2>2, <2>3 DEF StoreFile
<1>10. CASE StorePart(p)
  <2>1. remote' \in File /\ ChosenFile(remote') /\ WebcamFirst(remote')
    BY <1>7, <1>10, CutsAreFiles DEF StorePart
  <2>2. UNCHANGED <<app, g, edits, shorts, asked, stray>>
    BY <1>10 DEF StorePart
  <2> QED BY <2>1, <2>2, UploadInv
<1>11. ASSUME NEW m \in Switch, Toggle(p, m)
       PROVE  Inv'
  <2> DEFINE value == IF g[p][m] = ON THEN OFF ELSE ON
             v == [n \in {m} |-> value]
  <2>1. value \in Int /\ DOMAIN v \subseteq Mode /\ \A n \in DOMAIN v : v[n] \in Int
    BY DEF ON, OFF, Mode
  <2>2. /\ g' = [g EXCEPT ![p][m] = value] /\ Choose(v)
        /\ app' = [app EXCEPT ![p] = "connect"]
        /\ edits < MaxEdits /\ edits' = edits + 1 /\ UNCHANGED <<remote, shorts>>
    BY <1>11 DEF Toggle
  <2>3. /\ asked' \in [Mode -> SUBSET Int] /\ stray' = stray
        /\ \A n \in Mode : asked[n] \subseteq asked'[n]
        /\ v[m] \in asked'[m]
    BY <2>1, <2>2, ChooseAdds
  <2>4. v[m] = value
    OBVIOUS
  <2> HIDE DEF value, v
  <2>5. PhoneTypeOK'
    BY <2>1, <2>2, PhoneAssumption
  <2>6. \A n \in Mode : Given(n) \subseteq Given(n)'
    BY <2>3 DEF Given
  <2>7. value \in Given(m)'
    BY <2>3, <2>4 DEF Given
  <2>8. \A q \in Phones : \A n \in Switch : g'[q][n] \in Given(n)'
    BY <2>2, <2>6, <2>7 DEF Chosen, Mode
  <2>9. ChosenFile(remote)'
    BY <2>2, <2>6, ChosenGrows DEF Chosen, ChosenFile
  <2> QED BY <2>2, <2>3, <2>5, <2>8, <2>9, PeopleStepInv DEF Unspoiled
<1> QED BY <1>4, <1>5, <1>6, <1>8, <1>9, <1>10, <1>11 DEF PhoneStep

LEMMA OperatorInv ==
  ASSUME Inv, OperatorEdit, UNCHANGED serverVars
  PROVE  Inv'
<1> USE DEF Inv, TypeOK, FileTypeOK, PhoneTypeOK
<1>1. PICK v \in OperatorChoices : remote' = FullFile(v) /\ Choose(v)
  BY DEF OperatorEdit
<1>2. v \in [Mode -> Int]
  BY OperatorAssumption
<1>3. /\ asked' \in [Mode -> SUBSET Int] /\ stray' = stray
      /\ \A m \in Mode : asked[m] \subseteq asked'[m]
      /\ \A m \in Mode : v[m] \in asked'[m]
  BY <1>1, <1>2, ChooseAdds
<1>4. /\ FullFile(v) \in File /\ WebcamFirst(FullFile(v))
      /\ \A i \in DOMAIN FullFile(v) : FullFile(v)[i].val \in asked'[FullFile(v)[i].mode]
  BY <1>2, <1>3, FullFileType
<1>5. ChosenFile(remote)'
  BY <1>1, <1>4 DEF ChosenFile, Given
<1>6. PhoneTypeOK'
  BY PhoneAssumption DEF OperatorEdit
<1>7. \A p \in Phones : \A m \in Switch : g'[p][m] \in Given(m)'
  BY <1>3 DEF OperatorEdit, Chosen, Mode, Given
<1> QED BY <1>1, <1>3, <1>4, <1>5, <1>6, <1>7, PeopleStepInv DEF Unspoiled

-----------------------------------------------------------------------------
\* Every step of the system keeps the invariant.
LEMMA NextInv == Inv /\ [Next]_vars => Inv'
<1> SUFFICES ASSUME Inv, [Next]_vars PROVE Inv'
  OBVIOUS
<1>1. CASE ServerNext /\ UNCHANGED phoneVars
  BY <1>1, DaemonInv, SurroundingsInv DEF ServerNext, fileVars
<1>2. CASE People
  BY <1>2, PhoneInv, OperatorInv DEF People
<1>3. CASE UNCHANGED vars
  <2>1. UNCHANGED <<fileVars, phoneVars, serverVars>> /\ UNCHANGED <<remote, asked, stray>>
    BY <1>3 DEF vars, fileVars
  <2>2. PhoneTypeOK' /\ UNCHANGED <<g, edits, shorts>>
    BY <2>1 DEF phoneVars, Inv, TypeOK, PhoneTypeOK
  <2> QED BY <2>1, <2>2, UploadInv DEF Inv, TypeOK, FileTypeOK, Chosen, Unspoiled
<1> QED BY <1>1, <1>2, <1>3 DEF Next

LEMMA InvHolds == Spec => []Inv
BY InitInv, NextInv, PTL DEF Spec

\* In every execution, with any number of phones and choices of the operator
\* and however often copies, mounts, uploads and downloads fail, the variables
\* keep their types: in particular no missing value line (NoVal) ever gets
\* into cur_ctrl, last_ctrl or a phone's cached values.
THEOREM Typing == Spec => []TypeOK
<1>1. Inv => TypeOK
  BY DEF Inv
<1> QED BY <1>1, InvHolds, PTL

\* For the camera the daemon acts only on what a person chose for it, however
\* many downloads are garbled and uploads cut; for the fan, feeding and the car
\* also on what a garbled download put there: see Commanded in ControlSystem.
THEOREM CommandsAreChosen == Spec => []Commanded
<1>1. Inv => Commanded
  BY DEF Inv, Chosen, ChosenCtrl, Unspoiled, Given, Commanded, Switch
<1> QED BY <1>1, InvHolds, PTL

-----------------------------------------------------------------------------
(***************************************************************************)
(* The round of the daemon and the pins.  RoundSettled, StoppedWhenStopped *)
(* and PinsSweep each speak of some places of the loop; between them, what *)
(* has been compared so far is settled, and outside the four writes the    *)
(* pins show the motion the daemon remembers.                              *)
(***************************************************************************)

\* The comparisons that are over when the loop stands at pc.
Compared ==
  CASE pc = "fan"  -> {"webcam"}
    [] pc = "feed" -> {"webcam", "fan"}
    [] pc = "car"  -> {"webcam", "fan", "feed"}
    [] pc = "pins" -> {"webcam", "fan", "feed"}
    [] pc \in {"download", "sleep", "load"} -> Mode
    [] OTHER -> {}

Settled == \A m \in Compared : last[m] = cur[m]

PinsShown ==
  pc # "pins" =>
    /\ pin = 1
    /\ last["car"] \in CarCode \ {0} => pins = CarPins[last["car"]]
    /\ faults = 0 /\ last["car"] = 0 => pins = CarPins[0]

MotionInv == Inv /\ Settled /\ PinsShown /\ PinsSweep

LEMMA CarPinsFunction ==
  ASSUME NEW c \in CarCode
  PROVE  CarPins[c] \in [PinNo -> {0, 1}]
BY DEF CarPins, CarCode, PinNo

\* The daemon's part of the state, while only others move.
LEMMA MotionFrame ==
  ASSUME Settled, PinsShown, PinsSweep,
         UNCHANGED <<pc, cur, last, pin, pins, faults>>
  PROVE  Settled' /\ PinsShown' /\ PinsSweep'
BY DEF Settled, Compared, PinsShown, PinsSweep

LEMMA DaemonMotion ==
  ASSUME MotionInv, Daemon
  PROVE  Settled' /\ PinsShown' /\ PinsSweep'
<1> USE DEF MotionInv, Settled, Compared
<1>1. /\ cur \in [Mode -> Int] /\ last \in [Mode -> Int]
      /\ pins \in [PinNo -> {0, 1}] /\ pin \in PinNo
  BY DEF Inv, TypeOK, ServerTypeOK, Ctrl
<1>2. CASE DownloadConfigFile \/ Sleep \/ OpenConfig
  <2>1. /\ pc \in {"download", "sleep", "load"} /\ pc' \in {"sleep", "load", "parse", "webcam"}
        /\ UNCHANGED <<cur, last, pin, pins, faults>>
    BY <1>2 DEF DownloadConfigFile, Sleep, OpenConfig, Fopen, deviceVars
  <2> QED BY <2>1 DEF PinsShown, PinsSweep
<1>3. CASE ParseSection \/ ParseFails \/ ParseDone
  <2>1. /\ pc = "parse" /\ pc' \in {"parse", "webcam"}
        /\ UNCHANGED <<last, pin, pins, faults>>
    BY <1>3 DEF ParseSection, ParseFails, ParseDone, deviceVars
  <2> QED BY <2>1 DEF PinsShown, PinsSweep
<1>4. ASSUME NEW m \in Switch, NEW q \in {"fan", "feed", "car"},
             Compared \cup {m} = Compared', pc # "pins", pc' = q,
             last' = [last EXCEPT ![m] = cur[m]], UNCHANGED <<cur, pin, pins, faults>>
      PROVE  Settled' /\ PinsShown' /\ PinsSweep'
  <2>1. last'["car"] = last["car"]
    BY <1>1, <1>4 DEF Switch, Mode
  <2>2. \A n \in Compared' : last'[n] = cur'[n]
    <3>1. \A n \in Compared \cup {m} : n \in Mode
      BY <1>4 DEF Mode, Switch
    <3>2. \A n \in Compared : last[n] = cur[n]
      OBVIOUS
    <3>3. \A n \in Compared \cup {m} : last'[n] = cur'[n]
      BY <1>1, <1>4, <3>1, <3>2
    <3> QED BY <1>4, <3>3
  <2>3. pc' # "pins"
    BY <1>4
  <2> HIDE DEF Compared
  <2> QED BY <1>4, <2>1, <2>2, <2>3 DEF PinsShown, PinsSweep
<1>5. CASE UpdateWebcam
  <2>1. last' = [last EXCEPT !["webcam"] = cur["webcam"]]
    BY <1>1, <1>5 DEF UpdateWebcam, Mode, Switch
  <2>2. /\ pc = "webcam" /\ pc' = "fan" /\ UNCHANGED <<cur, pin, pins, faults>>
        /\ Compared \cup {"webcam"} = Compared'
    BY <1>5 DEF UpdateWebcam
  <2> QED BY <1>4, <2>1, <2>2 DEF Switch
<1>6. CASE UpdateFan
  <2>1. /\ pc = "fan" /\ pc' = "feed" /\ UNCHANGED <<cur, pin, pins, faults>>
        /\ last' = [last EXCEPT !["fan"] = cur["fan"]]
        /\ Compared \cup {"fan"} = Compared'
    BY <1>6 DEF UpdateFan, UpdatePrinted, deviceVars
  <2> QED BY <1>4, <2>1 DEF Switch
<1>7. CASE UpdateFeed
  <2>1. /\ pc = "feed" /\ pc' = "car" /\ UNCHANGED <<cur, pin, pins, faults>>
        /\ last' = [last EXCEPT !["feed"] = cur["feed"]]
        /\ Compared \cup {"feed"} = Compared'
    BY <1>7 DEF UpdateFeed, UpdatePrinted, deviceVars
  <2> QED BY <1>4, <2>1 DEF Switch
<1>8. CASE UpdateCar /\ pc' = "pins"
  <2>1. pc = "car" /\ UNCHANGED <<cur, last, pin, pins, faults>> /\ pin = 1
    BY <1>8 DEF UpdateCar, deviceVars, PinsShown
  <2> QED BY <1>8, <2>1 DEF PinsShown, PinsSweep, PinNo
<1>9. CASE UpdateCar /\ pc' # "pins"
  <2>1. /\ pc = "car" /\ pc' = "download" /\ UNCHANGED <<cur, pin, pins, faults>>
        /\ last' = [last EXCEPT !["car"] = cur["car"]]
        /\ cur["car"] = last["car"] \/ cur["car"] \notin CarCode
    BY <1>9 DEF UpdateCar, deviceVars
  <2>2. last'["car"] = cur["car"] /\ \A m \in Mode : last'[m] = cur'[m]
    BY <1>1, <2>1 DEF Mode, Switch
  <2>3. 0 \in CarCode
    BY DEF CarCode
  <2> QED BY <2>1, <2>2, <2>3 DEF PinsShown, PinsSweep
<1>10. CASE WritePin
  <2>1. /\ pc = "pins" /\ UNCHANGED <<cur, faults>>
        /\ cur["car"] \in CarCode
        /\ pins' = [pins EXCEPT ![pin] = CarPins[cur["car"]][pin]]
    BY <1>10 DEF WritePin, Inv, KnownMotion
  <2>2. CarPins[cur["car"]] \in [PinNo -> {0, 1}]
    BY <2>1, CarPinsFunction
  <2>3. \A i \in PinNo : i <= pin => pins'[i] = CarPins[cur["car"]][i]
    BY <1>1, <2>1, <2>2 DEF PinsSweep, PinNo
  <2>4. \A i \in PinNo : i > pin => pins'[i] = pins[i]
    BY <1>1, <2>1 DEF PinNo
  <2>5. CASE pin < 4
    <3>1. pc' = pc /\ last' = last /\ pin' = pin + 1
      BY <1>10, <2>5 DEF WritePin
    <3> QED BY <1>1, <2>1, <2>3, <2>4, <3>1 DEF PinsShown, PinsSweep, PinNo
  <2>6. CASE ~ (pin < 4)
    <3>1. pc' = "download" /\ last' = [last EXCEPT !["car"] = cur["car"]] /\ pin' = 1
      BY <1>10, <2>6 DEF WritePin
    <3>2. pins' = CarPins[cur["car"]]
      <4>1. \A i \in PinNo : pins'[i] = CarPins[cur["car"]][i]
        BY <1>1, <2>3, <2>6 DEF PinNo
      <4>2. pins' \in [PinNo -> {0, 1}]
        BY <1>1, <2>1, <2>2
      <4> QED BY <2>2, <4>1, <4>2
    <3>3. last'["car"] = cur["car"] /\ \A m \in Mode : last'[m] = cur'[m]
      BY <1>1, <2>1, <3>1 DEF Mode, Switch
    <3> QED BY <2>1, <3>1, <3>2, <3>3 DEF PinsShown, PinsSweep
  <2> QED BY <2>5, <2>6
<1> QED
  BY <1>2, <1>3, <1>5, <1>6, <1>7, <1>8, <1>9, <1>10 DEF Daemon

LEMMA MotionNext == MotionInv /\ [Next]_vars => MotionInv'
<1> SUFFICES ASSUME MotionInv, [Next]_vars PROVE MotionInv'
  OBVIOUS
<1>1. Inv'
  BY NextInv DEF MotionInv
<1>2. CASE Daemon
  BY <1>1, <1>2, DaemonMotion DEF MotionInv
<1>3. CASE Restart
  <2>1. /\ pc' = "download" /\ cur' = Zero /\ last' = Zero /\ pin' = 1
        /\ faults' = faults + 1
    BY <1>3 DEF Restart
  <2>2. faults' # 0
    BY <2>1, DaemonAssumption DEF MotionInv, Inv, TypeOK, ServerTypeOK
  <2>3. Zero["car"] = 0
    BY DEF Zero, Mode
  <2> QED BY <1>1, <2>1, <2>2, <2>3 DEF MotionInv, Settled, PinsShown, PinsSweep
<1>4. CASE StreamerDies
  <2>1. UNCHANGED <<pc, cur, last, pin, pins>> /\ faults' = faults + 1
    BY <1>4 DEF StreamerDies, daemonVars
  <2>2. faults' # 0
    BY <2>1, DaemonAssumption DEF MotionInv, Inv, TypeOK, ServerTypeOK
  <2> QED BY <1>1, <2>1, <2>2 DEF MotionInv, Settled, Compared, PinsShown, PinsSweep
<1>5. CASE Boot \/ HostDown \/ HostBack \/ People \/ UNCHANGED vars
  <2>1. UNCHANGED <<pc, cur, last, pin, pins, faults>>
    BY <1>5 DEF Boot, HostDown, HostBack, People, vars, serverVars, daemonVars, deviceVars
  <2> QED BY <1>1, <2>1, MotionFrame DEF MotionInv
<1> QED BY <1>2, <1>3, <1>4, <1>5 DEF Next, ServerNext, Surroundings

LEMMA MotionHolds == Spec => []MotionInv
<1>1. Init => MotionInv
  <2> SUFFICES ASSUME Init PROVE MotionInv
    OBVIOUS
  <2>1. /\ pc = "download" /\ pin = 1 /\ cur = last /\ last["car"] = 0
        /\ pins = CarPins[0]
    BY DEF Init, ServerInit, Zero, Mode
  <2>2. Settled /\ PinsShown /\ PinsSweep
    BY <2>1 DEF Settled, PinsShown, PinsSweep
  <2> QED BY <2>2, InitInv DEF MotionInv
<1> QED BY <1>1, MotionNext, PTL DEF Spec

\* After every round the daemon has acted on all it parsed, and the pins show
\* the motion it remembers, whatever was interrupted by a restart before.
THEOREM RoundsSettle == Spec => []RoundSettled
<1>1. MotionInv => RoundSettled
  <2> SUFFICES ASSUME MotionInv, pc \in {"download", "sleep", "load"}
               PROVE  last = cur /\ (last["car"] \in CarCode \ {0} => pins = CarPins[last["car"]])
    BY DEF RoundSettled
  <2>1. cur \in [Mode -> Int] /\ last \in [Mode -> Int]
    BY DEF MotionInv, Inv, TypeOK, ServerTypeOK, Ctrl
  <2>2. \A m \in Mode : last[m] = cur[m]
    BY DEF MotionInv, Settled, Compared
  <2> QED BY <2>1, <2>2 DEF MotionInv, PinsShown
<1> QED BY <1>1, MotionHolds, PTL

\* A daemon that was never restarted and remembers a stop has stopped the car.
THEOREM StopsAreShown == Spec => []StoppedWhenStopped
<1>1. MotionInv => StoppedWhenStopped
  BY DEF MotionInv, PinsShown, StoppedWhenStopped
<1> QED BY <1>1, MotionHolds, PTL

\* While the four pins are written they hold a front of the new pattern and
\* the tail of the old one.
THEOREM PinsAreSwept == Spec => []PinsSweep
<1>1. MotionInv => PinsSweep
  BY DEF MotionInv
<1> QED BY <1>1, MotionHolds, PTL

-----------------------------------------------------------------------------
(***************************************************************************)
(* The streamer.  When the sleep covers start.sh, no start is under way    *)
(* from the end of the sleep to the comparison, where alone a stop can     *)
(* meet it.                                                                *)
(***************************************************************************)

NoStartUnderWay ==
  faults = 0 /\ SleepCoversBoot /\ pc \in {"load", "parse", "webcam"} => streamer # "starting"

LEMMA StreamerNext ==
  ASSUME Inv, StreamerShown, NoStartUnderWay, [Next]_vars
  PROVE  StreamerShown' /\ NoStartUnderWay'
<1> USE DEF StreamerShown, NoStartUnderWay
<1>0. last \in [Mode -> Int] /\ streamer \in {"off", "starting", "on"} /\ faults \in Nat
  BY DaemonAssumption DEF Inv, TypeOK, ServerTypeOK, Ctrl
<1>1. CASE DownloadConfigFile \/ Sleep \/ OpenConfig \/ ParseSection \/ ParseFails \/ ParseDone
  <2>1. /\ UNCHANGED <<last, streamer, faults>>
        /\ pc' \in {"load", "parse", "webcam"} =>
             pc \in {"load", "parse", "webcam"} \/ (SleepCoversBoot => streamer # "starting")
    BY <1>1 DEF DownloadConfigFile, Sleep, OpenConfig, Fopen, ParseSection, ParseFails, ParseDone,
                deviceVars
  <2> QED BY <2>1
<1>2. CASE UpdateWebcam
  <2>1. /\ pc = "webcam" /\ pc' = "fan" /\ faults' = faults
        /\ IF cur["webcam"] # last["webcam"]
           THEN streamer' = WebcamOperation(cur["webcam"]) /\ last'["webcam"] = cur["webcam"]
           ELSE UNCHANGED <<streamer, last>>
    BY <1>0, <1>2 DEF UpdateWebcam, Mode, Switch
  <2>2. CASE cur["webcam"] # last["webcam"]
    BY <1>0, <2>1, <2>2 DEF WebcamOperation, ON, OFF
  <2> QED BY <2>1, <2>2
<1>3. CASE UpdateFan \/ UpdateFeed \/ UpdateCar \/ WritePin
  <2>1. /\ UNCHANGED <<streamer, faults>> /\ pc' \notin {"load", "parse", "webcam"}
        /\ last'["webcam"] = last["webcam"]
    BY <1>0, <1>3 DEF UpdateFan, UpdateFeed, UpdatePrinted, UpdateCar, WritePin, deviceVars, Mode,
                      Switch
  <2> QED BY <2>1
<1>4. CASE Restart \/ StreamerDies
  BY <1>0, <1>4 DEF Restart, StreamerDies
<1>5. CASE Boot
  BY <1>5 DEF Boot, daemonVars, ON, OFF
<1>6. CASE HostDown \/ HostBack \/ People \/ UNCHANGED vars
  <2>1. UNCHANGED <<pc, last, streamer, faults>>
    BY <1>6 DEF HostDown, HostBack, People, vars, serverVars, daemonVars, deviceVars
  <2> QED BY <2>1
<1> QED BY <1>1, <1>2, <1>3, <1>4, <1>5, <1>6 DEF Next, ServerNext, Daemon, Surroundings

\* While nothing fails the daemon is never wrong about the streamer it
\* remembers to have started or stopped.
THEOREM StreamerIsShown == Spec => []StreamerShown
<1>1. Init => StreamerShown /\ NoStartUnderWay
  BY DEF Init, ServerInit, StreamerShown, NoStartUnderWay, Zero, Mode, Switch, ON
<1>2. Inv /\ (StreamerShown /\ NoStartUnderWay) /\ [Next]_vars
        => (StreamerShown /\ NoStartUnderWay)'
  BY StreamerNext
<1> QED BY <1>1, <1>2, InvHolds, PTL DEF Spec
=============================================================================
