------------------------------ MODULE PhoneApp ------------------------------
(***************************************************************************)
(* The first phone application (webcam_client): MainActivity with its      *)
(* three toggle buttons and Webcam, which keeps one cached value per       *)
(* button, downloads the published control file over HTTP and overwrites   *)
(* it over FTP.  Every handler runs on the user interface thread of its    *)
(* phone, so one phone does one thing at a time; two phones interleave.    *)
(*                                                                         *)
(* An exception no handler catches ends the application.  The file on the  *)
(* phone's card is written in full from the cached values right before     *)
(* each upload, so it is not kept apart from them.                         *)
(***************************************************************************)
EXTENDS ControlFile

CONSTANTS Phones,
          MaxEdits,   \* bound: decisions people take (presses, operator edits)
          MaxShort    \* bound: downloads that arrive in several short reads

ASSUME PhoneAssumption == MaxEdits \in Nat /\ MaxShort \in Nat

VARIABLES app,     \* app[p]: closed, idle, or where its upload stands
          g,       \* g[p]: g_webcam_ctrl, g_fan_ctrl, g_feed_ctrl
          edits,   \* decisions taken so far
          shorts   \* downloads in several short reads so far

phoneVars == <<app, g, edits, shorts>>

ON  == 1
OFF == 0

AllOff == [m \in Switch |-> OFF]

PhoneInit ==
  /\ app = [p \in Phones |-> "closed"]
  /\ g = [p \in Phones |-> AllOff]
  /\ edits = 0 /\ shorts = 0

\* The application ends and its Webcam object with it.
Ends(p) ==
  /\ app' = [app EXCEPT ![p] = "closed"]
  /\ g' = [g EXCEPT ![p] = AllOff]

\* Mutant: the branch of the fan compares with the keyword of feeding.
ReadFeedAsFan(old, f) ==
  [m \in Switch |->
     LET key == IF m = "fan" THEN "feed" ELSE m
         at  == {i \in DOMAIN f : f[i].mode = key} IN
     IF at = {} THEN old[m]
     ELSE f[Latest(at)].val]

\* readControlFile on the file f.  Sections of a mode the phone knows set its
\* value, a later one wins; any other line is passed over.
ReadControlFile(old, f) ==
  [m \in Switch |->
     LET at == {i \in DOMAIN f : f[i].mode = m} IN
     IF at = {} THEN old[m]
     ELSE f[Latest(at)].val]

\* The file parses: Integer.parseInt meets no missing value line under a
\* keyword the phone knows.
Readable(f) ==
  \A i \in DOMAIN f : f[i].mode \in Switch => f[i].val # NoVal

\* downloadControlFile writes its whole 256-byte buffer after every read, so
\* after a short one the bytes of earlier reads follow the new ones.  Under
\* the keyword of section i parseInt may then find the section's own value,
\* that of an earlier section (all that can be stale at that point), or the
\* digits of its own with those of an earlier one behind them.  Bound: an
\* earlier value joins only if it has one digit, as those people choose do.
Mixtures(f, i) ==
  LET own     == {f[i].val} \ {NoVal}
      earlier == {f[j].val : j \in 1..(i - 1)} \ {NoVal}
  IN own \cup earlier \cup {10 * v + w : v \in own, w \in earlier \cap 0..9}

\* What a phone may have after a download in short reads: each switch is set
\* from one of its sections, garbled or not, or not at all (it did not arrive
\* or its keyword line is broken).
GarbledReads(old, f) ==
  LET values(m) == {old[m]} \cup UNION {Mixtures(f, i) : i \in {j \in DOMAIN f : f[j].mode = m}}
  IN {n \in [Switch -> UNION {values(m) : m \in Switch}] : \A m \in Switch : n[m] \in values(m)}

\* downloadControlFile and readControlFile.  The transfer may end early and
\* may arrive in short reads.  A broken or missing value line, or a connection
\* that never opened, ends the application (NumberFormatException, close() of
\* a null stream).
DownloadAndRead(p, old) ==
  \/ \E f \in Cuts(remote) :
       /\ Readable(f)
       /\ g' = [g EXCEPT ![p] = ReadControlFile(old, f)]
       /\ app' = [app EXCEPT ![p] = "idle"]
       /\ UNCHANGED <<shorts, stray>>
  \/ /\ shorts < MaxShort /\ shorts' = shorts + 1
     /\ \E n \in GarbledReads(old, remote) :
          /\ g' = [g EXCEPT ![p] = n]
          /\ stray' = [m \in Mode |->
                         IF m \in Switch THEN stray[m] \cup ({n[m]} \ asked[m]) ELSE stray[m]]
     /\ app' = [app EXCEPT ![p] = "idle"]
  \/ Ends(p) /\ UNCHANGED <<shorts, stray>>

\* onCreate: a new Webcam object, all OFF, then download and read.
OnCreate(p) ==
  /\ app[p] = "closed"
  /\ DownloadAndRead(p, AllOff)
  /\ UNCHANGED <<edits, remote, asked>>

\* The update button.
Update(p) ==
  /\ app[p] = "idle"
  /\ DownloadAndRead(p, g[p])
  /\ UNCHANGED <<edits, remote, asked>>

\* A toggle button: the button shows checked when the value is ON, a press
\* inverts it, set...Ctrl stores it and writeControlFile writes all three.
Toggle(p, m) ==
  /\ app[p] = "idle" /\ edits < MaxEdits
  /\ LET value == IF g[p][m] = ON THEN OFF ELSE ON IN
       /\ g' = [g EXCEPT ![p][m] = value]
       /\ Choose([n \in {m} |-> value])
  /\ app' = [app EXCEPT ![p] = "connect"]
  /\ edits' = edits + 1
  /\ UNCHANGED <<remote, shorts>>

\* The file writeControlFile produces: three sections, none for the car.
PhoneFile(v) ==
  <<Sect("webcam", v["webcam"]), Sect("fan", v["fan"]), Sect("feed", v["feed"])>>

\* ftpUpload: connect and log in, and the server empties the file as the
\* store begins, or refuses to store (the handler returns false); a refused
\* connection or login ends the application.
FtpConnect(p) ==
  /\ app[p] = "connect"
  /\ \/ app' = [app EXCEPT ![p] = "store"] /\ remote' = <<>> /\ UNCHANGED g
     \/ app' = [app EXCEPT ![p] = "idle"] /\ UNCHANGED <<remote, g>>
     \/ Ends(p) /\ UNCHANGED remote
  /\ UNCHANGED <<edits, shorts, asked, stray>>

\* storeFile, with a part of the file on the host; the daemon may copy it.
StorePart(p) ==
  /\ app[p] = "store"
  /\ remote' \in Cuts(PhoneFile(g[p]))
  /\ UNCHANGED <<app, g, edits, shorts, asked, stray>>

\* storeFile ends: the file is whole, or remains what arrived and the handler
\* returns false (reply of the server) or ends the application (exception).
StoreFile(p) ==
  /\ app[p] = "store"
  /\ \/ /\ remote' = PhoneFile(g[p])
        /\ app' = [app EXCEPT ![p] = "idle"] /\ UNCHANGED g
     \/ /\ UNCHANGED remote
        /\ (app' = [app EXCEPT ![p] = "idle"] /\ UNCHANGED g) \/ Ends(p)
  /\ UNCHANGED <<edits, shorts, asked, stray>>

\* The user leaves the application.
Close(p) ==
  /\ app[p] = "idle"
  /\ Ends(p)
  /\ UNCHANGED <<edits, shorts, fileVars>>

PhoneStep(p) ==
  \/ OnCreate(p) \/ Update(p) \/ FtpConnect(p) \/ StorePart(p) \/ StoreFile(p) \/ Close(p)
  \/ \E m \in Switch : Toggle(p, m)

PhoneTypeOK ==
  /\ app \in [Phones -> {"closed", "idle", "connect", "store"}]
  /\ g \in [Phones -> [Switch -> Int]]
  /\ edits \in 0..MaxEdits /\ shorts \in 0..MaxShort
=============================================================================
