----------------------------- MODULE ControlFile -----------------------------
(***************************************************************************)
(* control.txt: the file through which the phones and the operator of the  *)
(* host command the board.  A section is a keyword line followed by a      *)
(* value line; the blank line after it carries nothing.  The published     *)
(* copy lives on the host; the board's daemon (WebcamServer) copies it     *)
(* every round and the phones (PhoneApp) download and overwrite it.        *)
(*                                                                         *)
(* A file is the sequence of its sections.  NoVal stands for a value line  *)
(* that is missing because the file was cut right after the keyword.       *)
(***************************************************************************)
EXTENDS Integers, Sequences

CONSTANT NoVal      \* "no value line": a section the file ends in

ASSUME NoValAssumption == NoVal \notin Int

VARIABLES remote,   \* the published control.txt
          asked,    \* history: asked[m] = the values a person chose for m
          stray     \* history: stray[m] = values nobody chose for m which a
                    \* garbled download has put under it

fileVars == <<remote, asked, stray>>

Switch == {"webcam", "fan", "feed"}
Mode   == Switch \cup {"car"}

Section == [mode : Mode, val : Int \cup {NoVal}]
File    == Seq(Section)

Sect(m, v) == [mode |-> m, val |-> v]

\* A file cut at any point: between two sections or inside the last one.
Cuts(f) ==
  {SubSeq(f, 1, k) : k \in 0..Len(f)}
    \cup {Append(SubSeq(f, 1, k - 1), Sect(f[k].mode, NoVal)) : k \in 1..Len(f)}

\* Of the sections at the positions S the one that counts: a later one wins.
Latest(S) == CHOOSE i \in S : \A j \in S : j <= i

\* The values there is an origin for under the mode m.
Given(m) == asked[m] \cup stray[m]

\* Every value of the file has an origin under the mode it stands for.
ChosenFile(f) ==
  \A i \in DOMAIN f : f[i].val = NoVal \/ f[i].val \in Given(f[i].mode)

\* The camera's section is the first of every file anybody writes.
WebcamFirst(f) == \A i \in DOMAIN f : f[i].mode = "webcam" => i = 1

\* A person chooses the values v[m] of the modes m in DOMAIN v.
Choose(v) ==
  /\ asked' = [m \in Mode |-> IF m \in DOMAIN v THEN asked[m] \cup {v[m]} ELSE asked[m]]
  /\ UNCHANGED stray

FileTypeOK ==
  /\ remote \in File
  /\ asked \in [Mode -> SUBSET Int] /\ stray \in [Mode -> SUBSET Int]
=============================================================================
