------------------------------ MODULE FrameFeed ------------------------------
(***************************************************************************)
(* What mjpg_streamer promises its clients, whatever the threads in        *)
(* between do: pictures are published in the order they were taken, and a  *)
(* client is shown published pictures only, each newer than the one before.*)
(* A slow client misses pictures.                                          *)
(***************************************************************************)
EXTENDS Integers

CONSTANTS Clients,
          Pictures    \* the numbers pictures can have, all above 0

VARIABLES published,   \* the pictures published so far
          shown        \* shown[r]: the picture client r got last, 0 if none

feedVars == <<published, shown>>

Init ==
  /\ published = {}
  /\ shown = [r \in Clients |-> 0]

Publish ==
  /\ \E n \in Pictures :
       /\ \A m \in published : m < n
       /\ published' = published \cup {n}
  /\ UNCHANGED shown

Show(r) ==
  /\ \E n \in published : n > shown[r] /\ shown' = [shown EXCEPT ![r] = n]
  /\ UNCHANGED published

Next == Publish \/ \E r \in Clients : Show(r)

Spec == Init /\ [][Next]_feedVars
=============================================================================
