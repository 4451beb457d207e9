----------------------------- MODULE Datagrams ------------------------------
(***************************************************************************)
(* UDP as the rendezvous server, the robot and the phone of pets-socket    *)
(* use it: nothing is acknowledged, so a datagram sent may be lost, may    *)
(* come twice and may overtake another one.  The text of a datagram is     *)
(* abstracted to its type and the fields its reader picks out of it.       *)
(***************************************************************************)
EXTENDS Naturals, FiniteSets

CONSTANTS IP, Port,       \* parts of a public address
          NoOne,          \* a field of a datagram that carries no user
          Nothing,        \* a part of an address that was never set
          Duplicates,     \* a datagram may come more than once
          Deaf,           \* addresses every datagram to which is lost
          MaxNet          \* bound: datagrams under way; a full network loses

ASSUME DatagramAssumption ==
  /\ NoOne \notin {"mobile", "robot"}
  /\ Nothing \notin IP \cup Port
  /\ Duplicates \in BOOLEAN /\ MaxNet \in Nat

Users == {"mobile", "robot"}   \* mobile_name, ROBOT_NAME

Address == [ip : IP, port : Port]
NoAddress == [ip |-> Nothing, port |-> Nothing]

\* "at" is the client's public address: the source of what goes to the
\* server, the destination of what does not.  "user" and "addr" are the user
\* a login announces or an answer describes.
ToServer == {"login", "getalluser", "alive"}
ToClient == {"info", "user", "keepconnect", "echo"}
Datagram == [kind : ToServer \cup ToClient, at : Address,
             user : Users \cup {NoOne}, addr : Address \cup {NoAddress}]

Plain(kind, a) == [kind |-> kind, at |-> a, user |-> NoOne, addr |-> NoAddress]
Login(u, a)    == [kind |-> "login", at |-> a, user |-> u, addr |-> a]
Entry(a, e)    == [kind |-> "user", at |-> a, user |-> e.user, addr |-> e.addr]

VARIABLES net,     \* datagrams under way
          logged   \* history: who has announced itself, from which address

netVars == <<net, logged>>

\* sendto: each datagram gets under way or is lost.
Reaches(m) == m.kind \in ToServer \/ m.at \notin Deaf
Deliverable(rest, ms) ==
  {n \in {rest \cup kept : kept \in SUBSET {m \in ms : Reaches(m)}} :
     n = rest \/ Cardinality(n) <= MaxNet}

Send(ms) == net' \in Deliverable(net, ms)

\* recvfrom of m, which may come again, and the answers it causes.
Exchange(m, ms) ==
  \E again \in {{}} \cup (IF Duplicates THEN {{m}} ELSE {}) :
    net' \in Deliverable((net \ {m}) \cup again, ms)
=============================================================================
