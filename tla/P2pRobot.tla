------------------------------ MODULE P2pRobot ------------------------------
(***************************************************************************)
(* p2p-client-robot.py: a main thread that logs in, asks for the users     *)
(* until "mobile" is among them, and then says hello to it for ever; and a *)
(* receiver thread that writes the answers into the dictionary user_list   *)
(* the main thread reads.  There is no lock: an entry is emptied and then  *)
(* filled key by key.  An exception in main ends the program.              *)
(***************************************************************************)
EXTENDS Datagrams

CONSTANT RobotAddr    \* the public address of the robot's socket

ASSUME RobotAssumption == RobotAddr \in Address

VARIABLES rpc,       \* main: the step it is about to take
          cmd,       \* "connect" from the moment mobile was in the list
          listed,    \* keys of the dictionary when the for loop began
          todo,      \* those the loop has not visited yet
          callee,    \* to_user_ip, to_user_port
          known,     \* keys of user_list
          book,      \* user_list[u]: how many of its four keys are set, and two
          storing    \* the answer the receiver is writing, or NoDatagram

mainVars == <<rpc, cmd, listed, todo, callee>>
bookVars == <<known, book, storing>>
robotVars == <<mainVars, bookVars>>

Keys == 4            \* pub_ip, pub_port, pri_ip, pri_port, in this order
NoDatagram == Plain("none", NoAddress)
Empty == [keys |-> 0, ip |-> Nothing, port |-> Nothing]

RobotInit ==
  /\ rpc = "login" /\ cmd = "getalluser" /\ listed = {} /\ todo = {} /\ callee = NoAddress
  /\ known = {} /\ book = [u \in Users |-> Empty] /\ storing = NoDatagram

Running == rpc # "ended"

-----------------------------------------------------------------------------
\* The receiver thread, server_handle.

ReceiveUser(m) ==
  /\ m.kind = "user"
  /\ book' = [book EXCEPT ![m.user] = Empty]
  /\ known' = known \cup {m.user}
  /\ storing' = m
  /\ Exchange(m, {})

ReceiveOther(m) ==
  /\ \/ m.kind \in {"info", "echo"} /\ Exchange(m, {})
     \/ m.kind = "keepconnect" /\ Exchange(m, {Plain("alive", RobotAddr)})
  /\ UNCHANGED bookVars

RobotReceive(m) ==
  /\ Running /\ storing = NoDatagram
  /\ m \in net /\ m.at = RobotAddr
  /\ ReceiveUser(m) \/ ReceiveOther(m)
  /\ UNCHANGED <<mainVars, logged>>

\* user_list[user_name][arg[0]] = arg[1] for the next of the keys.
StoreNext(e, a) ==
  [keys |-> e.keys + 1,
   ip   |-> IF e.keys = 0 THEN a.ip ELSE e.ip,
   port |-> IF e.keys = 1 THEN a.port ELSE e.port]

RobotStore ==
  /\ Running /\ storing # NoDatagram
  /\ LET u == storing.user IN
       /\ book' = [book EXCEPT ![u] = StoreNext(@, storing.addr)]
       /\ storing' = IF book[u].keys = Keys - 1 THEN NoDatagram ELSE storing
  /\ UNCHANGED <<mainVars, known, netVars>>

-----------------------------------------------------------------------------
\* The main thread.

RobotLogin ==
  /\ rpc = "login"
  /\ Send({Login("robot", RobotAddr)})
  /\ logged' = logged \cup {[user |-> "robot", addr |-> RobotAddr]}
  /\ rpc' = "getalluser"
  /\ UNCHANGED <<cmd, listed, todo, callee, bookVars>>

GetAllUser ==
  /\ rpc = "getalluser"
  /\ Send({Plain("getalluser", RobotAddr)})
  /\ rpc' = "list"
  /\ UNCHANGED <<cmd, listed, todo, callee, bookVars, logged>>

\* Mutant: the loop goes over the names expected, answered or not.
ListExpected ==
  /\ rpc = "list"
  /\ listed' = Users /\ todo' = Users
  /\ rpc' = "scan"
  /\ UNCHANGED <<cmd, callee, bookVars, netVars>>

ListUsers ==
  /\ rpc = "list"
  /\ listed' = known /\ todo' = known
  /\ rpc' = "scan"
  /\ UNCHANGED <<cmd, callee, bookVars, netVars>>

\* Mutant: whoever is in the list, the next command is connect.
ScanAnyUser ==
  /\ rpc = "scan" /\ known = listed
  /\ \E u \in todo :
       IF book[u].keys < Keys
       THEN rpc' = "ended" /\ UNCHANGED <<cmd, todo>>
       ELSE todo' = todo \ {u} /\ cmd' = "connect" /\ UNCHANGED rpc
  /\ UNCHANGED <<listed, callee, bookVars, netVars>>

\* The next turn of the for loop: RuntimeError when the dictionary has grown
\* since the loop began, KeyError when a key of the entry is missing.
Scan ==
  /\ rpc = "scan" /\ known = listed
  /\ \E u \in todo :
       IF book[u].keys < Keys
       THEN rpc' = "ended" /\ UNCHANGED <<cmd, todo>>
       ELSE /\ todo' = todo \ {u}
            /\ cmd' = IF u = "mobile" THEN "connect" ELSE cmd
            /\ UNCHANGED rpc
  /\ UNCHANGED <<listed, callee, bookVars, netVars>>

ScanBroken ==
  /\ rpc = "scan" /\ known # listed
  /\ rpc' = "ended"
  /\ UNCHANGED <<cmd, listed, todo, callee, bookVars, netVars>>

\* The loop is over; sleep(3), then the next turn of "while True".
ScanOver ==
  /\ rpc = "scan" /\ known = listed /\ todo = {}
  /\ rpc' = cmd /\ listed' = {}
  /\ UNCHANGED <<cmd, todo, callee, bookVars, netVars>>

\* Two lookups, one for the address and one for the port.
ConnectIp ==
  /\ rpc = "connect"
  /\ IF book["mobile"].keys < 1
     THEN rpc' = "ended" /\ UNCHANGED callee
     ELSE rpc' = "port" /\ callee' = [callee EXCEPT !.ip = book["mobile"].ip]
  /\ UNCHANGED <<cmd, listed, todo, bookVars, netVars>>

ConnectPort ==
  /\ rpc = "port"
  /\ IF book["mobile"].keys < 2
     THEN rpc' = "ended" /\ UNCHANGED callee
     ELSE rpc' = "echo" /\ callee' = [callee EXCEPT !.port = book["mobile"].port]
  /\ UNCHANGED <<cmd, listed, todo, bookVars, netVars>>

RobotEcho ==
  /\ rpc = "echo"
  /\ Send({Plain("echo", callee)})
  /\ UNCHANGED <<robotVars, logged>>

RobotMain ==
  \/ RobotLogin \/ GetAllUser \/ ListUsers \/ Scan \/ ScanBroken \/ ScanOver
  \/ ConnectIp \/ ConnectPort \/ RobotEcho
=============================================================================
