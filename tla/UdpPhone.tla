------------------------------ MODULE UdpPhone ------------------------------
(***************************************************************************)
(* The second phone application (Android/webcam): MainActivity on the user *)
(* interface thread, SocketUDPClient with its socket, one UserName, and a  *)
(* SocketThread started every time the webcam button is switched on.  All  *)
(* of them share the socket and the UserName without a lock.               *)
(*                                                                         *)
(* A SocketThread takes its buffer from the packet it received or sent     *)
(* last: after answering keepconnect it receives into the ten bytes of     *)
(* that answer, takes fifteen of them and ends with the exception.         *)
(***************************************************************************)
EXTENDS Datagrams

CONSTANTS MobileAddrs,   \* addresses the phone's socket may have
          FanPressed,    \* the fan button, which calls registerClient, is used
          MaxSetups,     \* bound: webcam button switched on, per start
          MaxRestarts    \* bound: starts of the application after the first

ASSUME PhoneAssumption ==
  /\ MobileAddrs \subseteq Address /\ MobileAddrs # {}
  /\ FanPressed \in BOOLEAN
  /\ MaxSetups \in Nat /\ MaxRestarts \in Nat

VARIABLES ui,          \* user interface thread: idle, port (in registerClient), closed
          phoneAddr,   \* the public address of socketClient
          toIp,        \* to_user_ip in registerClient
          one_user,    \* UserName: user_name, cli_pub_ip, cli_pub_port
          receiver,    \* receiver[t]: where SocketThread t stands
          answer,      \* answer[t]: the datagram it is storing
          restarts     \* starts so far

appVars == <<ui, phoneAddr, toIp, restarts>>
threadVars == <<receiver, answer>>
phoneVars == <<appVars, one_user, threadVars>>

Threads == 1..MaxSetups
NoUser == [name |-> NoOne, ip |-> Nothing, port |-> Nothing]
NoAnswer == Plain("none", NoAddress)

PhoneInit ==
  /\ ui = "idle" /\ phoneAddr \in MobileAddrs /\ toIp = Nothing /\ restarts = 0
  /\ one_user = NoUser
  /\ receiver = [t \in Threads |-> "none"]
  /\ answer = [t \in Threads |-> NoAnswer]

PhoneUp == ui # "closed"
Started == {t \in Threads : receiver[t] # "none"}

-----------------------------------------------------------------------------
\* The user interface thread.

\* setupSocket: a new SocketThread, then login and getalluser, once each.
SetupSocket(t) ==
  /\ ui = "idle" /\ receiver[t] = "none" /\ \A k \in Threads : k < t => receiver[k] # "none"
  /\ receiver' = [receiver EXCEPT ![t] = "receive"]
  /\ Send({Login("mobile", phoneAddr), Plain("getalluser", phoneAddr)})
  /\ logged' = logged \cup {[user |-> "mobile", addr |-> phoneAddr]}
  /\ UNCHANGED <<appVars, one_user, answer>>

\* registerClient up to getCliPubIP.  isNull is never true: without a name it
\* throws, and the exception ends the application.
RegisterClient ==
  /\ FanPressed /\ ui = "idle"
  /\ IF one_user.name = NoOne
     THEN ui' = "closed" /\ UNCHANGED toIp
     ELSE ui' = "port" /\ toIp' = one_user.ip
  /\ UNCHANGED <<phoneAddr, restarts, one_user, threadVars, netVars>>

\* getCliPubPort and the rest of registerClient; InetSocketAddress takes
\* neither null nor -1.
RegisterPort ==
  /\ ui = "port"
  /\ IF Nothing \in {toIp, one_user.port}
     THEN ui' = "closed" /\ UNCHANGED net
     ELSE ui' = "idle" /\ Send({Plain("echo", [ip |-> toIp, port |-> one_user.port])})
  /\ toIp' = Nothing
  /\ UNCHANGED <<phoneAddr, restarts, one_user, threadVars, logged>>

\* The application is started again, after it ended or was removed: a new
\* socket, with a new address, a new UserName, no SocketThread.
RestartApp ==
  /\ restarts < MaxRestarts
  /\ restarts' = restarts + 1
  /\ ui' = "idle" /\ phoneAddr' \in MobileAddrs /\ toIp' = Nothing
  /\ one_user' = NoUser
  /\ receiver' = [t \in Threads |-> "none"]
  /\ answer' = [t \in Threads |-> NoAnswer]
  /\ UNCHANGED netVars

-----------------------------------------------------------------------------
\* SocketThread.run.

\* receive, and what the type of the datagram calls for.  The answer to
\* keepconnect takes the place of the packet the next receive uses.
Take(t, m) ==
  /\ receiver[t] = "receive"
  /\ \/ m.kind = "user" /\ receiver' = [receiver EXCEPT ![t] = "name"]
        /\ answer' = [answer EXCEPT ![t] = m]
        /\ Exchange(m, {})
     \/ m.kind \in {"info", "echo"}
        /\ Exchange(m, {}) /\ UNCHANGED threadVars
     \/ m.kind = "keepconnect" /\ receiver' = [receiver EXCEPT ![t] = "short"]
        /\ Exchange(m, {Plain("alive", phoneAddr)}) /\ UNCHANGED answer

\* new String(data, 0, 15) of ten bytes: the exception ends the thread.
TakeShort(t, m) ==
  /\ receiver[t] = "short"
  /\ receiver' = [receiver EXCEPT ![t] = "ended"]
  /\ Exchange(m, {}) /\ UNCHANGED answer

PhoneReceive(t, m) ==
  /\ PhoneUp /\ m \in net /\ m.at = phoneAddr
  /\ Take(t, m) \/ TakeShort(t, m)
  /\ UNCHANGED <<appVars, one_user, logged>>

\* Mutant: the port is not stored.
SetParamNoPort(t, from, field, val, to) ==
  /\ receiver[t] = from
  /\ one_user' = IF field = "port" THEN one_user ELSE [one_user EXCEPT ![field] = val]
  /\ receiver' = [receiver EXCEPT ![t] = to]

\* setAllParams, field by field, for whatever user the answer describes.
SetParam(t, from, field, val, to) ==
  /\ receiver[t] = from
  /\ one_user' = [one_user EXCEPT ![field] = val]
  /\ receiver' = [receiver EXCEPT ![t] = to]

SetAllParams(t) ==
  /\ PhoneUp
  /\ \/ SetParam(t, "name", "name", answer[t].user, "ip") /\ UNCHANGED answer
     \/ SetParam(t, "ip", "ip", answer[t].addr.ip, "port") /\ UNCHANGED answer
     \/ SetParam(t, "port", "port", answer[t].addr.port, "receive")
        /\ answer' = [answer EXCEPT ![t] = NoAnswer]
  /\ UNCHANGED <<appVars, netVars>>

SocketThread(t) == SetAllParams(t) \/ \E m \in net : PhoneReceive(t, m)
PhoneUI == RegisterClient \/ RegisterPort \/ RestartApp \/ \E t \in Threads : SetupSocket(t)
=============================================================================
