----------------------------- MODULE Rendezvous ------------------------------
(***************************************************************************)
(* pets-socket and the phone application that goes with it: the rendezvous *)
(* server, the robot at home and the phone, talking over UDP.              *)
(***************************************************************************)
EXTENDS P2pServer, P2pRobot, UdpPhone

vars == <<netVars, serverVars, robotVars, phoneVars>>

Init ==
  /\ net = {} /\ logged = {}
  /\ ServerInit /\ RobotInit /\ PhoneInit

ServerStep == (KeepConnect \/ \E m \in net : ServerHandle(m)) /\ UNCHANGED <<robotVars, phoneVars>>
RobotStep  == (RobotMain \/ RobotStore \/ \E m \in net : RobotReceive(m))
                /\ UNCHANGED <<serverVars, phoneVars>>
PhoneStep  == (PhoneUI \/ \E t \in Threads : SocketThread(t)) /\ UNCHANGED <<serverVars, robotVars>>

Next == ServerStep \/ RobotStep \/ PhoneStep

Spec == Init /\ [][Next]_vars

-----------------------------------------------------------------------------

IPOrNot == IP \cup {Nothing}
PortOrNot == Port \cup {Nothing}

ServerTypeOK ==
  /\ user_list \in Seq([user : Users, addr : Address]) /\ nextUser \in 1..Len(user_list) + 1

RobotTypeOK ==
  /\ rpc \in {"login", "getalluser", "list", "scan", "connect", "port", "echo", "ended"}
  /\ cmd \in {"getalluser", "connect"}
  /\ todo \subseteq listed /\ listed \subseteq known /\ known \subseteq Users
  /\ callee \in [ip : IPOrNot, port : PortOrNot]
  /\ book \in [Users -> [keys : 0..Keys, ip : IPOrNot, port : PortOrNot]]
  /\ storing \in Datagram \cup {NoDatagram}

PhoneTypeOK ==
  /\ ui \in {"idle", "port", "closed"} /\ phoneAddr \in MobileAddrs /\ toIp \in IPOrNot
  /\ one_user \in [name : Users \cup {NoOne}, ip : IPOrNot, port : PortOrNot]
  /\ receiver \in [Threads -> {"none", "receive", "short", "name", "ip", "port", "ended"}]
  /\ answer \in [Threads -> Datagram \cup {NoAnswer}]
  /\ restarts \in 0..MaxRestarts

TypeOK ==
  /\ net \subseteq Datagram /\ logged \subseteq [user : Users, addr : Address]
  /\ ServerTypeOK /\ RobotTypeOK /\ PhoneTypeOK

-----------------------------------------------------------------------------

\* u announced itself from an address with this part.
IpOf(us)   == {l.addr.ip : l \in {k \in logged : k.user \in us}}
PortOf(us) == {l.addr.port : l \in {k \in logged : k.user \in us}}

\* Whoever the robot says hello to: both halves of the address are the mobile
\* user's, never the robot's own or a half-written entry's.  They may come
\* from two logins, since the entry may be written again between the lookups,
\* but if the phone has announced itself from one address only it is that one.
RobotCallsMobile ==
  rpc = "echo" =>
    /\ callee.ip \in IpOf({"mobile"}) /\ callee.port \in PortOf({"mobile"})
    /\ \A a \in Address : {l.addr : l \in {k \in logged : k.user = "mobile"}} = {a} => callee = a

\* The robot's main thread fails only where the receiver writes what it reads:
\* in the loop an entry the loop has still to visit, or one that was added
\* since the loop began; after the loop the mobile user's entry, which the loop
\* has found complete and a repeated answer empties again.  It never reads an
\* entry that was not answered at all.
RobotEndsInTheRace ==
  [][Running /\ ~Running' =>
       \/ rpc = "scan" /\ (storing.user \in todo \/ known # listed)
       \/ rpc \in {"connect", "port"} /\ storing.user = "mobile"]_vars

\* What the phone holds of a user's address, and so what registerClient sends
\* to, was announced to the server by some user, whatever was lost, repeated
\* or overtaken on the way and whichever threads wrote it.  As long as one
\* SocketThread only was started, what it leaves behind is one login whole.
Storing(t) == receiver[t] \in {"ip", "port"}
PhoneHoldsAnnounced ==
  /\ one_user.ip \in IpOf(Users) \cup {Nothing}
  /\ one_user.port \in PortOf(Users) \cup {Nothing}
  /\ \A t \in Threads : Started = {t} /\ ~Storing(t) /\ one_user # NoUser =>
       [user |-> one_user.name, addr |-> [ip |-> one_user.ip, port |-> one_user.port]] \in logged

-----------------------------------------------------------------------------
\* Liveness: threads run; a datagram the robot or the server sends again and
\* again gets through sometime, and one that lies in a buffer is read.

Alone(A) == A /\ UNCHANGED <<serverVars, phoneVars>>
Ask == Plain("getalluser", RobotAddr)
AnswerOf(a) == Entry(RobotAddr, [user |-> "mobile", addr |-> a])

Fairness ==
  /\ WF_vars(KeepConnect /\ UNCHANGED <<robotVars, phoneVars>>)
  /\ WF_vars((\E m \in net : ServerHandle(m)) /\ UNCHANGED <<robotVars, phoneVars>>)
  /\ WF_vars(Alone(RobotMain)) /\ WF_vars(Alone(RobotStore))
  /\ WF_vars(Alone(\E m \in net : RobotReceive(m)))
  /\ SF_vars(Alone(GetAllUser) /\ Ask \in net')
  /\ SF_vars(/\ ServerHandle(Ask) /\ UNCHANGED <<robotVars, phoneVars>>
             /\ \E a \in MobileAddrs : AnswerOf(a) \in net')
  /\ \A a \in MobileAddrs : SF_vars(Alone(RobotReceive(AnswerOf(a))))

FairSpec == Spec /\ Fairness

\* Once the server knows the mobile user the robot finds it and says hello to
\* it, or has ended: getalluser is repeated until it is answered.
RobotFindsMobile ==
  (\E i \in DOMAIN user_list : user_list[i].user = "mobile") ~> rpc \in {"echo", "ended"}
=============================================================================
