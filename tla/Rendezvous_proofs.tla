-------------------------- MODULE Rendezvous_proofs --------------------------
(***************************************************************************)
(* Proofs about Rendezvous, for any addresses, any number of logins,       *)
(* SocketThreads and restarts, and any loss, repetition or reordering of   *)
(* datagrams.                                                              *)
(***************************************************************************)
EXTENDS Rendezvous, SequenceTheorems, FiniteSetTheorems, TLAPS

Pair(u, a) == [user |-> u, addr |-> a]

-----------------------------------------------------------------------------
(***************************************************************************)
(* The inductive invariant: an address travels from a login through the    *)
(* network, the server's list, the network again and the receivers to      *)
(* those who use it, and on every leg it is one that was announced.        *)
(***************************************************************************)

\* What a login says, and what an answer says, was announced.
Truthful(m) ==
  /\ m.kind = "login" => Pair(m.user, m.at) \in logged
  /\ m.kind = "user" => Pair(m.user, m.addr) \in logged

NetTruthful == \A m \in net : Truthful(m)

ListAnnounced == \A i \in DOMAIN user_list : user_list[i] \in logged

\* The robot's dictionary: an entry is complete unless the receiver is just
\* writing it; what is there of it is one login.
BeingStored(u) == storing # NoDatagram /\ storing.user = u
EntryOK(u) ==
  /\ u \notin known => book[u].keys = 0
  /\ u \in known /\ book[u].keys < Keys => BeingStored(u)
  /\ book[u].keys >= 1 => book[u].ip \in IpOf({u})
  /\ book[u].keys >= 2 => book[u].port \in PortOf({u})
BookOK ==
  /\ storing # NoDatagram =>
       /\ storing.kind = "user" /\ Pair(storing.user, storing.addr) \in logged
       /\ storing.user \in known /\ book[storing.user].keys < Keys
  /\ \A u \in Users : EntryOK(u)

\* The robot's main thread looks mobile up only if it is in the dictionary.
CalleeOK ==
  /\ cmd = "connect" \/ rpc \in {"connect", "port", "echo"} => "mobile" \in known
  /\ rpc \in {"port", "echo"} => callee.ip \in IpOf({"mobile"})
  /\ rpc = "echo" => callee.port \in PortOf({"mobile"})

\* The phone: a thread that stores an answer has one; and what a thread that
\* is alone has stored of it is in the UserName.
Alike(t, fields) ==
  /\ "name" \in fields => one_user.name = answer[t].user
  /\ "ip" \in fields => one_user.ip = answer[t].addr.ip
ThreadOK(t) ==
  /\ receiver[t] \in {"name", "ip", "port"} =>
       answer[t].kind = "user" /\ Pair(answer[t].user, answer[t].addr) \in logged
  /\ Started = {t} =>
       /\ receiver[t] = "ip" => Alike(t, {"name"})
       /\ receiver[t] = "port" => Alike(t, {"name", "ip"})
UserOK ==
  /\ Started = {} => one_user = NoUser
  /\ PhoneHoldsAnnounced
PhoneOK == (\A t \in Threads : ThreadOK(t)) /\ UserOK

Inv == TypeOK /\ NetTruthful /\ ListAnnounced /\ BookOK /\ CalleeOK /\ PhoneOK

-----------------------------------------------------------------------------
(***************************************************************************)
(* The network: whatever is lost, repeated or overtaken, what is under way *)
(* was under way or is sent now.                                           *)
(***************************************************************************)

LEMMA SendAdds ==
  ASSUME NEW ms, Send(ms)
  PROVE  net' \subseteq net \cup ms
BY DEF Send, Deliverable

LEMMA ExchangeAdds ==
  ASSUME NEW ms, NEW m \in net, Exchange(m, ms)
  PROVE  net' \subseteq net \cup ms
<1>1. PICK again \in {{}} \cup (IF Duplicates THEN {{m}} ELSE {}) :
         net' \in Deliverable((net \ {m}) \cup again, ms)
  BY DEF Exchange
<1>2. again \subseteq net
  BY <1>1
<1> QED BY <1>1, <1>2 DEF Deliverable

\* What datagrams that are sent have to be, for those under way to stay so.
LEMMA NetStays ==
  ASSUME Inv, NEW ms, net' \subseteq net \cup ms, logged \subseteq logged',
         \A m \in ms : m \in Datagram /\ Truthful(m)'
  PROVE  (net \subseteq Datagram)' /\ NetTruthful'
BY DEF Inv, TypeOK, NetTruthful, Truthful

LEMMA NetStaysOne ==
  ASSUME Inv, NEW d \in Datagram, net' \subseteq net \cup {d}, logged \subseteq logged',
         Truthful(d)'
  PROVE  (net \subseteq Datagram)' /\ NetTruthful'
BY DEF Inv, TypeOK, NetTruthful, Truthful

LEMMA NetStaysNone ==
  ASSUME Inv, net' \subseteq net, logged \subseteq logged'
  PROVE  (net \subseteq Datagram)' /\ NetTruthful'
BY DEF Inv, TypeOK, NetTruthful, Truthful

\* Datagrams that name no user.
LEMMA PlainIsTruthful ==
  ASSUME NEW kind \in {"getalluser", "alive", "info", "keepconnect", "echo"}, NEW a \in Address
  PROVE  Plain(kind, a) \in Datagram /\ Truthful(Plain(kind, a)) /\ Truthful(Plain(kind, a))'
BY DEF Plain, Datagram, Truthful, ToServer, ToClient

LEMMA AnswerIsTruthful ==
  ASSUME NEW a \in Address, NEW e \in [user : Users, addr : Address], e \in logged'
  PROVE  Entry(a, e) \in Datagram /\ Truthful(Entry(a, e))'
<1>1. e = Pair(e.user, e.addr)
  BY DEF Pair
<1> QED BY <1>1 DEF Entry, Datagram, Truthful, ToServer, ToClient, Pair

LEMMA LoginIsTruthful ==
  ASSUME NEW u \in Users, NEW a \in Address, Pair(u, a) \in logged'
  PROVE  Login(u, a) \in Datagram /\ Truthful(Login(u, a))'
BY DEF Login, Datagram, Truthful, ToServer, ToClient

\* An announced address has an announced address part and port.
LEMMA PartsOfPair ==
  ASSUME NEW u \in Users, NEW a, Pair(u, a) \in logged
  PROVE  /\ a.ip \in IpOf({u}) /\ a.port \in PortOf({u})
         /\ a.ip \in IpOf(Users) /\ a.port \in PortOf(Users)
BY DEF IpOf, PortOf, Pair

LEMMA PartsStay ==
  ASSUME logged \subseteq logged', NEW us
  PROVE  IpOf(us) \subseteq IpOf(us)' /\ PortOf(us) \subseteq PortOf(us)'
BY DEF IpOf, PortOf

LEMMA PartsAreTyped ==
  ASSUME TypeOK, NEW us
  PROVE  IpOf(us) \subseteq IP /\ PortOf(us) \subseteq Port
BY DEF TypeOK, IpOf, PortOf, Address

-----------------------------------------------------------------------------
(***************************************************************************)
(* Each part of the invariant, when its own variables stay and logged grows*)
(***************************************************************************)

LEMMA ServerStays ==
  ASSUME Inv, UNCHANGED serverVars, logged \subseteq logged'
  PROVE  ServerTypeOK' /\ ListAnnounced'
BY DEF Inv, TypeOK, ServerTypeOK, ListAnnounced, serverVars

LEMMA BookStays ==
  ASSUME Inv, UNCHANGED bookVars, logged \subseteq logged'
  PROVE  BookOK'
<1>1. \A u \in Users : EntryOK(u)'
  BY PartsStay DEF Inv, BookOK, EntryOK, BeingStored, bookVars
<1> QED BY <1>1 DEF Inv, BookOK, bookVars

LEMMA RobotStays ==
  ASSUME Inv, UNCHANGED robotVars, logged \subseteq logged'
  PROVE  RobotTypeOK' /\ BookOK' /\ CalleeOK'
<1>1. BookOK'
  BY BookStays DEF robotVars
<1>2. CalleeOK'
  BY PartsStay DEF Inv, CalleeOK, robotVars, mainVars, bookVars
<1> QED BY <1>1, <1>2 DEF Inv, TypeOK, RobotTypeOK, robotVars, mainVars, bookVars

LEMMA PhoneStays ==
  ASSUME Inv, UNCHANGED phoneVars, logged \subseteq logged'
  PROVE  PhoneTypeOK' /\ PhoneOK'
<1> USE DEF phoneVars, appVars, threadVars
<1>1. PhoneTypeOK'
  BY DEF Inv, TypeOK, PhoneTypeOK
<1>2. \A t \in Threads : ThreadOK(t)'
  BY DEF Inv, PhoneOK, ThreadOK, Alike, Started
<1>3. UserOK'
  BY PartsStay DEF Inv, PhoneOK, UserOK, PhoneHoldsAnnounced, Storing, Started
<1> QED BY <1>1, <1>2, <1>3 DEF PhoneOK

-----------------------------------------------------------------------------
(***************************************************************************)
(* The server.                                                             *)
(***************************************************************************)

LEMMA ListedUsers ==
  ASSUME Inv, NEW i \in DOMAIN user_list
  PROVE  user_list[i] \in [user : Users, addr : Address] /\ user_list[i] \in logged
BY DEF Inv, TypeOK, ServerTypeOK, ListAnnounced

LEMMA ServerHandles ==
  ASSUME Inv, NEW m \in net, ServerHandle(m)
  PROVE  (net \subseteq Datagram)' /\ NetTruthful' /\ ServerTypeOK' /\ ListAnnounced'
<1>1. /\ m \in Datagram /\ Truthful(m) /\ m.at \in Address
      /\ user_list \in Seq([user : Users, addr : Address]) /\ nextUser \in 1..Len(user_list) + 1
  BY DEF Inv, TypeOK, NetTruthful, Datagram, ServerTypeOK
<1>2. UNCHANGED <<nextUser, logged>>
  BY DEF ServerHandle
<1>3. CASE HandleLogin(m)
  <2>1. /\ m.kind = "login" /\ user_list' = AddUser(user_list, m)
        /\ Exchange(m, {Plain("info", m.at)})
    BY <1>3 DEF HandleLogin
  <2>2. (net \subseteq Datagram)' /\ NetTruthful'
    <3>1. net' \subseteq net \cup {Plain("info", m.at)}
      BY <2>1, ExchangeAdds
    <3> QED BY <1>1, <1>2, <3>1, NetStaysOne, PlainIsTruthful
  <2>3. Pair(m.user, m.at) \in logged /\ Pair(m.user, m.at) \in [user : Users, addr : Address]
    BY <1>1, <2>1 DEF Truthful, Inv, TypeOK
  <2>4. /\ user_list' \in Seq([user : Users, addr : Address])
        /\ Len(user_list') = Len(user_list) + 1
        /\ \A i \in 1..Len(user_list) : user_list'[i] = user_list[i]
        /\ user_list'[Len(user_list) + 1] = Pair(m.user, m.at)
    BY <1>1, <2>1, <2>3, AppendProperties DEF AddUser, Pair
  <2>5. Len(user_list) \in Nat /\ DOMAIN user_list = 1..Len(user_list)
        /\ DOMAIN user_list' = 1..Len(user_list) + 1
    BY <1>1, <2>4, LenProperties
  <2>6. ListAnnounced'
    <3> SUFFICES ASSUME NEW i \in 1..Len(user_list) + 1
                 PROVE  user_list'[i] \in logged
      BY <1>2, <2>5 DEF ListAnnounced
    <3>1. CASE i = Len(user_list) + 1
      BY <2>3, <2>4, <3>1
    <3>2. CASE i \in 1..Len(user_list)
      BY <2>4, <2>5, <3>2, ListedUsers
    <3> QED BY <2>5, <3>1, <3>2
  <2> QED BY <1>1, <1>2, <2>2, <2>4, <2>5, <2>6 DEF ServerTypeOK
<1>4. CASE HandleGetAllUser(m)
  <2>1. Exchange(m, Answers(user_list, m.at)) /\ UNCHANGED serverVars
    BY <1>2, <1>4 DEF HandleGetAllUser, serverVars
  <2>2. \A d \in Answers(user_list, m.at) : d \in Datagram /\ Truthful(d)'
    BY <1>1, <1>2, ListedUsers, AnswerIsTruthful DEF Answers
  <2>3. net' \subseteq net \cup Answers(user_list, m.at)
    BY <2>1, ExchangeAdds
  <2>4. (net \subseteq Datagram)' /\ NetTruthful'
    BY <1>2, <2>2, <2>3, NetStays
  <2> QED BY <1>2, <2>1, <2>4, ServerStays
<1>5. CASE HandleAlive(m)
  <2>1. Exchange(m, {}) /\ UNCHANGED serverVars
    BY <1>2, <1>5 DEF HandleAlive, serverVars
  <2>2. net' \subseteq net
    BY <2>1, ExchangeAdds
  <2> QED BY <1>2, <2>1, <2>2, NetStaysNone, ServerStays
<1> QED BY <1>3, <1>4, <1>5 DEF ServerHandle

LEMMA ServerKeepsConnected ==
  ASSUME Inv, KeepConnect
  PROVE  (net \subseteq Datagram)' /\ NetTruthful' /\ ServerTypeOK' /\ ListAnnounced'
<1> DEFINE i == NextTurn(nextUser, Len(user_list))
<1>1. /\ user_list \in Seq([user : Users, addr : Address]) /\ nextUser \in 1..Len(user_list) + 1
      /\ user_list # <<>>
  BY DEF Inv, TypeOK, ServerTypeOK, KeepConnect
<1>2. Len(user_list) \in Nat /\ Len(user_list) # 0 /\ DOMAIN user_list = 1..Len(user_list)
  BY <1>1, LenProperties, EmptySeq
<1>3. i \in DOMAIN user_list
  BY <1>1, <1>2 DEF NextTurn
<1>4. /\ Send({Plain("keepconnect", user_list[i].addr)})
      /\ nextUser' = i + 1 /\ UNCHANGED <<user_list, logged>>
  BY DEF KeepConnect
<1>5. user_list[i].addr \in Address
  BY <1>3, ListedUsers
<1>6. (net \subseteq Datagram)' /\ NetTruthful'
  <2>1. net' \subseteq net \cup {Plain("keepconnect", user_list[i].addr)}
    BY <1>4, SendAdds
  <2> QED BY <1>4, <1>5, <2>1, NetStaysOne, PlainIsTruthful
<1>7. nextUser' \in 1..Len(user_list) + 1
  BY <1>2, <1>3, <1>4
<1>8. ListAnnounced'
  BY <1>4, ListedUsers DEF ListAnnounced
<1> QED BY <1>1, <1>4, <1>6, <1>7, <1>8 DEF ServerTypeOK

LEMMA ServerStepInv ==
  ASSUME Inv, ServerStep
  PROVE  Inv'
<1>1. UNCHANGED <<robotVars, phoneVars, logged>>
  BY DEF ServerStep, KeepConnect, ServerHandle
<1>2. (net \subseteq Datagram)' /\ NetTruthful' /\ ServerTypeOK' /\ ListAnnounced'
  BY ServerHandles, ServerKeepsConnected DEF ServerStep
<1>3. RobotTypeOK' /\ BookOK' /\ CalleeOK' /\ PhoneTypeOK' /\ PhoneOK'
  BY <1>1, RobotStays, PhoneStays
<1> QED BY <1>1, <1>2, <1>3 DEF Inv, TypeOK

-----------------------------------------------------------------------------
(***************************************************************************)
(* The robot.                                                              *)
(***************************************************************************)

\* Its main thread leaves the dictionary alone.
LEMMA MainLeavesBook ==
  ASSUME RobotMain
  PROVE  UNCHANGED bookVars
BY DEF RobotMain, RobotLogin, GetAllUser, ListUsers, Scan, ScanBroken, ScanOver, ConnectIp,
       ConnectPort, RobotEcho, robotVars

\* What main sends: a login of its own address, requests and hellos.
LEMMA MainSends ==
  ASSUME Inv, RobotMain
  PROVE  /\ (net \subseteq Datagram)' /\ NetTruthful'
         /\ logged \subseteq logged' /\ (logged \subseteq [user : Users, addr : Address])'
<1> USE RobotAssumption
<1>0. logged \subseteq [user : Users, addr : Address] /\ net \subseteq Datagram
  BY DEF Inv, TypeOK
<1>1. CASE RobotLogin
  <2>1. /\ Send({Login("robot", RobotAddr)}) /\ logged' = logged \cup {Pair("robot", RobotAddr)}
    BY <1>1 DEF RobotLogin, Pair
  <2>2. "robot" \in Users
    BY DEF Users
  <2>3. Login("robot", RobotAddr) \in Datagram /\ Truthful(Login("robot", RobotAddr))'
    BY <2>1, <2>2, LoginIsTruthful
  <2>4. (net \subseteq Datagram)' /\ NetTruthful'
    <3>1. net' \subseteq net \cup {Login("robot", RobotAddr)}
      BY <2>1, SendAdds
    <3> QED BY <2>1, <2>3, <3>1, NetStaysOne
  <2> QED BY <1>0, <2>1, <2>2, <2>4 DEF Pair
<1>2. CASE GetAllUser
  <2>1. Send({Plain("getalluser", RobotAddr)}) /\ UNCHANGED logged
    BY <1>2 DEF GetAllUser
  <2>2. net' \subseteq net \cup {Plain("getalluser", RobotAddr)}
    BY <2>1, SendAdds
  <2> QED BY <1>0, <2>1, <2>2, NetStaysOne, PlainIsTruthful
<1>3. CASE RobotEcho
  <2>1. Send({Plain("echo", callee)}) /\ UNCHANGED logged /\ rpc = "echo"
    BY <1>3 DEF RobotEcho
  <2>2. callee \in Address
    BY <2>1, PartsAreTyped DEF Inv, TypeOK, RobotTypeOK, CalleeOK, Address
  <2>3. net' \subseteq net \cup {Plain("echo", callee)}
    BY <2>1, SendAdds
  <2> QED BY <1>0, <2>1, <2>2, <2>3, NetStaysOne, PlainIsTruthful
<1>4. CASE ListUsers \/ Scan \/ ScanBroken \/ ScanOver \/ ConnectIp \/ ConnectPort
  <2>1. UNCHANGED netVars
    BY <1>4 DEF ListUsers, Scan, ScanBroken, ScanOver, ConnectIp, ConnectPort
  <2> QED BY <1>0, <2>1 DEF netVars, Inv, NetTruthful, Truthful
<1> QED BY <1>1, <1>2, <1>3, <1>4 DEF RobotMain

LEMMA MainTypes ==
  ASSUME Inv, RobotMain
  PROVE  RobotTypeOK'
<1> USE DEF Inv, TypeOK, RobotTypeOK
<1>1. UNCHANGED <<known, book, storing>>
  BY MainLeavesBook DEF bookVars
<1>2. CASE RobotLogin \/ GetAllUser \/ RobotEcho
  BY <1>1, <1>2 DEF RobotLogin, GetAllUser, RobotEcho, robotVars, mainVars
<1>3. CASE ListUsers \/ Scan
  BY <1>1, <1>3 DEF ListUsers, Scan
<1>4. CASE ScanBroken \/ ScanOver
  BY <1>1, <1>4 DEF ScanBroken, ScanOver
<1>5. CASE ConnectIp
  <2>1. book["mobile"].ip \in IPOrNot
    BY DEF Users
  <2> QED BY <1>1, <1>5, <2>1 DEF ConnectIp
<1>6. CASE ConnectPort
  <2>1. book["mobile"].port \in PortOrNot
    BY DEF Users
  <2> QED BY <1>1, <1>6, <2>1 DEF ConnectPort
<1> QED BY <1>2, <1>3, <1>4, <1>5, <1>6 DEF RobotMain

LEMMA MainCalls ==
  ASSUME Inv, RobotMain, logged \subseteq logged'
  PROVE  CalleeOK'
<1> USE DEF CalleeOK
<1>1. UNCHANGED <<known, book, storing>>
  BY MainLeavesBook DEF bookVars
<1>2. /\ IpOf({"mobile"}) \subseteq IpOf({"mobile"})'
      /\ PortOf({"mobile"}) \subseteq PortOf({"mobile"})'
  BY PartsStay
<1>3. CalleeOK /\ EntryOK("mobile") /\ todo \subseteq known /\ callee \in [ip : IPOrNot, port : PortOrNot]
      /\ book["mobile"].keys \in 0..Keys /\ cmd \in {"getalluser", "connect"}
  BY DEF Inv, BookOK, Users, TypeOK, RobotTypeOK
<1>4. CASE RobotLogin \/ GetAllUser \/ RobotEcho \/ ListUsers \/ ScanBroken
  BY <1>1, <1>2, <1>3, <1>4
     DEF RobotLogin, GetAllUser, RobotEcho, ListUsers, ScanBroken, robotVars, mainVars
<1>5. CASE Scan \/ ScanOver
  BY <1>1, <1>2, <1>3, <1>5 DEF Scan, ScanOver
<1>6. CASE ConnectIp
  <2>1. book["mobile"].keys >= 1 => book["mobile"].ip \in IpOf({"mobile"})'
    BY <1>2, <1>3 DEF EntryOK
  <2>2. ~ book["mobile"].keys < 1 => book["mobile"].keys >= 1
    BY <1>3 DEF Keys
  <2> QED BY <1>1, <1>2, <1>3, <1>6, <2>1, <2>2 DEF ConnectIp
<1>7. CASE ConnectPort
  <2>1. book["mobile"].keys >= 2 => book["mobile"].port \in PortOf({"mobile"})'
    BY <1>2, <1>3 DEF EntryOK
  <2>2. ~ book["mobile"].keys < 2 => book["mobile"].keys >= 2
    BY <1>3 DEF Keys
  <2> QED BY <1>1, <1>2, <1>3, <1>7, <2>1, <2>2 DEF ConnectPort
<1> QED BY <1>4, <1>5, <1>6, <1>7 DEF RobotMain

LEMMA MainStepInv ==
  ASSUME Inv, RobotMain, UNCHANGED <<serverVars, phoneVars>>
  PROVE  Inv'
<1>1. /\ (net \subseteq Datagram)' /\ NetTruthful'
      /\ logged \subseteq logged' /\ (logged \subseteq [user : Users, addr : Address])'
  BY MainSends
<1>2. RobotTypeOK' /\ CalleeOK'
  BY <1>1, MainTypes, MainCalls
<1>3. BookOK'
  BY <1>1, MainLeavesBook, BookStays
<1>4. ServerTypeOK' /\ ListAnnounced' /\ PhoneTypeOK' /\ PhoneOK'
  BY <1>1, ServerStays, PhoneStays
<1> QED BY <1>1, <1>2, <1>3, <1>4 DEF Inv, TypeOK

\* No message is "none": the receiver's answer is set or it is not.
LEMMA NoDatagramIsNone ==
  ASSUME NEW m \in Datagram
  PROVE  m # NoDatagram /\ m # NoAnswer
BY DEF Datagram, ToServer, ToClient, NoDatagram, NoAnswer, Plain

\* Its receiver thread takes a datagram: an answer empties the entry.
LEMMA ReceiverTakes ==
  ASSUME Inv, NEW m \in net, RobotReceive(m), UNCHANGED <<serverVars, phoneVars>>
  PROVE  Inv'
<1>1. /\ m \in Datagram /\ Truthful(m) /\ m # NoDatagram /\ m.user \in Users \cup {NoOne}
  BY NoDatagramIsNone DEF Inv, TypeOK, NetTruthful, Datagram
<1>2. UNCHANGED <<mainVars, logged>> /\ storing = NoDatagram
  BY DEF RobotReceive
<1>3. ServerTypeOK' /\ ListAnnounced' /\ PhoneTypeOK' /\ PhoneOK'
  BY <1>2, ServerStays, PhoneStays
<1>4. CASE ReceiveUser(m)
  <2>1. /\ book' = [book EXCEPT ![m.user] = Empty] /\ known' = known \cup {m.user}
        /\ storing' = m /\ m.kind = "user" /\ Exchange(m, {})
    BY <1>4 DEF ReceiveUser
  <2>2. (net \subseteq Datagram)' /\ NetTruthful'
    <3>1. net' \subseteq net
      BY <2>1, ExchangeAdds
    <3> QED BY <1>2, <3>1, NetStaysNone
  <2>3. Pair(m.user, m.addr) \in logged /\ m.user \in Users
    BY <1>1, <2>1 DEF Truthful, Pair, Inv, TypeOK
  <2>4. RobotTypeOK'
    <3>1. Empty \in [keys : 0..Keys, ip : IPOrNot, port : PortOrNot]
      BY DEF Empty, Keys, IPOrNot, PortOrNot
    <3> QED BY <1>1, <1>2, <2>1, <2>3, <3>1 DEF Inv, TypeOK, RobotTypeOK, mainVars
  <2>5. BookOK'
    <3>1. book'[m.user] = Empty /\ \A u \in Users \ {m.user} : book'[u] = book[u]
      BY <2>1, <2>3 DEF Inv, TypeOK, RobotTypeOK
    <3>2. EntryOK(m.user)'
      BY <1>1, <2>1, <3>1 DEF EntryOK, BeingStored, Empty, Keys
    <3>3. \A u \in Users \ {m.user} : EntryOK(u)'
      BY <1>2, <2>1, <3>1 DEF Inv, BookOK, EntryOK, BeingStored, IpOf, PortOf
    <3>4. book'[m.user].keys < Keys /\ m.user \in known'
      BY <2>1, <3>1 DEF Empty, Keys
    <3> QED BY <1>2, <2>1, <2>3, <3>2, <3>3, <3>4 DEF BookOK
  <2>6. CalleeOK'
    BY <1>2, <2>1 DEF Inv, CalleeOK, mainVars, IpOf, PortOf
  <2> QED BY <1>2, <1>3, <2>2, <2>4, <2>5, <2>6 DEF Inv, TypeOK
<1>5. CASE ReceiveOther(m)
  <2>1. UNCHANGED robotVars
    BY <1>2, <1>5 DEF ReceiveOther, robotVars
  <2>2. net' \subseteq net \cup {Plain("alive", RobotAddr)}
    <3>1. Exchange(m, {}) \/ Exchange(m, {Plain("alive", RobotAddr)})
      BY <1>5 DEF ReceiveOther
    <3>2. CASE Exchange(m, {})
      BY <3>2, ExchangeAdds
    <3>3. CASE Exchange(m, {Plain("alive", RobotAddr)})
      BY <3>3, ExchangeAdds
    <3> QED BY <3>1, <3>2, <3>3
  <2>3. (net \subseteq Datagram)' /\ NetTruthful'
    BY <1>2, <2>2, NetStaysOne, PlainIsTruthful, RobotAssumption
  <2> QED BY <1>2, <1>3, <2>1, <2>3, RobotStays DEF Inv, TypeOK
<1> QED BY <1>4, <1>5 DEF RobotReceive

\* ... and stores the next of its keys.
LEMMA ReceiverStores ==
  ASSUME Inv, RobotStore, UNCHANGED <<serverVars, phoneVars>>
  PROVE  Inv'
<1>0. PICK u \in Users : u = storing.user
  BY DEF RobotStore, Inv, BookOK, TypeOK, Pair
<1> DEFINE e == StoreNext(book[u], storing.addr)
<1>1. /\ book' = [book EXCEPT ![u] = e]
      /\ storing' = IF book[u].keys = Keys - 1 THEN NoDatagram ELSE storing
      /\ storing # NoDatagram /\ UNCHANGED <<mainVars, known, netVars>>
  BY <1>0 DEF RobotStore
<1>2. /\ storing.kind = "user" /\ Pair(u, storing.addr) \in logged
      /\ u \in known /\ book[u].keys < Keys /\ storing \in Datagram
  BY <1>0, <1>1 DEF Inv, BookOK, TypeOK, RobotTypeOK
<1>3. /\ u \in Users /\ storing.addr \in Address
      /\ storing.addr.ip \in IPOrNot /\ storing.addr.port \in PortOrNot
      /\ book[u] \in [keys : 0..Keys, ip : IPOrNot, port : PortOrNot]
  <2>1. u \in Users /\ storing.addr \in Address
    BY <1>2 DEF Inv, TypeOK, Pair
  <2> QED BY <2>1 DEF Inv, TypeOK, RobotTypeOK, Address, IPOrNot, PortOrNot
<1>4. book[u].keys \in 0..Keys - 1 /\ e.keys = book[u].keys + 1
  BY <1>2, <1>3 DEF StoreNext, Keys
<1>5. e \in [keys : 0..Keys, ip : IPOrNot, port : PortOrNot]
  BY <1>3, <1>4 DEF StoreNext, Keys
<1>6. book'[u] = e /\ \A v \in Users \ {u} : book'[v] = book[v]
  BY <1>1, <1>3 DEF Inv, TypeOK, RobotTypeOK
<1>7. UNCHANGED <<logged, net, known>> /\ RobotTypeOK'
  BY <1>1, <1>3, <1>5 DEF Inv, TypeOK, RobotTypeOK, mainVars, netVars
<1>8. EntryOK(u)'
  <2>1. storing.addr.ip \in IpOf({u}) /\ storing.addr.port \in PortOf({u})
    BY <1>2, <1>3, PartsOfPair
  <2>2. /\ book[u].keys >= 1 => book[u].ip \in IpOf({u})
        /\ book[u].keys >= 2 => book[u].port \in PortOf({u})
    BY <1>3 DEF Inv, BookOK, EntryOK
  <2>3. e.ip \in IpOf({u})
    BY <1>4, <2>1, <2>2 DEF StoreNext
  <2>4. e.keys >= 2 => e.port \in PortOf({u})
    BY <1>4, <2>1, <2>2 DEF StoreNext
  <2>5. e.keys < Keys => storing' = storing
    BY <1>1, <1>4 DEF Keys
  <2>6. book'[u].ip \in IpOf({u})' /\ (book'[u].keys >= 2 => book'[u].port \in PortOf({u})')
    BY <1>6, <1>7, <2>3, <2>4 DEF IpOf, PortOf
  <2>7. book'[u].keys < Keys => storing' # NoDatagram /\ storing'.user = u
    BY <1>0, <1>1, <1>6, <2>5
  <2>8. u \in known'
    BY <1>2, <1>7
  <2> QED BY <2>6, <2>7, <2>8 DEF EntryOK, BeingStored
<1>9. \A v \in Users \ {u} : EntryOK(v)'
  BY <1>0, <1>1, <1>6, <1>7 DEF Inv, BookOK, EntryOK, BeingStored, IpOf, PortOf
<1>10. storing' # NoDatagram => storing' = storing /\ book'[u].keys < Keys
  BY <1>1, <1>4, <1>6 DEF Keys
<1>11. BookOK'
  <2>1. \A v \in Users : EntryOK(v)'
    BY <1>8, <1>9
  <2>2. storing' # NoDatagram =>
          /\ storing'.kind = "user" /\ Pair(storing'.user, storing'.addr) \in logged'
          /\ storing'.user \in known' /\ book'[storing'.user].keys < Keys
    BY <1>0, <1>2, <1>7, <1>10
  <2> QED BY <2>1, <2>2 DEF BookOK
<1>12. CalleeOK'
  BY <1>1, <1>7 DEF Inv, CalleeOK, mainVars, IpOf, PortOf
<1>13. ServerTypeOK' /\ ListAnnounced' /\ PhoneTypeOK' /\ PhoneOK'
  BY <1>7, ServerStays, PhoneStays
<1> QED BY <1>7, <1>11, <1>12, <1>13 DEF Inv, TypeOK, NetTruthful, Truthful

LEMMA RobotStepInv ==
  ASSUME Inv, RobotStep
  PROVE  Inv'
BY MainStepInv, ReceiverTakes, ReceiverStores DEF RobotStep

-----------------------------------------------------------------------------
(***************************************************************************)
(* The phone.                                                              *)
(***************************************************************************)

\* No thread left its state: what it holds stays announced.
LEMMA ThreadsStay ==
  ASSUME Inv, UNCHANGED <<receiver, answer, one_user>>, logged \subseteq logged'
  PROVE  PhoneOK'
<1>1. \A t \in Threads : ThreadOK(t)'
  BY DEF Inv, PhoneOK, ThreadOK, Alike, Started
<1>2. UserOK'
  BY PartsStay DEF Inv, PhoneOK, UserOK, PhoneHoldsAnnounced, Storing, Started
<1> QED BY <1>1, <1>2 DEF PhoneOK

LEMMA SetupInv ==
  ASSUME Inv, NEW t \in Threads, SetupSocket(t), UNCHANGED <<serverVars, robotVars>>
  PROVE  Inv'
<1>0. PICK a \in Address : a = phoneAddr
  BY PhoneAssumption DEF Inv, TypeOK, PhoneTypeOK
<1>1. /\ receiver[t] = "none" /\ receiver' = [receiver EXCEPT ![t] = "receive"]
      /\ Send({Login("mobile", a), Plain("getalluser", a)})
      /\ logged' = logged \cup {Pair("mobile", a)}
      /\ UNCHANGED <<appVars, one_user, answer>>
  BY <1>0 DEF SetupSocket, Pair
<1>2. "mobile" \in Users /\ logged \subseteq logged'
  BY <1>1 DEF Users
<1>3. (net \subseteq Datagram)' /\ NetTruthful'
  <2>1. Login("mobile", a) \in Datagram /\ Truthful(Login("mobile", a))'
    BY <1>1, <1>2, LoginIsTruthful
  <2>2. Plain("getalluser", a) \in Datagram /\ Truthful(Plain("getalluser", a))'
    BY <1>2, PlainIsTruthful
  <2>3. net' \subseteq net \cup {Login("mobile", a), Plain("getalluser", a)}
    BY <1>1, SendAdds
  <2>4. \A m \in net : m \in Datagram /\ Truthful(m)'
    BY <1>2 DEF Inv, TypeOK, NetTruthful, Truthful
  <2> QED BY <2>1, <2>2, <2>3, <2>4 DEF NetTruthful
<1>4. (logged \subseteq [user : Users, addr : Address])'
  BY <1>1, <1>2 DEF Inv, TypeOK, Pair
<1>5. PhoneTypeOK'
  BY <1>1 DEF Inv, TypeOK, PhoneTypeOK, appVars
<1>6. \A k \in Threads : receiver'[k] = IF k = t THEN "receive" ELSE receiver[k]
  BY <1>1 DEF Inv, TypeOK, PhoneTypeOK
<1>7. Started' = Started \cup {t} /\ t \notin Started
  BY <1>1, <1>6 DEF Started
<1>8. \A k \in Threads : ThreadOK(k)'
  <2> SUFFICES ASSUME NEW k \in Threads
               PROVE  ThreadOK(k)'
    OBVIOUS
  <2>1. ThreadOK(k)
    BY DEF Inv, PhoneOK
  <2>2. CASE k = t
    BY <1>6, <2>2 DEF ThreadOK
  <2>3. CASE k # t
    BY <1>1, <1>2, <1>6, <1>7, <2>1, <2>3 DEF ThreadOK, Alike
  <2> QED BY <2>2, <2>3
<1>9. UserOK'
  <2>1. PhoneHoldsAnnounced /\ (Started = {} => one_user = NoUser)
    BY DEF Inv, PhoneOK, UserOK
  <2>2. \A k \in Threads : (Started = {k})' => one_user' = NoUser
    BY <1>1, <1>7, <2>1
  <2>3. one_user'.ip \in IpOf(Users)' \cup {Nothing} /\ one_user'.port \in PortOf(Users)' \cup {Nothing}
    BY <1>1, <1>2, <2>1, PartsStay DEF PhoneHoldsAnnounced
  <2> QED BY <1>7, <2>2, <2>3 DEF UserOK, PhoneHoldsAnnounced
<1>10. ServerTypeOK' /\ ListAnnounced' /\ RobotTypeOK' /\ BookOK' /\ CalleeOK'
  BY <1>2, ServerStays, RobotStays
<1> QED BY <1>3, <1>4, <1>5, <1>8, <1>9, <1>10 DEF Inv, TypeOK, PhoneOK

\* Buttons, and a new start.
LEMMA ButtonsInv ==
  ASSUME Inv, RegisterClient \/ RegisterPort, UNCHANGED <<serverVars, robotVars>>
  PROVE  Inv'
<1>1. UNCHANGED <<logged, phoneAddr, restarts, one_user, receiver, answer>>
  BY DEF RegisterClient, RegisterPort, threadVars, netVars
<1>2. PhoneTypeOK'
  <2>1. one_user.ip \in IPOrNot /\ Nothing \in IPOrNot /\ toIp \in IPOrNot
    BY DEF Inv, TypeOK, PhoneTypeOK, IPOrNot
  <2>2. toIp' \in IPOrNot /\ ui' \in {"idle", "port", "closed"}
    BY <2>1 DEF RegisterClient, RegisterPort, Inv, TypeOK, PhoneTypeOK
  <2> QED BY <1>1, <2>2 DEF Inv, TypeOK, PhoneTypeOK
<1>3. (net \subseteq Datagram)' /\ NetTruthful'
  <2>1. CASE UNCHANGED net
    BY <1>1, <2>1, NetStaysNone
  <2>2. CASE RegisterPort /\ net' # net
    <3> DEFINE a == [ip |-> toIp, port |-> one_user.port]
    <3>1. Nothing \notin {toIp, one_user.port} /\ Send({Plain("echo", a)})
      BY <2>2 DEF RegisterPort
    <3>2. a \in Address
      BY <3>1 DEF Inv, TypeOK, PhoneTypeOK, IPOrNot, PortOrNot, Address
    <3>3. net' \subseteq net \cup {Plain("echo", a)}
      BY <3>1, SendAdds
    <3> QED BY <1>1, <3>2, <3>3, NetStaysOne, PlainIsTruthful
  <2> QED BY <2>1, <2>2 DEF RegisterClient, netVars
<1>4. PhoneOK'
  BY <1>1, ThreadsStay
<1>5. ServerTypeOK' /\ ListAnnounced' /\ RobotTypeOK' /\ BookOK' /\ CalleeOK'
  BY <1>1, ServerStays, RobotStays
<1> QED BY <1>1, <1>2, <1>3, <1>4, <1>5 DEF Inv, TypeOK

LEMMA RestartInv ==
  ASSUME Inv, RestartApp, UNCHANGED <<serverVars, robotVars>>
  PROVE  Inv'
<1>1. /\ UNCHANGED <<net, logged>> /\ one_user' = NoUser
      /\ receiver' = [t \in Threads |-> "none"] /\ answer' = [t \in Threads |-> NoAnswer]
  BY DEF RestartApp, netVars
<1>2. PhoneTypeOK'
  <2>1. NoUser \in [name : Users \cup {NoOne}, ip : IPOrNot, port : PortOrNot]
    BY DEF NoUser, IPOrNot, PortOrNot
  <2>2. restarts' \in 0..MaxRestarts
    BY PhoneAssumption DEF RestartApp, Inv, TypeOK, PhoneTypeOK
  <2> QED BY <1>1, <2>1, <2>2 DEF RestartApp, PhoneTypeOK, IPOrNot
<1>3. \A t \in Threads : receiver'[t] = "none"
  BY <1>1
<1>4. Started' = {}
  BY <1>3 DEF Started
<1>5. PhoneOK'
  BY <1>1, <1>3, <1>4 DEF PhoneOK, ThreadOK, UserOK, PhoneHoldsAnnounced, NoUser
<1>6. ServerTypeOK' /\ ListAnnounced' /\ RobotTypeOK' /\ BookOK' /\ CalleeOK'
  BY <1>1, ServerStays, RobotStays
<1> QED BY <1>1, <1>2, <1>5, <1>6 DEF Inv, TypeOK, NetTruthful, Truthful

\* A thread receives.
LEMMA TakeInv ==
  ASSUME Inv, NEW t \in Threads, NEW m \in net, PhoneReceive(t, m),
         UNCHANGED <<serverVars, robotVars>>
  PROVE  Inv'
<1>1. /\ m \in Datagram /\ Truthful(m) /\ phoneAddr \in Address
      /\ receiver \in [Threads -> {"none", "receive", "short", "name", "ip", "port", "ended"}]
      /\ answer \in [Threads -> Datagram \cup {NoAnswer}]
  BY PhoneAssumption DEF Inv, TypeOK, NetTruthful, PhoneTypeOK
<1>2. UNCHANGED <<ui, phoneAddr, toIp, restarts, one_user, logged>>
  BY DEF PhoneReceive, appVars
<1>3. \/ UNCHANGED <<receiver, answer>>
      \/ /\ receiver[t] = "receive" /\ receiver' = [receiver EXCEPT ![t] = "name"]
         /\ answer' = [answer EXCEPT ![t] = m] /\ m.kind = "user"
      \/ /\ receiver[t] = "receive" /\ receiver' = [receiver EXCEPT ![t] = "short"]
         /\ UNCHANGED answer
      \/ /\ receiver[t] = "short" /\ receiver' = [receiver EXCEPT ![t] = "ended"]
         /\ UNCHANGED answer
  BY DEF PhoneReceive, Take, TakeShort, threadVars
<1>5. (net \subseteq Datagram)' /\ NetTruthful'
  <2> PICK a \in Address : a = phoneAddr
    BY <1>1
  <2>1. Exchange(m, {}) \/ Exchange(m, {Plain("alive", a)})
    BY DEF PhoneReceive, Take, TakeShort
  <2>2. net' \subseteq net \cup {Plain("alive", a)}
    <3>1. CASE Exchange(m, {})
      BY <3>1, ExchangeAdds
    <3>2. CASE Exchange(m, {Plain("alive", a)})
      BY <3>2, ExchangeAdds
    <3> QED BY <2>1, <3>1, <3>2
  <2> QED BY <1>2, <2>2, NetStaysOne, PlainIsTruthful
<1>6. PhoneTypeOK'
  BY <1>1, <1>2, <1>3 DEF Inv, TypeOK, PhoneTypeOK
<1>7. PhoneOK'
  <2>1. CASE UNCHANGED <<receiver, answer>>
    BY <1>2, <2>1, ThreadsStay
  <2>2. CASE receiver[t] \in {"receive", "short"} /\ ~ UNCHANGED <<receiver, answer>>
    <3>1. /\ receiver'[t] \in {"name", "short", "ended"}
          /\ receiver'[t] = "name" => answer'[t] = m /\ m.kind = "user"
          /\ \A k \in Threads \ {t} : receiver'[k] = receiver[k] /\ answer'[k] = answer[k]
      BY <1>1, <1>3, <2>2
    <3>2. Started' = Started /\ t \in Started
      BY <1>1, <2>2, <3>1 DEF Started
    <3>3. ThreadOK(t)'
      <4>1. m.kind = "user" => Pair(m.user, m.addr) \in logged'
        BY <1>1, <1>2 DEF Truthful
      <4> QED BY <3>1, <4>1 DEF ThreadOK
    <3>4. \A k \in Threads \ {t} : ThreadOK(k)'
      BY <1>2, <3>1, <3>2 DEF Inv, PhoneOK, ThreadOK, Alike
    <3>5. UserOK'
      BY <1>1, <1>2, <2>2, <3>1, <3>2
         DEF Inv, PhoneOK, UserOK, PhoneHoldsAnnounced, Storing, IpOf, PortOf
    <3> QED BY <3>3, <3>4, <3>5 DEF PhoneOK
  <2> QED BY <1>3, <2>1, <2>2
<1>8. ServerTypeOK' /\ ListAnnounced' /\ RobotTypeOK' /\ BookOK' /\ CalleeOK'
  BY <1>2, ServerStays, RobotStays
<1> QED BY <1>2, <1>5, <1>6, <1>7, <1>8 DEF Inv, TypeOK

\* A thread stores the next field of its answer.  Alone, it turns the user it
\* found into the one of the answer, and holds no mixture before it begins or
\* after it is done.
LEMMA StoreInv ==
  ASSUME Inv, NEW t \in Threads, SetAllParams(t), UNCHANGED <<serverVars, robotVars>>
  PROVE  Inv'
<1> DEFINE U == answer[t].user
           A == answer[t].addr
<1>1. /\ UNCHANGED <<net, logged, ui, phoneAddr, toIp, restarts>>
      /\ receiver[t] \in {"name", "ip", "port"}
  BY DEF SetAllParams, SetParam, appVars, netVars
<1>2. /\ receiver \in [Threads -> {"none", "receive", "short", "name", "ip", "port", "ended"}]
      /\ answer \in [Threads -> Datagram \cup {NoAnswer}]
      /\ one_user \in [name : Users \cup {NoOne}, ip : IPOrNot, port : PortOrNot]
  BY DEF Inv, TypeOK, PhoneTypeOK
<1>3. Pair(U, A) \in logged /\ U \in Users /\ A \in Address
  <2>1. Pair(U, A) \in logged
    BY <1>1 DEF Inv, PhoneOK, ThreadOK
  <2> QED BY <2>1 DEF Inv, TypeOK, Pair
<1>4. A.ip \in IpOf(Users) /\ A.port \in PortOf(Users) /\ A.ip \in IP /\ A.port \in Port
  BY <1>3, PartsOfPair DEF Address
<1>5. \/ /\ receiver[t] = "name" /\ receiver'[t] = "ip"
         /\ one_user' = [one_user EXCEPT !.name = U] /\ answer' = answer
      \/ /\ receiver[t] = "ip" /\ receiver'[t] = "port"
         /\ one_user' = [one_user EXCEPT !.ip = A.ip] /\ answer' = answer
      \/ /\ receiver[t] = "port" /\ receiver'[t] = "receive"
         /\ one_user' = [one_user EXCEPT !.port = A.port]
         /\ answer' = [answer EXCEPT ![t] = NoAnswer]
  BY <1>2 DEF SetAllParams, SetParam
<1>6. /\ \A k \in Threads \ {t} : receiver'[k] = receiver[k] /\ answer'[k] = answer[k]
      /\ receiver' \in [Threads -> {"none", "receive", "short", "name", "ip", "port", "ended"}]
  BY <1>2 DEF SetAllParams, SetParam
<1>7. PhoneTypeOK'
  BY <1>1, <1>2, <1>3, <1>4, <1>5, <1>6 DEF Inv, TypeOK, PhoneTypeOK, IPOrNot, PortOrNot
<1>8. Started' = Started /\ t \in Started
  BY <1>1, <1>2, <1>5, <1>6 DEF Started
<1>9. one_user'.ip \in IpOf(Users) \cup {Nothing} /\ one_user'.port \in PortOf(Users) \cup {Nothing}
  BY <1>2, <1>4, <1>5 DEF Inv, PhoneOK, UserOK, PhoneHoldsAnnounced
<1>10. ThreadOK(t)'
  BY <1>1, <1>2, <1>3, <1>5, <1>8 DEF Inv, PhoneOK, ThreadOK, Alike
<1>11. \A k \in Threads \ {t} : ThreadOK(k)'
  BY <1>1, <1>6, <1>8 DEF Inv, PhoneOK, ThreadOK, Alike
<1>12. UserOK'
  <2> SUFFICES ASSUME NEW k \in Threads, Started = {k}, ~ Storing(k)', (one_user # NoUser)'
               PROVE  [user |-> one_user.name,
                       addr |-> [ip |-> one_user.ip, port |-> one_user.port]]' \in logged
    BY <1>1, <1>8, <1>9 DEF UserOK, PhoneHoldsAnnounced, IpOf, PortOf
  <2>1. k = t
    BY <1>8
  <2>2. receiver[t] = "port"
    BY <1>5, <2>1 DEF Storing
  <2>3. one_user.name = U /\ one_user.ip = A.ip
    BY <2>1, <2>2 DEF Inv, PhoneOK, ThreadOK, Alike
  <2>4. one_user'.name = U /\ one_user'.ip = A.ip /\ one_user'.port = A.port
    BY <1>2, <1>5, <2>2, <2>3
  <2>5. A = [ip |-> A.ip, port |-> A.port]
    BY <1>3 DEF Address
  <2> QED BY <1>3, <2>4, <2>5 DEF Pair
<1>13. ServerTypeOK' /\ ListAnnounced' /\ RobotTypeOK' /\ BookOK' /\ CalleeOK'
  BY <1>1, ServerStays, RobotStays
<1> QED BY <1>1, <1>7, <1>10, <1>11, <1>12, <1>13 DEF Inv, TypeOK, PhoneOK, NetTruthful, Truthful

LEMMA PhoneStepInv ==
  ASSUME Inv, PhoneStep
  PROVE  Inv'
BY SetupInv, ButtonsInv, RestartInv, TakeInv, StoreInv DEF PhoneStep, PhoneUI, SocketThread

-----------------------------------------------------------------------------
(***************************************************************************)
(* The theorems.                                                           *)
(***************************************************************************)

LEMMA InitInv ==
  ASSUME Init
  PROVE  Inv
<1> USE DEF Init, ServerInit, RobotInit, PhoneInit
<1>1. ServerTypeOK /\ ListAnnounced
  BY EmptySeq DEF ServerTypeOK, ListAnnounced
<1>2. RobotTypeOK
  BY DEF RobotTypeOK, Empty, Keys, IPOrNot, PortOrNot, NoAddress
<1>3. PhoneTypeOK
  BY PhoneAssumption DEF PhoneTypeOK, NoUser, IPOrNot, PortOrNot
<1>4. BookOK /\ CalleeOK
  BY DEF BookOK, EntryOK, Empty, CalleeOK
<1>5. Started = {}
  BY DEF Started
<1>6. PhoneOK
  BY <1>5 DEF PhoneOK, ThreadOK, UserOK, PhoneHoldsAnnounced, NoUser
<1> QED BY <1>1, <1>2, <1>3, <1>4, <1>6 DEF Inv, TypeOK, NetTruthful

LEMMA StutterInv ==
  ASSUME Inv, UNCHANGED vars
  PROVE  Inv'
<1>1. UNCHANGED <<net, logged, serverVars, robotVars, phoneVars>>
  BY DEF vars, netVars
<1>2. /\ ServerTypeOK' /\ ListAnnounced' /\ RobotTypeOK' /\ BookOK' /\ CalleeOK'
      /\ PhoneTypeOK' /\ PhoneOK'
  BY <1>1, ServerStays, RobotStays, PhoneStays
<1> QED BY <1>1, <1>2 DEF Inv, TypeOK, NetTruthful, Truthful

LEMMA AlwaysInv == Spec => []Inv
<1>1. Inv /\ [Next]_vars => Inv'
  BY ServerStepInv, RobotStepInv, PhoneStepInv, StutterInv DEF Next
<1> QED BY InitInv, <1>1, PTL DEF Spec

\* Types: in particular the receiver never stores a fifth key, and no message
\* carries a half-known address.
THEOREM Typing == Spec => []TypeOK
<1>1. Inv => TypeOK
  BY DEF Inv
<1> QED BY AlwaysInv, <1>1, PTL

\* The robot says hello to an address of the mobile user and no other.
THEOREM CalleeIsMobile == Spec => []RobotCallsMobile
<1>1. Inv => RobotCallsMobile
  <2> SUFFICES ASSUME Inv, rpc = "echo"
               PROVE  /\ callee.ip \in IpOf({"mobile"}) /\ callee.port \in PortOf({"mobile"})
                      /\ \A a \in Address :
                           {l.addr : l \in {k \in logged : k.user = "mobile"}} = {a} => callee = a
    BY DEF RobotCallsMobile
  <2>1. callee.ip \in IpOf({"mobile"}) /\ callee.port \in PortOf({"mobile"})
    BY DEF Inv, CalleeOK
  <2>2. ASSUME NEW a \in Address,
               {l.addr : l \in {k \in logged : k.user = "mobile"}} = {a}
        PROVE  callee = a
    <3>1. \A l \in logged : l.user = "mobile" => l.addr = a
      BY <2>2
    <3>2. callee.ip = a.ip /\ callee.port = a.port
      BY <2>1, <3>1 DEF IpOf, PortOf
    <3>3. callee \in [ip : IPOrNot, port : PortOrNot]
      BY DEF Inv, TypeOK, RobotTypeOK
    <3> QED BY <3>2, <3>3 DEF Address
  <2> QED BY <2>1, <2>2
<1> QED BY AlwaysInv, <1>1, PTL

\* The robot's program fails nowhere but in the race of its two threads, and
\* there only on the entry, or for the entry, the receiver writes.
THEOREM RobotFailsInRace == Spec => RobotEndsInTheRace
<1>1. Inv /\ [Next]_vars =>
        [Running /\ ~Running' =>
           \/ rpc = "scan" /\ (storing.user \in todo \/ known # listed)
           \/ rpc \in {"connect", "port"} /\ storing.user = "mobile"]_vars
  <2> SUFFICES ASSUME Inv, Next, Running, ~Running'
               PROVE  \/ rpc = "scan" /\ (storing.user \in todo \/ known # listed)
                      \/ rpc \in {"connect", "port"} /\ storing.user = "mobile"
    BY DEF vars
  <2>1. /\ \A u \in known : book[u].keys < Keys => storing.user = u
        /\ todo \subseteq listed /\ known \subseteq Users
    BY DEF Inv, BookOK, EntryOK, BeingStored, TypeOK, RobotTypeOK
  <2>2. \A u \in Users : book[u].keys \in 0..Keys
    BY DEF Inv, TypeOK, RobotTypeOK
  <2>3. rpc # "ended" /\ rpc' = "ended"
    BY DEF Running
  <2>4. RobotMain
    BY <2>3 DEF Next, ServerStep, RobotStep, PhoneStep, RobotReceive, RobotStore, robotVars, mainVars
  <2>5. CASE Scan
    <3>1. PICK u \in todo : book[u].keys < Keys
      BY <2>3, <2>5 DEF Scan
    <3>2. storing.user = u
      BY <2>1, <2>5, <3>1 DEF Scan
    <3> QED BY <2>5, <3>2 DEF Scan
  <2>6. CASE ScanBroken
    BY <2>6 DEF ScanBroken
  <2>7. CASE ScanOver
    BY <2>3, <2>7 DEF ScanOver, Inv, TypeOK, RobotTypeOK
  <2>8. CASE ConnectIp \/ ConnectPort
    <3>1. "mobile" \in known /\ book["mobile"].keys \in Nat
      BY <2>1, <2>2, <2>8 DEF ConnectIp, ConnectPort, Inv, CalleeOK, Keys
    <3>2. rpc \in {"connect", "port"} /\ (book["mobile"].keys < 1 \/ book["mobile"].keys < 2)
      BY <2>3, <2>8 DEF ConnectIp, ConnectPort
    <3>3. book["mobile"].keys < Keys
      BY <3>1, <3>2 DEF Keys
    <3> QED BY <2>1, <3>1, <3>2, <3>3
  <2>9. CASE RobotLogin \/ GetAllUser \/ ListUsers \/ RobotEcho
    BY <2>3, <2>9 DEF RobotLogin, GetAllUser, ListUsers, RobotEcho, robotVars, mainVars
  <2> QED BY <2>4, <2>5, <2>6, <2>7, <2>8, <2>9 DEF RobotMain
<1> QED BY AlwaysInv, <1>1, PTL DEF Spec, RobotEndsInTheRace

\* What the phone holds was announced, and if one thread wrote it, as a whole.
THEOREM PhoneIsTold == Spec => []PhoneHoldsAnnounced
<1>1. Inv => PhoneHoldsAnnounced
  BY DEF Inv, PhoneOK, UserOK
<1> QED BY AlwaysInv, <1>1, PTL

=============================================================================
