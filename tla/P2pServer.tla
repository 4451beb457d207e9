----------------------------- MODULE P2pServer ------------------------------
(***************************************************************************)
(* p2p-server.py, the rendezvous server.  Its handler thread takes logins  *)
(* and answers requests for the list of users; its main thread sends       *)
(* keepconnect to one entry of the list after the other, for ever.  Only   *)
(* the handler changes the list, and only by appending to it, so that one  *)
(* datagram and all its answers are one step.                              *)
(***************************************************************************)
EXTENDS Datagrams, Sequences

CONSTANT MaxEntries   \* bound: logins the server takes

ASSUME ServerAssumption == MaxEntries \in Nat

VARIABLES user_list,  \* sequence of [user, addr], never shortened
          nextUser    \* where main's "for one_user in user_list" stands

serverVars == <<user_list, nextUser>>

ServerInit == user_list = <<>> /\ nextUser = 1

\* Mutant: the address is the one the server saw last, not the sender's.
AddUserOfLast(list, m) ==
  Append(list, [user |-> m.user,
                addr |-> IF list = <<>> THEN m.at ELSE list[Len(list)].addr])

\* Every login is appended, whether its user is listed already or not.
AddUser(list, m) == Append(list, [user |-> m.user, addr |-> m.at])

\* Mutant: the entry added last is left out.
AnswersButLast(list, a) == {Entry(a, list[i]) : i \in 1..Len(list) - 1}

\* One datagram per entry, to whoever asked.
Answers(list, a) == {Entry(a, list[i]) : i \in DOMAIN list}

HandleLogin(m) ==
  /\ m.kind = "login" /\ Len(user_list) < MaxEntries
  /\ user_list' = AddUser(user_list, m)
  /\ Exchange(m, {Plain("info", m.at)})

HandleGetAllUser(m) ==
  /\ m.kind = "getalluser"
  /\ Exchange(m, Answers(user_list, m.at))
  /\ UNCHANGED user_list

HandleAlive(m) ==
  /\ m.kind = "alive"
  /\ Exchange(m, {})
  /\ UNCHANGED user_list

\* server_handle, the thread's loop body.
ServerHandle(m) ==
  /\ m \in net
  /\ HandleLogin(m) \/ HandleGetAllUser(m) \/ HandleAlive(m)
  /\ UNCHANGED <<nextUser, logged>>

\* The list may have grown while main slept: its iterator goes on with the
\* new entries and starts over when there are none left.
NextTurn(i, n) == IF i > n THEN 1 ELSE i

\* One turn of main's loop; over an empty list it just spins.
KeepConnect ==
  /\ user_list # <<>>
  /\ LET i == NextTurn(nextUser, Len(user_list)) IN
       /\ Send({Plain("keepconnect", user_list[i].addr)})
       /\ nextUser' = i + 1
  /\ UNCHANGED <<user_list, logged>>
=============================================================================
