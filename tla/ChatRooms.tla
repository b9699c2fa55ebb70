------------------------------ MODULE ChatRooms ------------------------------
(***************************************************************************)
(* What the chat server promises its clients, without hash maps, reference *)
(* counts or fd bookkeeping: accounts that are never lost, at most one     *)
(* session per connection and per account, and rooms that exist exactly    *)
(* while somebody is in them. A request is either granted, and then it has *)
(* its whole effect, or refused, and then it has none.                     *)
(***************************************************************************)
EXTENDS HashMap, ChatTypes

VARIABLES
  accounts,  \* name -> password
  session,   \* fd -> name
  members,   \* members[g]: the names in room g, {} when there is no such room
  outcome    \* the last request and its answer

roomVars == <<accounts, session, members, outcome>>

LoggedIn(n) == \E fd \in DOMAIN session : session[fd] = n

Grant(fd, req) == outcome' = [fd |-> fd, request |-> req, ok |-> TRUE]

RoomsInit ==
  /\ accounts = HashMap_Create
  /\ session = HashMap_Create
  /\ members = [g \in GroupNames |-> {}]
  /\ outcome = [fd |-> NoFd, request |-> <<"OTHER">>, ok |-> TRUE]

Register(fd, n, p) ==
  /\ n \notin DOMAIN accounts
  /\ fd \notin DOMAIN session
  /\ accounts' = HashMap_Insert(accounts, n, p)
  /\ session' = HashMap_Insert(session, fd, n)
  /\ Grant(fd, <<"OPCODE_REGISTER", n, p>>)
  /\ UNCHANGED members

OpenSession(fd, n, p) ==
  /\ n \in DOMAIN accounts
  /\ accounts[n] = p
  /\ ~LoggedIn(n)
  /\ fd \notin DOMAIN session
  /\ session' = HashMap_Insert(session, fd, n)
  /\ Grant(fd, <<"OPCODE_LOGIN", n, p>>)
  /\ UNCHANGED <<accounts, members>>

\* By request, with an answer, or because the connection is gone.
EndSession(fd) ==
  /\ fd \in DOMAIN session
  /\ session' = HashMap_Remove(session, fd)
  /\ members' = [g \in GroupNames |-> members[g] \ {session[fd]}]
  /\ Grant(fd, <<"OPCODE_LOGOUT">>) \/ Grant(fd, <<"OPCODE_EXIT">>) \/ UNCHANGED outcome
  /\ UNCHANGED accounts

Enter(fd, g) ==
  /\ fd \in DOMAIN session
  /\ session[fd] \notin members[g]
  /\ members' = [members EXCEPT ![g] = @ \cup {session[fd]}]
  /\ UNCHANGED <<accounts, session>>

CreateRoom(fd, g) == members[g] = {} /\ Enter(fd, g) /\ Grant(fd, <<"OPCODE_CREATE_GROUP", g>>)

JoinRoom(fd, g) == members[g] # {} /\ Enter(fd, g) /\ Grant(fd, <<"OPCODE_JOIN_GROUP", g>>)

LeaveRoom(fd, g) ==
  /\ fd \in DOMAIN session
  /\ session[fd] \in members[g]
  /\ members' = [members EXCEPT ![g] = @ \ {session[fd]}]
  /\ Grant(fd, <<"OPCODE_LEAVE_GROUP", g>>)
  /\ UNCHANGED <<accounts, session>>

\* A listing, or a farewell without a session.
Inform(fd) ==
  /\ \/ Grant(fd, <<"OPCODE_LIST_USERS">>) \/ Grant(fd, <<"OPCODE_LIST_GROUPS">>)
     \/ fd \notin DOMAIN session /\ Grant(fd, <<"OPCODE_EXIT">>)
  /\ UNCHANGED <<accounts, session, members>>

Refuse(fd) ==
  /\ \E req \in Request : outcome' = [fd |-> fd, request |-> req, ok |-> FALSE]
  /\ UNCHANGED <<accounts, session, members>>

RoomsNext ==
  \E fd \in Fds :
    \/ \E n \in Names, p \in Passwords : Register(fd, n, p) \/ OpenSession(fd, n, p)
    \/ EndSession(fd)
    \/ \E g \in GroupNames : CreateRoom(fd, g) \/ JoinRoom(fd, g) \/ LeaveRoom(fd, g)
    \/ Inform(fd)
    \/ Refuse(fd)

RoomsSpec == RoomsInit /\ [][RoomsNext]_roomVars

=============================================================================
