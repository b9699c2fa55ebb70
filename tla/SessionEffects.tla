--------------------------- MODULE SessionEffects ----------------------------
(***************************************************************************)
(* What the message handlers do to a session, as the peers see it: the     *)
(* forms of an exchange, and what a peer may rely on between two of them.  *)
(***************************************************************************)
EXTENDS ServerManager

\* The answers of the handlers, by what they leave behind: an error and nothing
\* else, or CHAT_OK with one of the changes below.
NothingDone == reply'.status # "CHAT_OK" /\ usersByFd' = usersByFd /\ told' = told

SessionOpened(fd) ==
  /\ \E n \in Names, p \in Passwords :
       /\ request' \in {<<"OPCODE_REGISTER", n, p>>, <<"OPCODE_LOGIN", n, p>>}
       /\ usersByFd' = HashMap_Insert(usersByFd, fd, n)
  /\ fd \notin DOMAIN usersByFd
  /\ told' = told

SessionClosed(fd) ==
  /\ request' \in {<<"OPCODE_LOGOUT">>, <<"OPCODE_EXIT">>}
  /\ usersByFd' = HashMap_Remove(usersByFd, fd)
  /\ told' = [told EXCEPT ![fd] = {}]

RoomEntered(fd) ==
  \E g \in GroupNames :
    /\ request' \in {<<"OPCODE_CREATE_GROUP", g>>, <<"OPCODE_JOIN_GROUP", g>>}
    /\ usersByFd' = usersByFd
    /\ g \in DOMAIN groups'
    /\ told' = [told EXCEPT ![fd] = @ \cup {<<g, groups'[g].port>>}]

RoomLeft(fd) ==
  \E g \in GroupNames :
    /\ request' = <<"OPCODE_LEAVE_GROUP", g>>
    /\ usersByFd' = usersByFd
    /\ told' = [told EXCEPT ![fd] = {e \in @ : e[1] # g}]

Listed ==
  /\ request' \in {<<"OPCODE_LIST_USERS">>, <<"OPCODE_LIST_GROUPS">>}
  /\ usersByFd' = usersByFd
  /\ told' = told

Effect(fd) ==
  \/ NothingDone
  \/ /\ reply'.status = "CHAT_OK"
     /\ SessionOpened(fd) \/ SessionClosed(fd) \/ RoomEntered(fd) \/ RoomLeft(fd) \/ Listed

\* What holds between two exchanges: who has no session was told of no endpoint,
\* and who has one is connected.
ServerSide ==
  /\ told \in [Fds -> SUBSET (GroupNames \X Ports)]
  /\ \A fd \in Fds : ~IsFdLoggedIn(fd) => told[fd] = {}
  /\ DOMAIN usersByFd \subseteq Fds
  /\ DOMAIN usersByFd \subseteq conns
  /\ \A g \in DOMAIN groups : groups[g].port \in Ports

=============================================================================
