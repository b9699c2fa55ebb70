---------------------------- MODULE ServerManager ----------------------------
(***************************************************************************)
(* ServerMng/ServerManager.c: the request handlers of the chat server,     *)
(* over UserManager and GroupManager. All callbacks run on the connection  *)
(* handler's one worker thread, so a whole handler is one action; the      *)
(* requests of different connections come in any order. A peer may send    *)
(* any request at any time, whatever the menu of the bundled client shows. *)
(***************************************************************************)
EXTENDS UserManager, GroupManager

VARIABLES
  conns,    \* the fds of the connections the handler has registered
  request,  \* the last message received
  reply,    \* the last OPCODE_RESPONSE sent, and whether a SOFT_ASSERT failed on the way
  told      \* told[fd]: the endpoints given to the peer on fd for groups it has not left since

vars == <<usersByName, usersByFd, groups, conns, request, reply, told>>

Reply == [fd: Fds \cup {NoFd}, status: ChatStatus, softAssert: BOOLEAN]

NoReply == [fd |-> NoFd, status |-> "CHAT_OK", softAssert |-> FALSE]

Init ==
  /\ UserManager_Create
  /\ GroupManager_Create
  /\ conns = {}
  /\ request = <<"OTHER">>
  /\ reply = NoReply
  /\ told = [fd \in Fds |-> {}]

SendOrLog(fd, status) == reply' = [fd |-> fd, status |-> status, softAssert |-> FALSE]

SendAfterSoftAssert(fd, status) == reply' = [fd |-> fd, status |-> status, softAssert |-> TRUE]

-----------------------------------------------------------------------------
(* Shared parts of the handlers.                                           *)

\* LeaveAllGroups for a user in the groups gset: the loop gives up each group in
\* turn, and the turns touch different groups.
LeaveAllGroups(gs, gset) ==
  LET left == [g \in DOMAIN gs |->
                 IF g \in gset /\ gs[g].refCount > 0
                 THEN [gs[g] EXCEPT !.refCount = @ - 1] ELSE gs[g]]
      kept == {g \in DOMAIN gs : ~(g \in gset /\ left[g].refCount = 0)}
  IN  [g \in kept |-> left[g]]

\* CleanupSession: does nothing when the connection has no session.
CleanupSession(fd) ==
  IF IsFdLoggedIn(fd)
  THEN /\ groups' = LeaveAllGroups(groups, GetUserGroups(fd))
       /\ \E r \in UserManagerResult : Logout(fd, r)
  ELSE UNCHANGED <<groups, umVars>>

\* Faulty: the endpoint is the one AllocateGroupEndpoint chose last.
SendLastEndpoint(gs, fd, g) ==
  /\ SendOrLog(fd, "CHAT_OK")
  /\ told' = [told EXCEPT ![fd] = @ \cup {<<g, AllocateGroupEndpoint(gs) - 1>>}]

\* SendGroupEndpoint: the endpoint of g in gs goes to the peer.
SendGroupEndpoint(gs, fd, g) ==
  IF g \in DOMAIN gs
  THEN /\ SendOrLog(fd, "CHAT_OK")
       /\ told' = [told EXCEPT ![fd] = @ \cup {<<g, gs[g].port>>}]
  ELSE /\ SendAfterSoftAssert(fd, "CHAT_ERR_GENERIC")
       /\ UNCHANGED told

-----------------------------------------------------------------------------
(* The handlers of the action table.                                       *)

ActionRegister(fd, n, p) ==
  /\ \E r \in UserManagerResult :
       /\ AddUser(fd, n, p, r)
       /\ SendOrLog(fd, IF r = "SUCCESS" THEN "CHAT_OK" ELSE "CHAT_ERR_BAD_CREDS")
  /\ UNCHANGED <<groups, conns, told>>

ActionLogin(fd, n, p) ==
  /\ \E r \in UserManagerResult :
       /\ Login(fd, n, p, r)
       /\ SendOrLog(fd, IF r = "SUCCESS" THEN "CHAT_OK"
                        ELSE IF r = "ALREADY_LOG" THEN "CHAT_ERR_ALREADY_LOGGED_IN"
                        ELSE "CHAT_ERR_BAD_CREDS")
  /\ UNCHANGED <<groups, conns, told>>

ActionLogout(fd) ==
  /\ \/ /\ ~IsFdLoggedIn(fd)
        /\ SendAfterSoftAssert(fd, "CHAT_ERR_NOT_LOGGED_IN")
        /\ UNCHANGED <<umVars, groups, told>>
     \/ /\ IsFdLoggedIn(fd)
        /\ groups' = LeaveAllGroups(groups, GetUserGroups(fd))
        /\ \E r \in UserManagerResult :
             /\ Logout(fd, r)
             /\ IF r = "SUCCESS" THEN SendOrLog(fd, "CHAT_OK")
                                 ELSE SendAfterSoftAssert(fd, "CHAT_ERR_BAD_CREDS")
        /\ told' = [told EXCEPT ![fd] = {}]
  /\ UNCHANGED conns

ActionExit(fd) ==
  /\ CleanupSession(fd)
  /\ SendOrLog(fd, "CHAT_OK")
  /\ told' = [told EXCEPT ![fd] = {}]
  /\ UNCHANGED conns

\* The group is created before the caller is known to be logged in, and taken
\* back when the caller cannot be put into it.
ActionCreateGroup(fd, g) ==
  LET added == AddGroup(groups, g)
  IN  /\ \/ /\ SendOrLog(fd, "CHAT_ERR_GENERIC")   \* refused, or out of memory
            /\ UNCHANGED <<umVars, groups, told>>
         \/ /\ AddGroupResult(groups, g) = "SUCCESS"
            /\ \E r \in UserManagerResult :
                 /\ AddUserToGroup(fd, g, r)
                 /\ \/ /\ r # "SUCCESS"
                       /\ groups' = RemoveGroupIfEmpty(RemoveGroupIfEmpty(added, g), g)
                       /\ SendOrLog(fd, "CHAT_ERR_GENERIC")
                       /\ UNCHANGED told
                    \/ /\ r = "SUCCESS"
                       /\ groups' = IncreaseGroupRefCount(added, g)
                       /\ SendGroupEndpoint(IncreaseGroupRefCount(added, g), fd, g)
      /\ UNCHANGED conns

ActionJoinGroup(fd, g) ==
  /\ \/ /\ g \notin DOMAIN groups
        /\ SendOrLog(fd, "CHAT_ERR_GENERIC")
        /\ UNCHANGED <<umVars, groups, told>>
     \/ /\ g \in DOMAIN groups
        /\ ~IsFdLoggedIn(fd)
        /\ SendOrLog(fd, "CHAT_ERR_NOT_LOGGED_IN")
        /\ UNCHANGED <<umVars, groups, told>>
     \/ /\ g \in DOMAIN groups
        /\ IsFdLoggedIn(fd)
        /\ \E r \in UserManagerResult :
             /\ AddUserToGroup(fd, g, r)
             /\ \/ /\ r # "SUCCESS"
                   /\ SendOrLog(fd, "CHAT_ERR_GENERIC")
                   /\ UNCHANGED <<groups, told>>
                \/ /\ r = "SUCCESS"
                   /\ groups' = IncreaseGroupRefCount(groups, g)
                   /\ SendGroupEndpoint(IncreaseGroupRefCount(groups, g), fd, g)
  /\ UNCHANGED conns

ActionLeaveGroup(fd, g) ==
  /\ \/ /\ g \notin DOMAIN groups
        /\ SendOrLog(fd, "CHAT_ERR_GENERIC")
        /\ UNCHANGED <<umVars, groups, told>>
     \/ /\ g \in DOMAIN groups
        /\ ~IsFdLoggedIn(fd)
        /\ SendOrLog(fd, "CHAT_ERR_NOT_LOGGED_IN")
        /\ UNCHANGED <<umVars, groups, told>>
     \/ /\ g \in DOMAIN groups
        /\ IsFdLoggedIn(fd)
        /\ ~IsUserInGroup(fd, g)
        /\ SendOrLog(fd, "CHAT_ERR_NOT_IN_GROUP")
        /\ UNCHANGED <<umVars, groups, told>>
     \/ /\ g \in DOMAIN groups
        /\ IsFdLoggedIn(fd)
        /\ IsUserInGroup(fd, g)
        /\ RemoveUserFromGroup(fd, g, "SUCCESS")
        /\ IF groups[g].refCount = 0          \* GROUP_MANAGER_RESULT_EMPTY_GROUP
           THEN /\ SendOrLog(fd, "CHAT_ERR_GENERIC")
                /\ UNCHANGED <<groups, told>>
           ELSE /\ groups' = RemoveGroupIfEmpty(DecreaseGroupRefCount(groups, g), g)
                /\ SendOrLog(fd, "CHAT_OK")
                /\ told' = [told EXCEPT ![fd] = {e \in @ : e[1] # g}]
  /\ UNCHANGED conns

ActionListUsers(fd) == SendOrLog(fd, "CHAT_OK") /\ UNCHANGED <<umVars, groups, conns, told>>

ActionListGroups(fd) == SendOrLog(fd, "CHAT_OK") /\ UNCHANGED <<umVars, groups, conns, told>>

-----------------------------------------------------------------------------
(* The three callbacks of the transport.                                   *)

CallbackNewConnection(fd) ==
  /\ fd \notin conns
  /\ conns' = conns \cup {fd}
  /\ UNCHANGED <<umVars, groups, request, reply, told>>

\* Faulty: the session outlives its connection.
DisconnectWithoutCleanup(fd) ==
  /\ fd \in conns
  /\ conns' = conns \ {fd}
  /\ told' = [told EXCEPT ![fd] = {}]
  /\ UNCHANGED <<umVars, groups, request, reply>>

\* The transport also reports the end of a connection whose fd select() cannot
\* watch, and whose beginning it never reported; that call finds no session.
CallbackDisconnect(fd) ==
  /\ fd \in conns
  /\ CleanupSession(fd)
  /\ conns' = conns \ {fd}
  /\ told' = [told EXCEPT ![fd] = {}]
  /\ UNCHANGED <<request, reply>>

\* A message that does not decode, and one whose opcode has no action.
RefuseMessage(fd) ==
  /\ \E status \in {"CHAT_ERR_MALFORMED", "CHAT_ERR_GENERIC"} : SendOrLog(fd, status)
  /\ UNCHANGED <<umVars, groups, conns, told>>

\* The action table, by opcode.
FindAction(fd) ==
  \/ \E n \in Names, p \in Passwords :
       \/ request' = <<"OPCODE_REGISTER", n, p>> /\ ActionRegister(fd, n, p)
       \/ request' = <<"OPCODE_LOGIN", n, p>> /\ ActionLogin(fd, n, p)
  \/ request' = <<"OPCODE_LOGOUT">> /\ ActionLogout(fd)
  \/ request' = <<"OPCODE_EXIT">> /\ ActionExit(fd)
  \/ \E g \in GroupNames :
       \/ request' = <<"OPCODE_CREATE_GROUP", g>> /\ ActionCreateGroup(fd, g)
       \/ request' = <<"OPCODE_JOIN_GROUP", g>> /\ ActionJoinGroup(fd, g)
       \/ request' = <<"OPCODE_LEAVE_GROUP", g>> /\ ActionLeaveGroup(fd, g)
  \/ request' = <<"OPCODE_LIST_USERS">> /\ ActionListUsers(fd)
  \/ request' = <<"OPCODE_LIST_GROUPS">> /\ ActionListGroups(fd)

CallbackRecv(fd) ==
  /\ fd \in conns
  /\ \/ request' = <<"OTHER">> /\ RefuseMessage(fd)
     \/ FindAction(fd)

Next == \E fd \in Fds : CallbackNewConnection(fd) \/ CallbackRecv(fd) \/ CallbackDisconnect(fd)

Spec == Init /\ [][Next]_vars

-----------------------------------------------------------------------------
(* Properties.                                                             *)

Members(g) == {n \in DOMAIN usersByName : g \in usersByName[n].groups}

TypeOK ==
  /\ UserManagerTypeOK
  /\ GroupManagerTypeOK
  /\ conns \subseteq Fds
  /\ request \in Request
  /\ reply \in Reply
  /\ told \in [Fds -> SUBSET (GroupNames \X Ports)]

\* A group's reference count is the number of users whose list names it, it is
\* never zero between two requests, and no list names a group that is gone:
\* create, join, leave, logout, exit and disconnect keep the users' lists
\* (UserManager) and the counts (GroupManager) in step, also when a create is
\* rolled back half way (ServerManager.c:386-420).
RefCountIsMembership ==
  /\ \A g \in DOMAIN groups : groups[g].refCount = Cardinality(Members(g)) /\ Members(g) # {}
  /\ \A g \in GroupNames \ DOMAIN groups : Members(g) = {}

\* A session belongs to an open connection: an fd the kernel hands out again
\* never starts with the previous peer's login (ServerManagerCallbackDisconnect).
SessionsAreConnected == DOMAIN usersByFd \subseteq conns

\* The endpoints a peer was given and has not given up are the endpoints of the
\* groups its user is in, as they are now: a group removed and created again,
\* with another port, never leaves a member listening on the old one
\* (ServerManager_SendGroupEndpoint, GroupManager_RemoveGroupIfEmpty).
ToldEndpointsAreCurrent ==
  \A fd \in Fds : told[fd] = {<<g, groups[g].port>> : g \in GetUserGroups(fd)}

\* A login on a connection lasts until that connection logs out, exits or
\* disconnects: no other request moves the session to another user.
SessionNeverStolen ==
  [][\A fd \in DOMAIN usersByFd \cap DOMAIN usersByFd' : usersByFd'[fd] = usersByFd[fd]]_vars

\* The SOFT_ASSERTs after a logout and before an endpoint is sent ("condition that
\* must NEVER be false", utils/logger.h:62; ServerManager.c:266 and :366) do not
\* fire: a user found by fd can be logged out, and a group just created or joined
\* is there. The first one of ActionLogout is the subject of LogoutAssertHolds.
SoftAssertsHold == reply.softAssert => reply.status = "CHAT_ERR_NOT_LOGGED_IN"

\* ... and the first one of ActionLogout: a LOGOUT comes from a logged-in peer.
LogoutAssertHolds == ~(reply.softAssert /\ reply.status = "CHAT_ERR_NOT_LOGGED_IN")

\* The server as its clients see it.
Rooms == INSTANCE ChatRooms WITH
  accounts <- [n \in DOMAIN usersByName |-> usersByName[n].password],
  session <- usersByFd,
  members <- [g \in GroupNames |-> Members(g)],
  outcome <- [fd |-> reply.fd, request |-> request, ok |-> reply.status = "CHAT_OK"]

\* The handlers implement ChatRooms: a request answered CHAT_OK has its whole
\* effect and one answered with an error has none, and a room exists exactly while
\* it has members, whatever the order in which connections register, log in,
\* create, join, leave, exit and drop, and wherever memory runs out.
RoomsPromise == Rooms!RoomsSpec

=============================================================================
