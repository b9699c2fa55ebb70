----------------------------- MODULE RoomsProofs -----------------------------
(***************************************************************************)
(* The request handlers implement ChatRooms, for any number of             *)
(* connections, names and groups.                                          *)
(***************************************************************************)
EXTENDS ServerManagerProofs

\* The provers of a leaf that names none, in the order they are tried.
USE SMT, ZenonT(30), SMTT(30), ZenonT(60)

-----------------------------------------------------------------------------
(* How answers map.                                                        *)

\* CHAT_OK is a grant of the request that was received.
LEMMA Granted ==
  ASSUME NEW fd, SendOrLog(fd, "CHAT_OK")
  PROVE  Rooms!Grant(fd, request')
<1>1. reply'.fd = fd /\ reply'.status = "CHAT_OK"
  BY DEF SendOrLog
<1> QED BY <1>1, ZenonT(30), ZenonT(60) DEF Rooms!Grant

\* Any other status is a refusal.
LEMMA NotGranted ==
  ASSUME NEW fd, NEW status, SendOrLog(fd, status) \/ SendAfterSoftAssert(fd, status),
         status # "CHAT_OK"
  PROVE  [fd |-> reply.fd, request |-> request, ok |-> reply.status = "CHAT_OK"]' =
           [fd |-> fd, request |-> request', ok |-> FALSE]
<1>1. reply'.fd = fd /\ reply'.status # "CHAT_OK"
  BY DEF SendOrLog, SendAfterSoftAssert
<1>2. (reply'.status = "CHAT_OK") = FALSE
  BY <1>1
<1> QED BY <1>1, <1>2, ZenonT(30), ZenonT(60)

\* A refused operation changes nothing that ChatRooms sees.
LEMMA RefusedMaps ==
  ASSUME UMInv, RefusedUM
  PROVE  /\ [n \in DOMAIN usersByName |-> usersByName[n].password]' =
              [n \in DOMAIN usersByName |-> usersByName[n].password]
         /\ usersByFd' = usersByFd
         /\ [g \in GroupNames |-> Members(g)]' = [g \in GroupNames |-> Members(g)]
<1>1. \A g \in GroupNames : Members(g)' = Members(g)
  BY RefusedMembers
<1>2. [g \in GroupNames |-> Members(g)]' = [g \in GroupNames |-> Members(g)]
  BY <1>1
<1> QED BY <1>2 DEF RefusedUM, KeepsUser

\* An error answer without an effect is a Refuse.
LEMMA RefusedStep ==
  ASSUME UMInv, RefusedUM, request' \in Request, NEW fd \in Fds, NEW status, status # "CHAT_OK",
         SendOrLog(fd, status) \/ SendAfterSoftAssert(fd, status)
  PROVE  Rooms!RoomsNext
<1>1. Rooms!Refuse(fd)
  BY NotGranted, RefusedMaps DEF Rooms!Refuse, Rooms!Request, Request
<1> QED BY <1>1 DEF Rooms!RoomsNext

\* A listing, and an exit without a session, inform.
LEMMA InformStep ==
  ASSUME IInv, UNCHANGED umVars, NEW fd \in Fds, SendOrLog(fd, "CHAT_OK"),
         \/ request' \in {<<"OPCODE_LIST_USERS">>, <<"OPCODE_LIST_GROUPS">>}
         \/ request' = <<"OPCODE_EXIT">> /\ ~IsFdLoggedIn(fd)
  PROVE  Rooms!RoomsNext
<1>1. UMInv /\ RefusedUM
  BY Untouched DEF IInv
<1>2. Rooms!Inform(fd)
  BY <1>1, Granted, RefusedMaps DEF Rooms!Inform, IsFdLoggedIn
<1> QED BY <1>2 DEF Rooms!RoomsNext

-----------------------------------------------------------------------------
(* How the handlers map.                                                   *)

\* ActionRegister.
LEMMA RegisterStep ==
  ASSUME IInv, NEW fd \in Fds, NEW n \in Names, NEW p \in Passwords,
         request' = <<"OPCODE_REGISTER", n, p>>, ActionRegister(fd, n, p)
  PROVE  Rooms!RoomsNext
<1>1. PICK r \in UserManagerResult :
        /\ AddUser(fd, n, p, r)
        /\ SendOrLog(fd, IF r = "SUCCESS" THEN "CHAT_OK" ELSE "CHAT_ERR_BAD_CREDS")
  BY DEF ActionRegister
<1>2. UMInv
  BY DEF IInv
<1>3. CASE r # "SUCCESS"
  <2>1. RefusedUM
    BY <1>1, <1>2, <1>3, AddUserEffect, ZenonT(30), ZenonT(60)
  <2> QED BY <1>1, <1>2, <1>3, <2>1, RefusedStep DEF Request
<1>4. CASE r = "SUCCESS"
  <2>1. /\ UMInv'
        /\ n \notin DOMAIN usersByName
        /\ fd \notin DOMAIN usersByFd
        /\ DOMAIN usersByName' = DOMAIN usersByName \cup {n}
        /\ \A x \in DOMAIN usersByName : KeepsUser(x)
        /\ usersByName'[n].password = p
        /\ usersByName'[n].groups = {}
        /\ usersByFd' = HashMap_Insert(usersByFd, fd, n)
    BY <1>1, <1>2, <1>4, AddUserEffect, ZenonT(30), ZenonT(60)
  <2>2. \A g \in GroupNames : Members(g)' = Members(g)
    BY <1>2, <2>1, NewSessionMembers
  <2>3. [g \in GroupNames |-> Members(g)]' = [g \in GroupNames |-> Members(g)]
    BY <2>2
  <2>4. [x \in DOMAIN usersByName |-> usersByName[x].password]' =
          HashMap_Insert([x \in DOMAIN usersByName |-> usersByName[x].password], n, p)
    BY <2>1 DEF HashMap_Insert, KeepsUser
  <2>5. Rooms!Grant(fd, <<"OPCODE_REGISTER", n, p>>)
    BY <1>1, <1>4, Granted
  <2>6. Rooms!Register(fd, n, p)
    BY <2>1, <2>3, <2>4, <2>5 DEF Rooms!Register, Rooms!HashMap_Insert, HashMap_Insert
  <2> QED BY <2>6 DEF Rooms!RoomsNext
<1> QED BY <1>3, <1>4

\* ActionLogin.
LEMMA LoginStep ==
  ASSUME IInv, NEW fd \in Fds, NEW n \in Names, NEW p \in Passwords,
         request' = <<"OPCODE_LOGIN", n, p>>, ActionLogin(fd, n, p)
  PROVE  Rooms!RoomsNext
<1>1. PICK r \in UserManagerResult :
        /\ Login(fd, n, p, r)
        /\ SendOrLog(fd, IF r = "SUCCESS" THEN "CHAT_OK"
                         ELSE IF r = "ALREADY_LOG" THEN "CHAT_ERR_ALREADY_LOGGED_IN"
                         ELSE "CHAT_ERR_BAD_CREDS")
  BY DEF ActionLogin
<1>2. UMInv
  BY DEF IInv
<1>3. CASE r # "SUCCESS"
  <2>1. RefusedUM
    BY <1>1, <1>2, <1>3, LoginEffect
  <2> QED BY <1>1, <1>2, <1>3, <2>1, RefusedStep DEF Request
<1>4. CASE r = "SUCCESS"
  <2>1. /\ UMInv'
        /\ n \in DOMAIN usersByName
        /\ usersByName[n].state = "USER_STATE_OFFLINE"
        /\ fd \notin DOMAIN usersByFd
        /\ DOMAIN usersByName' = DOMAIN usersByName
        /\ \A x \in DOMAIN usersByName : KeepsUser(x)
        /\ usersByFd' = HashMap_Insert(usersByFd, fd, n)
    BY <1>1, <1>2, <1>4, LoginEffect
  <2>2. usersByName'[n].groups = {}
    BY <1>2, <2>1 DEF UMInv, OfflineUsersHaveNoGroups, KeepsUser
  <2>3. \A g \in GroupNames : Members(g)' = Members(g)
    BY <1>2, <2>1, <2>2, NewSessionMembers
  <2>4. [g \in GroupNames |-> Members(g)]' = [g \in GroupNames |-> Members(g)]
    BY <2>3
  <2>5. [x \in DOMAIN usersByName |-> usersByName[x].password]' =
          [x \in DOMAIN usersByName |-> usersByName[x].password]
    BY <2>1 DEF KeepsUser
  <2>6. ~Rooms!LoggedIn(n)
    BY <1>2, <2>1 DEF Rooms!LoggedIn, UMInv, IndexesAgree, UserOf
  <2>7. Rooms!Grant(fd, <<"OPCODE_LOGIN", n, p>>)
    BY <1>1, <1>4, Granted
  <2>8. usersByName[n].password = p
    BY <1>1, <1>4, <2>1 DEF Login, LoginResult
  <2>9. Rooms!OpenSession(fd, n, p)
    BY <2>1, <2>4, <2>5, <2>6, <2>7, <2>8 DEF Rooms!OpenSession, Rooms!HashMap_Insert, HashMap_Insert
  <2> QED BY <2>9 DEF Rooms!RoomsNext
<1> QED BY <1>3, <1>4

\* ActionLogout, ActionExit and CallbackDisconnect of a logged-in connection.
LEMMA SessionEndStep ==
  ASSUME IInv, NEW fd \in Fds, NEW r, IsFdLoggedIn(fd), Logout(fd, r),
         \/ request' \in {<<"OPCODE_LOGOUT">>, <<"OPCODE_EXIT">>} /\ SendOrLog(fd, "CHAT_OK")
         \/ UNCHANGED <<request, reply>>
  PROVE  Rooms!RoomsNext
<1>1. fd \in DOMAIN usersByFd /\ UMInv
  BY DEF IInv, IsFdLoggedIn
<1>2. /\ DOMAIN usersByName' = DOMAIN usersByName
      /\ \A x \in DOMAIN usersByName \ {usersByFd[fd]} : KeepsUser(x)
      /\ usersByName'[usersByFd[fd]].password = usersByName[usersByFd[fd]].password
      /\ usersByName'[usersByFd[fd]].groups = {}
      /\ usersByFd' = HashMap_Remove(usersByFd, fd)
  BY <1>1, LogoutEffect
<1>3. \A g \in GroupNames : Members(g)' = Members(g) \ {usersByFd[fd]}
  BY <1>1, <1>2, ChangedMembers
<1>4. [g \in GroupNames |-> Members(g)]' =
        [g \in GroupNames |-> [h \in GroupNames |-> Members(h)][g] \ {usersByFd[fd]}]
  BY <1>3
<1>5. [x \in DOMAIN usersByName |-> usersByName[x].password]' =
        [x \in DOMAIN usersByName |-> usersByName[x].password]
  BY <1>2 DEF KeepsUser
<1>6. \/ Rooms!Grant(fd, <<"OPCODE_LOGOUT">>) \/ Rooms!Grant(fd, <<"OPCODE_EXIT">>)
      \/ UNCHANGED [fd |-> reply.fd, request |-> request, ok |-> reply.status = "CHAT_OK"]
  BY Granted
<1>7. Rooms!EndSession(fd)
  BY <1>1, <1>2, <1>4, <1>5, <1>6 DEF Rooms!EndSession, Rooms!HashMap_Remove, HashMap_Remove
<1> QED BY <1>7 DEF Rooms!RoomsNext

\* ActionCreateGroup and ActionJoinGroup, when they succeed.
LEMMA EnterStep ==
  ASSUME IInv, NEW fd \in Fds, NEW g \in GroupNames,
         AddUserToGroup(fd, g, "SUCCESS"), SendOrLog(fd, "CHAT_OK"),
         \/ g \notin DOMAIN groups /\ request' = <<"OPCODE_CREATE_GROUP", g>>
         \/ g \in DOMAIN groups /\ request' = <<"OPCODE_JOIN_GROUP", g>>
  PROVE  Rooms!RoomsNext
<1>1. /\ UMInv
      /\ fd \in DOMAIN usersByFd
      /\ g \notin UserOf(fd).groups
      /\ DOMAIN usersByName' = DOMAIN usersByName
      /\ \A x \in DOMAIN usersByName \ {usersByFd[fd]} : KeepsUser(x)
      /\ usersByName'[usersByFd[fd]].password = UserOf(fd).password
      /\ usersByName'[usersByFd[fd]].groups = UserOf(fd).groups \cup {g}
      /\ usersByFd' = usersByFd
  BY AddUserToGroupEffect DEF IInv
<1>2. /\ UserOf(fd).groups \subseteq GroupNames
      /\ \A h \in GroupNames : usersByFd[fd] \in Members(h) <=> h \in UserOf(fd).groups
  BY <1>1 DEF UMInv, UserManagerTypeOK, User, UserOf, Members
<1>3. \A h \in GroupNames :
        Members(h)' = IF h = g THEN Members(h) \cup {usersByFd[fd]} ELSE Members(h)
  <2>1. UserOf(fd).groups \cup {g} \in SUBSET GroupNames
    BY <1>2
  <2>2. \A h \in GroupNames :
          Members(h)' = IF h \in UserOf(fd).groups \cup {g}
                        THEN Members(h) \cup {usersByFd[fd]} ELSE Members(h) \ {usersByFd[fd]}
    BY <1>1, <2>1, ChangedMembers
  <2> TAKE h \in GroupNames
  <2>3. CASE h = g
    BY <2>2, <2>3
  <2>4. CASE h # g /\ h \in UserOf(fd).groups
    <3>1. Members(h) \cup {usersByFd[fd]} = Members(h)
      BY <1>2, <2>4
    <3> QED BY <2>2, <2>4, <3>1
  <2>5. CASE h # g /\ h \notin UserOf(fd).groups
    <3>1. Members(h) \ {usersByFd[fd]} = Members(h)
      BY <1>2, <2>5
    <3> QED BY <2>2, <2>5, <3>1, ZenonT(30), ZenonT(60)
  <2> QED BY <2>3, <2>4, <2>5
<1>4. [h \in GroupNames |-> Members(h)]' =
        [[h \in GroupNames |-> Members(h)] EXCEPT ![g] = @ \cup {usersByFd[fd]}]
  BY <1>3, ZenonT(30), ZenonT(60)
<1>5. [x \in DOMAIN usersByName |-> usersByName[x].password]' =
        [x \in DOMAIN usersByName |-> usersByName[x].password]
  BY <1>1 DEF KeepsUser, UserOf
<1>6. Rooms!Grant(fd, request')
  BY Granted
<1>7. Rooms!Enter(fd, g)
  BY <1>1, <1>2, <1>4, <1>5 DEF Rooms!Enter
<1>8. [h \in GroupNames |-> Members(h)][g] = {} <=> g \notin DOMAIN groups
  BY DEF IInv, RefCountIsMembership
<1>9. Rooms!CreateRoom(fd, g) \/ Rooms!JoinRoom(fd, g)
  BY <1>6, <1>7, <1>8 DEF Rooms!CreateRoom, Rooms!JoinRoom
<1> QED BY <1>9 DEF Rooms!RoomsNext

\* ActionLeaveGroup, when it succeeds.
LEMMA LeaveStep ==
  ASSUME IInv, NEW fd \in Fds, NEW g \in GroupNames,
         RemoveUserFromGroup(fd, g, "SUCCESS"), SendOrLog(fd, "CHAT_OK"),
         request' = <<"OPCODE_LEAVE_GROUP", g>>
  PROVE  Rooms!RoomsNext
<1>1. /\ UMInv
      /\ fd \in DOMAIN usersByFd
      /\ g \in UserOf(fd).groups
      /\ DOMAIN usersByName' = DOMAIN usersByName
      /\ \A x \in DOMAIN usersByName \ {usersByFd[fd]} : KeepsUser(x)
      /\ usersByName'[usersByFd[fd]].password = UserOf(fd).password
      /\ usersByName'[usersByFd[fd]].groups = UserOf(fd).groups \ {g}
      /\ usersByFd' = usersByFd
  BY RemoveUserFromGroupEffect DEF IInv
<1>2. /\ UserOf(fd).groups \subseteq GroupNames
      /\ \A h \in GroupNames : usersByFd[fd] \in Members(h) <=> h \in UserOf(fd).groups
  BY <1>1 DEF UMInv, UserManagerTypeOK, User, UserOf, Members
<1>3. \A h \in GroupNames :
        Members(h)' = IF h = g THEN Members(h) \ {usersByFd[fd]} ELSE Members(h)
  <2>1. UserOf(fd).groups \ {g} \in SUBSET GroupNames
    BY <1>2
  <2>2. \A h \in GroupNames :
          Members(h)' = IF h \in UserOf(fd).groups \ {g}
                        THEN Members(h) \cup {usersByFd[fd]} ELSE Members(h) \ {usersByFd[fd]}
    BY <1>1, <2>1, ChangedMembers
  <2> TAKE h \in GroupNames
  <2>3. CASE h = g
    BY <2>2, <2>3
  <2>4. CASE h # g /\ h \in UserOf(fd).groups
    <3>1. Members(h) \cup {usersByFd[fd]} = Members(h)
      BY <1>2, <2>4
    <3> QED BY <2>2, <2>4, <3>1
  <2>5. CASE h # g /\ h \notin UserOf(fd).groups
    <3>1. Members(h) \ {usersByFd[fd]} = Members(h)
      BY <1>2, <2>5
    <3> QED BY <2>2, <2>5, <3>1
  <2> QED BY <2>3, <2>4, <2>5
<1>4. [h \in GroupNames |-> Members(h)]' =
        [[h \in GroupNames |-> Members(h)] EXCEPT ![g] = @ \ {usersByFd[fd]}]
  BY <1>3, ZenonT(30), ZenonT(60)
<1>5. [x \in DOMAIN usersByName |-> usersByName[x].password]' =
        [x \in DOMAIN usersByName |-> usersByName[x].password]
  BY <1>1 DEF KeepsUser, UserOf
<1>6. Rooms!Grant(fd, <<"OPCODE_LEAVE_GROUP", g>>)
  BY Granted
<1>7. Rooms!LeaveRoom(fd, g)
  BY <1>1, <1>2, <1>4, <1>5, <1>6 DEF Rooms!LeaveRoom
<1> QED BY <1>7 DEF Rooms!RoomsNext

\* A handler that refuses without calling an operation of the user manager.
LEMMA UntouchedStep ==
  ASSUME IInv, request' \in Request, NEW fd \in Fds, NEW status, status # "CHAT_OK",
         UNCHANGED umVars, SendOrLog(fd, status) \/ SendAfterSoftAssert(fd, status)
  PROVE  Rooms!RoomsNext
  BY Untouched, RefusedStep DEF IInv

\* ActionLogout.
LEMMA LogoutStep ==
  ASSUME IInv, request' = <<"OPCODE_LOGOUT">>, NEW fd \in Fds, ActionLogout(fd)
  PROVE  Rooms!RoomsNext
<1>1. CASE ~IsFdLoggedIn(fd)
  BY <1>1, UntouchedStep DEF ActionLogout, Request
<1>2. CASE IsFdLoggedIn(fd)
  <2>1. PICK r \in UserManagerResult :
          Logout(fd, r) /\ (r = "SUCCESS" => SendOrLog(fd, "CHAT_OK"))
    BY <1>2 DEF ActionLogout
  <2>2. r = "SUCCESS"
    BY <1>2, <2>1, LogoutEffect DEF IInv, IsFdLoggedIn
  <2> QED BY <1>2, <2>1, <2>2, SessionEndStep
<1> QED BY <1>1, <1>2

\* ActionCreateGroup.
LEMMA CreateStep ==
  ASSUME IInv, NEW fd \in Fds, NEW g \in GroupNames,
         request' = <<"OPCODE_CREATE_GROUP", g>>, ActionCreateGroup(fd, g)
  PROVE  Rooms!RoomsNext
<1>1. CASE SendOrLog(fd, "CHAT_ERR_GENERIC") /\ UNCHANGED umVars
  BY <1>1, UntouchedStep DEF Request
<1>2. ASSUME NEW r, AddUserToGroup(fd, g, r), r # "SUCCESS", SendOrLog(fd, "CHAT_ERR_GENERIC")
      PROVE  Rooms!RoomsNext
  <2>1. UMInv /\ RefusedUM
    BY <1>2, AddUserToGroupEffect DEF IInv
  <2> QED BY <1>2, <2>1, RefusedStep DEF Request
<1>3. ASSUME AddGroupResult(groups, g) = "SUCCESS", AddUserToGroup(fd, g, "SUCCESS"),
             SendGroupEndpoint(IncreaseGroupRefCount(AddGroup(groups, g), g), fd, g)
      PROVE  Rooms!RoomsNext
  <2>1. g \in DOMAIN IncreaseGroupRefCount(AddGroup(groups, g), g)
    BY DEF IncreaseGroupRefCount, AddGroup, HashMap_Insert
  <2>2. g \notin DOMAIN groups
    BY <1>3 DEF AddGroupResult
  <2> QED BY <1>3, <2>1, <2>2, EnterStep DEF SendGroupEndpoint
<1> QED BY <1>1, <1>2, <1>3 DEF ActionCreateGroup

\* ActionJoinGroup.
LEMMA JoinStep ==
  ASSUME IInv, NEW fd \in Fds, NEW g \in GroupNames,
         request' = <<"OPCODE_JOIN_GROUP", g>>, ActionJoinGroup(fd, g)
  PROVE  Rooms!RoomsNext
<1>1. ASSUME NEW status, status # "CHAT_OK", SendOrLog(fd, status), UNCHANGED umVars
      PROVE  Rooms!RoomsNext
  BY <1>1, UntouchedStep DEF Request
<1>2. ASSUME NEW r, AddUserToGroup(fd, g, r), r # "SUCCESS", SendOrLog(fd, "CHAT_ERR_GENERIC")
      PROVE  Rooms!RoomsNext
  <2>1. UMInv /\ RefusedUM
    BY <1>2, AddUserToGroupEffect DEF IInv
  <2> QED BY <1>2, <2>1, RefusedStep DEF Request
<1>3. ASSUME g \in DOMAIN groups, AddUserToGroup(fd, g, "SUCCESS"),
             SendGroupEndpoint(IncreaseGroupRefCount(groups, g), fd, g)
      PROVE  Rooms!RoomsNext
  <2>1. g \in DOMAIN IncreaseGroupRefCount(groups, g)
    BY <1>3 DEF IncreaseGroupRefCount
  <2> QED BY <1>3, <2>1, EnterStep DEF SendGroupEndpoint
<1> QED BY <1>1, <1>2, <1>3 DEF ActionJoinGroup

\* ActionLeaveGroup.
LEMMA LeaveGroupStep ==
  ASSUME IInv, NEW fd \in Fds, NEW g \in GroupNames,
         request' = <<"OPCODE_LEAVE_GROUP", g>>, ActionLeaveGroup(fd, g)
  PROVE  Rooms!RoomsNext
<1>1. ASSUME NEW status, status # "CHAT_OK", SendOrLog(fd, status), UNCHANGED umVars
      PROVE  Rooms!RoomsNext
  BY <1>1, UntouchedStep DEF Request
<1>2. g \in DOMAIN groups /\ IsFdLoggedIn(fd) /\ IsUserInGroup(fd, g) => groups[g].refCount # 0
  BY MemberCounted
<1>3. ASSUME RemoveUserFromGroup(fd, g, "SUCCESS"), SendOrLog(fd, "CHAT_OK")
      PROVE  Rooms!RoomsNext
  BY <1>3, LeaveStep
<1> QED BY <1>1, <1>2, <1>3 DEF ActionLeaveGroup

-----------------------------------------------------------------------------

\* Every step of the server is a step of ChatRooms, or changes nothing it sees.
LEMMA StepSimulation == IInv /\ [Next]_vars => [Rooms!RoomsNext]_(Rooms!roomVars)
<1> SUFFICES ASSUME IInv, [Next]_vars PROVE [Rooms!RoomsNext]_(Rooms!roomVars)
  OBVIOUS
<1>1. ASSUME NEW fd \in Fds, CallbackRecv(fd)
      PROVE  Rooms!RoomsNext
  <2>1. CASE request' = <<"OTHER">> /\ RefuseMessage(fd)
    BY <2>1, UntouchedStep DEF RefuseMessage, Request
  <2>2. CASE \/ request' = <<"OPCODE_LIST_USERS">> /\ ActionListUsers(fd)
             \/ request' = <<"OPCODE_LIST_GROUPS">> /\ ActionListGroups(fd)
    BY <2>2, InformStep DEF ActionListUsers, ActionListGroups
  <2>3. CASE request' = <<"OPCODE_EXIT">> /\ ActionExit(fd)
    BY <2>3, InformStep, SessionEndStep DEF ActionExit, CleanupSession
  <2> QED BY <1>1, <2>1, <2>2, <2>3, RegisterStep, LoginStep, LogoutStep, CreateStep, JoinStep,
             LeaveGroupStep DEF CallbackRecv, FindAction
<1>2. ASSUME UNCHANGED <<umVars, request, reply>>
      PROVE  UNCHANGED Rooms!roomVars
  <2>1. UMInv /\ RefusedUM
    BY <1>2, Untouched DEF IInv
  <2> QED BY <1>2, <2>1, RefusedMaps DEF Rooms!roomVars
<1>3. ASSUME NEW fd \in Fds, CallbackDisconnect(fd)
      PROVE  [Rooms!RoomsNext]_(Rooms!roomVars)
  <2>1. CASE IsFdLoggedIn(fd)
    BY <1>3, <2>1, SessionEndStep DEF CallbackDisconnect, CleanupSession
  <2>2. CASE ~IsFdLoggedIn(fd)
    BY <1>2, <1>3, <2>2 DEF CallbackDisconnect, CleanupSession
  <2> QED BY <2>1, <2>2
<1>4. ASSUME NEW fd \in Fds, CallbackNewConnection(fd)
      PROVE  UNCHANGED Rooms!roomVars
  BY <1>2, <1>4 DEF CallbackNewConnection
<1>5. CASE UNCHANGED vars
  BY <1>2, <1>5 DEF vars, umVars
<1> QED BY <1>1, <1>3, <1>4, <1>5 DEF Next

\* A server without users has no accounts, no sessions and no rooms.
LEMMA InitSimulation == Init => Rooms!RoomsInit
<1> SUFFICES ASSUME Init PROVE Rooms!RoomsInit
  OBVIOUS
<1>1. usersByName = HashMap_Create /\ usersByFd = HashMap_Create /\ reply = NoReply
      /\ request = <<"OTHER">>
  BY DEF Init, UserManager_Create
<1>2. DOMAIN usersByName = {}
  BY <1>1 DEF HashMap_Create
<1>3. \A g \in GroupNames : Members(g) = {}
  BY <1>2 DEF Members
<1>4. [g \in GroupNames |-> Members(g)] = [g \in GroupNames |-> {}]
  BY <1>3
<1>5. [n \in DOMAIN usersByName |-> usersByName[n].password] = HashMap_Create
  BY <1>2 DEF HashMap_Create
<1>6. (reply.status = "CHAT_OK") = TRUE /\ reply.fd = NoFd
  BY <1>1 DEF NoReply
<1> QED BY <1>1, <1>4, <1>5, <1>6, ZenonT(30), ZenonT(60) DEF Rooms!RoomsInit, Rooms!HashMap_Create, HashMap_Create

\* The request handlers implement ChatRooms: a request is granted with its whole
\* effect or refused with none, sessions are never shared or moved, and a room
\* exists exactly while somebody is in it.
THEOREM Refinement == Spec => RoomsPromise
  BY InitSimulation, StepSimulation, Invariance, PTL DEF Spec, RoomsPromise, Rooms!RoomsSpec

-----------------------------------------------------------------------------
(* What follows for the server itself.                                     *)

\* ChatRooms adds a session only to a connection that has none.
LEMMA SessionKept ==
  ASSUME [Rooms!RoomsNext]_(Rooms!roomVars)
  PROVE  \A fd \in DOMAIN usersByFd \cap DOMAIN usersByFd' : usersByFd'[fd] = usersByFd[fd]
<1>1. CASE UNCHANGED Rooms!roomVars
  BY <1>1 DEF Rooms!roomVars
<1>2. CASE Rooms!RoomsNext
  <2>1. PICK x \in Fds :
          \/ usersByFd' = usersByFd
          \/ usersByFd' = Rooms!HashMap_Remove(usersByFd, x)
          \/ x \notin DOMAIN usersByFd /\ \E n \in Names : usersByFd' = Rooms!HashMap_Insert(usersByFd, x, n)
    BY <1>2, ZenonT(30), ZenonT(60) DEF Rooms!RoomsNext, Rooms!Register, Rooms!OpenSession, Rooms!EndSession, Rooms!CreateRoom,
                Rooms!JoinRoom, Rooms!Enter, Rooms!LeaveRoom, Rooms!Inform, Rooms!Refuse
  <2> QED BY <2>1 DEF Rooms!HashMap_Remove, Rooms!HashMap_Insert
<1> QED BY <1>1, <1>2

\* No request of any connection moves a login to another user.
THEOREM SessionsStay == Spec => SessionNeverStolen
<1>1. ASSUME IInv, [Next]_vars
      PROVE  [\A fd \in DOMAIN usersByFd \cap DOMAIN usersByFd' : usersByFd'[fd] = usersByFd[fd]]_vars
  BY <1>1, StepSimulation, SessionKept
<1> QED BY <1>1, Invariance, PTL DEF Spec, SessionNeverStolen

\* No step makes a SOFT_ASSERT fail, but for the one of a LOGOUT without a login.
LEMMA SoftAssertStep == IInv /\ SoftAssertsHold /\ [Next]_vars => SoftAssertsHold'
<1> SUFFICES ASSUME IInv, SoftAssertsHold, [Next]_vars PROVE SoftAssertsHold'
  OBVIOUS
<1>1. ASSUME NEW fd, NEW status, SendOrLog(fd, status)
      PROVE  SoftAssertsHold'
  BY <1>1 DEF SendOrLog, SoftAssertsHold
<1>2. ASSUME NEW fd \in Fds, ActionLogout(fd)
      PROVE  SoftAssertsHold'
  <2>1. CASE ~IsFdLoggedIn(fd)
    BY <1>2, <2>1 DEF ActionLogout, SendAfterSoftAssert, SoftAssertsHold
  <2>2. CASE IsFdLoggedIn(fd)
    <3>1. PICK r \in UserManagerResult :
            Logout(fd, r) /\ (r = "SUCCESS" => SendOrLog(fd, "CHAT_OK"))
      BY <1>2, <2>2 DEF ActionLogout
    <3>2. r = "SUCCESS"
      BY <2>2, <3>1, LogoutEffect DEF IInv, IsFdLoggedIn
    <3> QED BY <1>1, <3>1, <3>2
  <2> QED BY <2>1, <2>2
<1>3. ASSUME NEW fd \in Fds, NEW g \in GroupNames, ActionCreateGroup(fd, g)
      PROVE  SoftAssertsHold'
  <2>1. g \in DOMAIN IncreaseGroupRefCount(AddGroup(groups, g), g)
    BY DEF IncreaseGroupRefCount, AddGroup, HashMap_Insert
  <2> QED BY <1>1, <1>3, <2>1 DEF ActionCreateGroup, SendGroupEndpoint
<1>4. ASSUME NEW fd \in Fds, NEW g \in GroupNames, ActionJoinGroup(fd, g)
      PROVE  SoftAssertsHold'
  <2>1. g \in DOMAIN groups => g \in DOMAIN IncreaseGroupRefCount(groups, g)
    BY DEF IncreaseGroupRefCount
  <2> QED BY <1>1, <1>4, <2>1 DEF ActionJoinGroup, SendGroupEndpoint
<1>5. ASSUME NEW fd \in Fds, NEW g \in GroupNames, ActionLeaveGroup(fd, g)
      PROVE  SoftAssertsHold'
  BY <1>1, <1>5 DEF ActionLeaveGroup
<1>6. ASSUME NEW fd \in Fds, CallbackRecv(fd)
      PROVE  SoftAssertsHold'
  BY <1>1, <1>2, <1>3, <1>4, <1>5, <1>6 DEF CallbackRecv, FindAction, RefuseMessage, ActionRegister, ActionLogin,
     ActionExit, ActionListUsers, ActionListGroups
<1>7. ASSUME reply' = reply
      PROVE  SoftAssertsHold'
  BY <1>7 DEF SoftAssertsHold
<1> QED BY <1>6, <1>7 DEF Next, CallbackNewConnection, CallbackDisconnect, vars

\* "Conditions that must never be false" are not, but for the one that any peer
\* may make false by sending LOGOUT without a login.
THEOREM SoftAssertsCorrect == Spec => []SoftAssertsHold
<1>1. Init => SoftAssertsHold
  BY DEF Init, SoftAssertsHold, NoReply
<1> QED BY <1>1, SoftAssertStep, Invariance, PTL DEF Spec

=============================================================================
