------------------------ MODULE ServerManagerProofs ------------------------
(***************************************************************************)
(* The user manager keeps its two indexes in step, for any set of names    *)
(* and connections and any sequence of calls of its interface; every       *)
(* message handler answers an error that changed nothing, or CHAT_OK with  *)
(* the change the peer asked for; and the handlers keep users, groups and  *)
(* the endpoints they gave out in step, for any number of connections,     *)
(* names and groups.                                                       *)
(***************************************************************************)
EXTENDS SessionEffects, FiniteSetTheorems, TLAPS

\* Inductive: IndexesAgree needs the types, and the groups of an offline
\* user need IndexesAgree (only a filed user, hence ONLINE, gains groups).
UMInv == UserManagerTypeOK /\ IndexesAgree /\ OfflineUsersHaveNoGroups

\* The provers of a leaf that names none, in the order they are tried.
USE SMT, ZenonT(30), SMTT(30), ZenonT(60)

-----------------------------------------------------------------------------
(* Updates of one user.                                                    *)

\* What the setters of User.c change, and what they leave alone.
LEMMA SetFdConnection ==
  ASSUME NEW u \in User, NEW fd \in Fds \cup {NoFd}
  PROVE  /\ User_SetFdConnection(u, fd) \in User
         /\ User_SetFdConnection(u, fd).fd = fd
         /\ User_SetFdConnection(u, fd).state = u.state
         /\ User_SetFdConnection(u, fd).password = u.password
         /\ User_SetFdConnection(u, fd).groups = u.groups
  BY DEF User, User_SetFdConnection

\* User_SetState changes the state and nothing else.
LEMMA SetState ==
  ASSUME NEW u \in User, NEW s \in UserState
  PROVE  /\ User_SetState(u, s) \in User
         /\ User_SetState(u, s).fd = u.fd
         /\ User_SetState(u, s).state = s
         /\ User_SetState(u, s).password = u.password
         /\ User_SetState(u, s).groups = u.groups
  BY DEF User, User_SetState

\* User_AddGroup adds one group and changes nothing else.
LEMMA AddGroupToUser ==
  ASSUME NEW u \in User, NEW g \in GroupNames
  PROVE  /\ User_AddGroup(u, g) \in User
         /\ User_AddGroup(u, g).fd = u.fd
         /\ User_AddGroup(u, g).state = u.state
         /\ User_AddGroup(u, g).password = u.password
         /\ User_AddGroup(u, g).groups = u.groups \cup {g}
  BY DEF User, User_AddGroup

\* User_RemoveGroup removes one group and changes nothing else.
LEMMA RemoveGroupOfUser ==
  ASSUME NEW u \in User, NEW g \in GroupNames
  PROVE  /\ User_RemoveGroup(u, g) \in User
         /\ User_RemoveGroup(u, g).fd = u.fd
         /\ User_RemoveGroup(u, g).state = u.state
         /\ User_RemoveGroup(u, g).password = u.password
         /\ User_RemoveGroup(u, g).groups = u.groups \ {g}
  BY DEF User, User_RemoveGroup

\* User_DestroyGroups leaves no group and changes nothing else.
LEMMA DestroyGroups ==
  ASSUME NEW u \in User
  PROVE  /\ User_DestroyGroups(u) \in User
         /\ User_DestroyGroups(u).fd = u.fd
         /\ User_DestroyGroups(u).state = u.state
         /\ User_DestroyGroups(u).password = u.password
         /\ User_DestroyGroups(u).groups = {}
  BY DEF User, User_DestroyGroups

-----------------------------------------------------------------------------
(* What each operation does to the two indexes, seen from outside: which   *)
(* users there are, and the password and the groups of each. RefusedUM is  *)
(* the whole effect of an operation that does not succeed.                 *)

KeepsUser(n) ==
  usersByName'[n].password = usersByName[n].password /\ usersByName'[n].groups = usersByName[n].groups

RefusedUM ==
  /\ DOMAIN usersByName' = DOMAIN usersByName
  /\ \A n \in DOMAIN usersByName : KeepsUser(n)
  /\ usersByFd' = usersByFd

\* UserManager_AddUser, also when it undoes its first insertion.
LEMMA AddUserEffect ==
  ASSUME UMInv, NEW fd \in Fds, NEW n \in Names, NEW p \in Passwords, NEW r, AddUser(fd, n, p, r)
  PROVE  /\ UMInv'
         /\ r # "SUCCESS" => RefusedUM
         /\ r = "SUCCESS" => /\ n \notin DOMAIN usersByName
                             /\ fd \notin DOMAIN usersByFd
                             /\ DOMAIN usersByName' = DOMAIN usersByName \cup {n}
                             /\ \A x \in DOMAIN usersByName : KeepsUser(x)
                             /\ usersByName'[n].password = p
                             /\ usersByName'[n].groups = {}
                             /\ usersByFd' = HashMap_Insert(usersByFd, fd, n)
<1> USE DEF UMInv, UserManagerTypeOK, IndexesAgree, OfflineUsersHaveNoGroups, UserOf,
            KeepsUser
<1> DEFINE new == User_Create(fd, p)
           added == HashMap_Insert(usersByName, n, new)
<1>0. added \in [DOMAIN usersByName \cup {n} -> User]
  BY DEF HashMap_Insert, User_Create, User, UserState
<1>1. CASE r # "SUCCESS" /\ UNCHANGED umVars
  BY <1>1 DEF umVars, RefusedUM
<1>2. CASE /\ n \notin DOMAIN usersByName
           /\ r # "SUCCESS"
           /\ usersByName' = HashMap_Remove(added, n)
           /\ UNCHANGED usersByFd
  <2>1. usersByName' = usersByName
    BY <1>2 DEF HashMap_Insert, HashMap_Remove
  <2> QED BY <1>2, <2>1 DEF RefusedUM
<1>3. CASE /\ n \notin DOMAIN usersByName
           /\ fd \notin DOMAIN usersByFd
           /\ r = "SUCCESS"
           /\ usersByName' = [added EXCEPT ![n] = User_SetState(@, "USER_STATE_ONLINE")]
           /\ usersByFd' = HashMap_Insert(usersByFd, fd, n)
  <2>1. /\ DOMAIN usersByName' = DOMAIN usersByName \cup {n}
        /\ \A x \in DOMAIN usersByName : usersByName'[x] = usersByName[x]
        /\ usersByName'[n] = User_SetState(new, "USER_STATE_ONLINE")
        /\ usersByName' \in [DOMAIN usersByName' -> User]
    BY <1>0, <1>3 DEF HashMap_Insert, User_Create, User_SetState, User, UserState
  <2>2. /\ usersByName'[n].fd = fd
        /\ usersByName'[n].password = p
        /\ usersByName'[n].groups = {}
        /\ usersByName'[n].state = "USER_STATE_ONLINE"
    BY <2>1 DEF User_SetState, User_Create
  <2>3. /\ DOMAIN usersByFd' = DOMAIN usersByFd \cup {fd}
        /\ \A x \in DOMAIN usersByFd : usersByFd'[x] = usersByFd[x]
        /\ usersByFd'[fd] = n
        /\ usersByFd' \in [DOMAIN usersByFd' -> DOMAIN usersByName']
    BY <1>3, <2>1 DEF HashMap_Insert
  <2>4. UserManagerTypeOK'
    BY <2>1, <2>3
  <2>5. IndexesAgree'
    BY <1>3, <2>1, <2>2, <2>3
  <2>6. OfflineUsersHaveNoGroups'
    BY <2>1, <2>2
  <2> QED BY <1>3, <2>1, <2>2, <2>4, <2>5, <2>6
<1> QED BY <1>1, <1>2, <1>3 DEF AddUser

\* UserManager_RemoveUser (no handler of ServerManager calls it).
LEMMA RemoveUserInv ==
  ASSUME UMInv, NEW fd \in Fds, NEW r, RemoveUser(fd, r)
  PROVE  UMInv'
<1> USE DEF UMInv, UserManagerTypeOK, IndexesAgree, OfflineUsersHaveNoGroups, UserOf
<1>1. CASE UNCHANGED umVars
  BY <1>1 DEF umVars
<1>2. CASE /\ fd \in DOMAIN usersByFd
           /\ usersByName' = HashMap_Remove(usersByName, usersByFd[fd])
           /\ usersByFd' = HashMap_Remove(usersByFd, fd)
  <2>1. /\ DOMAIN usersByName' = DOMAIN usersByName \ {usersByFd[fd]}
        /\ \A x \in DOMAIN usersByName' : usersByName'[x] = usersByName[x]
        /\ DOMAIN usersByFd' = DOMAIN usersByFd \ {fd}
        /\ \A x \in DOMAIN usersByFd' : usersByFd'[x] = usersByFd[x]
        /\ usersByName' \in [DOMAIN usersByName' -> User]
    BY <1>2 DEF HashMap_Remove
  <2>2. usersByFd' \in [DOMAIN usersByFd' -> DOMAIN usersByName']
    BY <1>2, <2>1 DEF HashMap_Remove
  <2> QED BY <1>2, <2>1, <2>2
<1> QED BY <1>1, <1>2 DEF RemoveUser

\* UserManager_Login, also when the fd is taken and m_fdConnection stays behind.
LEMMA LoginEffect ==
  ASSUME UMInv, NEW fd \in Fds, NEW n \in Names, NEW p \in Passwords, NEW r, Login(fd, n, p, r)
  PROVE  /\ UMInv'
         /\ r # "SUCCESS" => RefusedUM
         /\ r = "SUCCESS" => /\ n \in DOMAIN usersByName
                             /\ usersByName[n].state = "USER_STATE_OFFLINE"
                             /\ usersByName[n].password = p
                             /\ fd \notin DOMAIN usersByFd
                             /\ DOMAIN usersByName' = DOMAIN usersByName
                             /\ \A x \in DOMAIN usersByName : KeepsUser(x)
                             /\ usersByFd' = HashMap_Insert(usersByFd, fd, n)
<1> USE DEF UMInv, UserManagerTypeOK, IndexesAgree, OfflineUsersHaveNoGroups, UserOf,
            KeepsUser
<1>1. CASE r # "SUCCESS" /\ UNCHANGED umVars
  BY <1>1 DEF umVars, RefusedUM
<1>2. CASE /\ n \in DOMAIN usersByName
           /\ usersByName[n].state = "USER_STATE_OFFLINE"
           /\ r # "SUCCESS"
           /\ usersByName' = [usersByName EXCEPT ![n] = User_SetFdConnection(@, fd)]
           /\ UNCHANGED usersByFd
  <2>1. /\ User_SetFdConnection(usersByName[n], fd) \in User
        /\ User_SetFdConnection(usersByName[n], fd).state = "USER_STATE_OFFLINE"
        /\ User_SetFdConnection(usersByName[n], fd).password = usersByName[n].password
        /\ User_SetFdConnection(usersByName[n], fd).groups = usersByName[n].groups
    BY <1>2, SetFdConnection
  <2> QED BY <1>2, <2>1 DEF RefusedUM
<1>3. CASE /\ n \in DOMAIN usersByName
           /\ usersByName[n].state = "USER_STATE_OFFLINE"
           /\ usersByName[n].password = p
           /\ r = "SUCCESS"
           /\ fd \notin DOMAIN usersByFd
           /\ usersByName' = [usersByName EXCEPT ![n] =
                                User_SetState(User_SetFdConnection(@, fd), "USER_STATE_ONLINE")]
           /\ usersByFd' = HashMap_Insert(usersByFd, fd, n)
  <2> DEFINE v == User_SetState(User_SetFdConnection(usersByName[n], fd), "USER_STATE_ONLINE")
  <2>1. /\ v \in User /\ v.fd = fd /\ v.state = "USER_STATE_ONLINE"
        /\ v.password = usersByName[n].password /\ v.groups = usersByName[n].groups
    <3>1. User_SetFdConnection(usersByName[n], fd) \in User /\ "USER_STATE_ONLINE" \in UserState
      BY <1>3, SetFdConnection DEF UserState
    <3> QED BY <1>3, <3>1, SetState, SetFdConnection
  <2>2. /\ DOMAIN usersByName' = DOMAIN usersByName
        /\ \A x \in DOMAIN usersByName \ {n} : usersByName'[x] = usersByName[x]
        /\ usersByName'[n] = v
        /\ usersByName' \in [DOMAIN usersByName' -> User]
    BY <1>3, <2>1
  <2>3. /\ DOMAIN usersByFd' = DOMAIN usersByFd \cup {fd}
        /\ \A x \in DOMAIN usersByFd : usersByFd'[x] = usersByFd[x]
        /\ usersByFd'[fd] = n
        /\ usersByFd' \in [DOMAIN usersByFd' -> DOMAIN usersByName']
    BY <1>3, <2>2 DEF HashMap_Insert
  <2> HIDE DEF v
  <2>4. UserManagerTypeOK'
    BY <2>2, <2>3
  <2>5. IndexesAgree'
    BY <1>3, <2>1, <2>2, <2>3
  <2>6. OfflineUsersHaveNoGroups'
    BY <2>1, <2>2
  <2> QED BY <1>3, <2>1, <2>2, <2>4, <2>5, <2>6
<1>4. LoginResult(n, p) = "SUCCESS" =>
        /\ n \in DOMAIN usersByName
        /\ usersByName[n].state = "USER_STATE_OFFLINE"
        /\ usersByName[n].password = p
  BY DEF LoginResult, User, UserState
<1> QED BY <1>1, <1>2, <1>3, <1>4 DEF Login

\* UserManager_Logout: succeeds exactly for an fd with a session.
LEMMA LogoutEffect ==
  ASSUME UMInv, NEW fd \in Fds, NEW r, Logout(fd, r)
  PROVE  /\ UMInv'
         /\ (r = "SUCCESS") <=> (fd \in DOMAIN usersByFd)
         /\ r # "SUCCESS" => RefusedUM
         /\ r = "SUCCESS" => /\ DOMAIN usersByName' = DOMAIN usersByName
                             /\ \A x \in DOMAIN usersByName \ {usersByFd[fd]} : KeepsUser(x)
                             /\ usersByName'[usersByFd[fd]].password =
                                  usersByName[usersByFd[fd]].password
                             /\ usersByName'[usersByFd[fd]].groups = {}
                             /\ usersByFd' = HashMap_Remove(usersByFd, fd)
<1> USE DEF UMInv, UserManagerTypeOK, IndexesAgree, OfflineUsersHaveNoGroups, UserOf,
            KeepsUser
<1> DEFINE u == usersByFd[fd]
<1>1. (r = "SUCCESS") <=> (fd \in DOMAIN usersByFd)
  BY DEF Logout, LogoutResult, IsFdLoggedIn
<1>2. CASE r # "SUCCESS"
  BY <1>1, <1>2 DEF Logout, RefusedUM
<1>3. CASE r = "SUCCESS"
  <2> DEFINE v == User_SetFdConnection(
                    User_SetState(User_DestroyGroups(usersByName[u]), "USER_STATE_OFFLINE"), NoFd)
  <2>1. fd \in DOMAIN usersByFd /\ u \in DOMAIN usersByName /\ usersByName[u] \in User
    BY <1>1, <1>3
  <2>2. /\ v \in User /\ v.state = "USER_STATE_OFFLINE" /\ v.groups = {}
        /\ v.password = usersByName[u].password
    <3> DEFINE d == User_DestroyGroups(usersByName[u])
               o == User_SetState(d, "USER_STATE_OFFLINE")
    <3>1. d \in User /\ d.groups = {} /\ d.password = usersByName[u].password
      BY <2>1, DestroyGroups
    <3> HIDE DEF d
    <3>2. o \in User /\ o.groups = {} /\ o.state = "USER_STATE_OFFLINE" /\ o.password = d.password
      BY <3>1, SetState DEF UserState
    <3> HIDE DEF o, v
    <3>3. v = User_SetFdConnection(o, NoFd)
      BY DEF o, d, v
    <3> QED BY <3>1, <3>2, <3>3, SetFdConnection, ZenonT(30), ZenonT(60)
  <2>3. /\ DOMAIN usersByName' = DOMAIN usersByName
        /\ \A x \in DOMAIN usersByName \ {u} : usersByName'[x] = usersByName[x]
        /\ usersByName'[u] = v
        /\ usersByName' \in [DOMAIN usersByName' -> User]
    BY <1>3, <2>1, <2>2 DEF Logout
  <2> HIDE DEF v
  <2>4. /\ DOMAIN usersByFd' = DOMAIN usersByFd \ {fd}
        /\ \A x \in DOMAIN usersByFd' : usersByFd'[x] = usersByFd[x]
        /\ usersByFd' = HashMap_Remove(usersByFd, fd)
        /\ usersByFd' \in [DOMAIN usersByFd' -> DOMAIN usersByName']
    BY <1>3, <2>3 DEF Logout, HashMap_Remove
  <2>5. UserManagerTypeOK'
    BY <2>3, <2>4
  <2>6. IndexesAgree'
    BY <2>1, <2>2, <2>3, <2>4
  <2>7. OfflineUsersHaveNoGroups'
    BY <2>2, <2>3
  <2> QED BY <1>1, <1>3, <2>2, <2>3, <2>4, <2>5, <2>6, <2>7
<1> QED BY <1>2, <1>3

\* UserManager_AddUserToGroup.
LEMMA AddUserToGroupEffect ==
  ASSUME UMInv, NEW fd \in Fds, NEW g \in GroupNames, NEW r, AddUserToGroup(fd, g, r)
  PROVE  /\ UMInv'
         /\ r # "SUCCESS" => RefusedUM
         /\ r = "SUCCESS" => /\ fd \in DOMAIN usersByFd
                             /\ g \notin UserOf(fd).groups
                             /\ DOMAIN usersByName' = DOMAIN usersByName
                             /\ \A x \in DOMAIN usersByName \ {usersByFd[fd]} : KeepsUser(x)
                             /\ usersByName'[usersByFd[fd]].password = UserOf(fd).password
                             /\ usersByName'[usersByFd[fd]].groups = UserOf(fd).groups \cup {g}
                             /\ usersByFd' = usersByFd
<1> USE DEF UMInv, UserManagerTypeOK, IndexesAgree, OfflineUsersHaveNoGroups, UserOf,
            KeepsUser
<1> DEFINE u == usersByFd[fd]
<1>1. CASE r # "SUCCESS" /\ UNCHANGED umVars
  BY <1>1 DEF umVars, RefusedUM
<1>2. CASE /\ r = "SUCCESS"
           /\ AddUserToGroupResult(fd, g) = "SUCCESS"
           /\ usersByName' = [usersByName EXCEPT ![u] = User_AddGroup(@, g)]
           /\ UNCHANGED usersByFd
  <2> DEFINE v == User_AddGroup(usersByName[u], g)
  <2>1. /\ fd \in DOMAIN usersByFd /\ u \in DOMAIN usersByName /\ usersByName[u] \in User
        /\ g \notin usersByName[u].groups
    BY <1>2 DEF AddUserToGroupResult, IsFdLoggedIn, IsUserInGroup
  <2>2. /\ v \in User /\ v.state = usersByName[u].state /\ v.fd = usersByName[u].fd
        /\ v.password = usersByName[u].password /\ v.groups = usersByName[u].groups \cup {g}
    BY <2>1, AddGroupToUser
  <2>3. /\ DOMAIN usersByName' = DOMAIN usersByName
        /\ \A x \in DOMAIN usersByName \ {u} : usersByName'[x] = usersByName[x]
        /\ usersByName'[u] = v
        /\ usersByName' \in [DOMAIN usersByName' -> User]
    BY <1>2, <2>1, <2>2
  <2> HIDE DEF v
  <2> QED BY <1>2, <2>1, <2>2, <2>3
<1> QED BY <1>1, <1>2 DEF AddUserToGroup, umVars

\* UserManager_RemoveUserFromGroup.
LEMMA RemoveUserFromGroupEffect ==
  ASSUME UMInv, NEW fd \in Fds, NEW g \in GroupNames, NEW r, RemoveUserFromGroup(fd, g, r)
  PROVE  /\ UMInv'
         /\ r # "SUCCESS" => RefusedUM
         /\ r = "SUCCESS" => /\ fd \in DOMAIN usersByFd
                             /\ g \in UserOf(fd).groups
                             /\ DOMAIN usersByName' = DOMAIN usersByName
                             /\ \A x \in DOMAIN usersByName \ {usersByFd[fd]} : KeepsUser(x)
                             /\ usersByName'[usersByFd[fd]].password = UserOf(fd).password
                             /\ usersByName'[usersByFd[fd]].groups = UserOf(fd).groups \ {g}
                             /\ usersByFd' = usersByFd
<1> USE DEF UMInv, UserManagerTypeOK, IndexesAgree, OfflineUsersHaveNoGroups, UserOf,
            KeepsUser
<1> DEFINE u == usersByFd[fd]
<1>1. CASE r # "SUCCESS"
  BY <1>1 DEF RemoveUserFromGroup, RefusedUM
<1>2. CASE r = "SUCCESS"
  <2> DEFINE v == User_RemoveGroup(usersByName[u], g)
  <2>1. /\ fd \in DOMAIN usersByFd /\ u \in DOMAIN usersByName /\ usersByName[u] \in User
        /\ g \in usersByName[u].groups
    BY <1>2 DEF RemoveUserFromGroup, RemoveUserFromGroupResult, IsFdLoggedIn, IsUserInGroup
  <2>2. /\ v \in User /\ v.state = usersByName[u].state /\ v.fd = usersByName[u].fd
        /\ v.password = usersByName[u].password /\ v.groups = usersByName[u].groups \ {g}
    BY <2>1, RemoveGroupOfUser
  <2>3. /\ DOMAIN usersByName' = DOMAIN usersByName
        /\ \A x \in DOMAIN usersByName \ {u} : usersByName'[x] = usersByName[x]
        /\ usersByName'[u] = v
        /\ usersByName' \in [DOMAIN usersByName' -> User]
        /\ UNCHANGED usersByFd
    BY <1>2, <2>1, <2>2 DEF RemoveUserFromGroup
  <2> HIDE DEF v
  <2> QED BY <1>2, <2>1, <2>2, <2>3
<1> QED BY <1>1, <1>2

-----------------------------------------------------------------------------

\* The operations of the user manager keep its invariant.
LEMMA UMInvariance == UMSpec => []UMInv
<1>1. UserManager_Create => UMInv
  BY DEF UserManager_Create, HashMap_Create, UMInv, UserManagerTypeOK, IndexesAgree,
         OfflineUsersHaveNoGroups
<1>2. UMInv /\ [UMNext]_umVars => UMInv'
  <2> SUFFICES ASSUME UMInv, [UMNext]_umVars PROVE UMInv'
    OBVIOUS
  <2>1. ASSUME NEW fd \in Fds, NEW n \in Names, NEW p \in Passwords, NEW r,
               AddUser(fd, n, p, r) \/ Login(fd, n, p, r)
        PROVE  UMInv'
    BY <2>1, AddUserEffect, LoginEffect, ZenonT(30), ZenonT(60)
  <2>2. ASSUME NEW fd \in Fds, NEW r, RemoveUser(fd, r) \/ Logout(fd, r)
        PROVE  UMInv'
    BY <2>2, RemoveUserInv, LogoutEffect
  <2>3. ASSUME NEW fd \in Fds, NEW g \in GroupNames, NEW r,
               AddUserToGroup(fd, g, r) \/ RemoveUserFromGroup(fd, g, r)
        PROVE  UMInv'
    BY <2>3, AddUserToGroupEffect, RemoveUserFromGroupEffect
  <2>4. CASE UNCHANGED umVars
    BY <2>4 DEF umVars, UMInv, UserManagerTypeOK, IndexesAgree, OfflineUsersHaveNoGroups,
                UserOf
  <2> QED BY <2>1, <2>2, <2>3, <2>4 DEF UMNext
<1> QED BY <1>1, <1>2, PTL DEF UMSpec

\* Whatever sequence of its operations is called, the user manager files a user
\* under an fd exactly while the user is ONLINE on that fd, and only such a user
\* is in groups.
THEOREM UserManagerCorrect == UMSpec => []SessionsConsistent
<1>1. UMInv => SessionsConsistent
  BY DEF UMInv, SessionsConsistent
<1> QED BY <1>1, UMInvariance, PTL

\* Both indexes stay well formed: m_usersByFd files users of m_usersByName only,
\* whatever is added, removed, or refused for lack of memory.
THEOREM UserManagerTypeCorrect == UMSpec => []UserManagerTypeOK
<1>1. UMInv => UserManagerTypeOK
  BY DEF UMInv
<1> QED BY <1>1, UMInvariance, PTL

-----------------------------------------------------------------------------
(* The handlers have the effects the peers rely on.                        *)

\* Both ways to send an answer say which status it carries.
LEMMA StatusSent ==
  ASSUME NEW fd, NEW status
  PROVE  /\ SendOrLog(fd, status) => reply'.status = status /\ LogoutAssertHolds'
         /\ SendAfterSoftAssert(fd, status) =>
              reply'.status = status /\ (status # "CHAT_ERR_NOT_LOGGED_IN" => LogoutAssertHolds')
  BY DEF SendOrLog, SendAfterSoftAssert, LogoutAssertHolds

\* An error that follows no change.
LEMMA ErrorSent ==
  ASSUME NEW fd, NEW status, status # "CHAT_OK", SendOrLog(fd, status), usersByFd' = usersByFd,
         told' = told
  PROVE  NothingDone /\ LogoutAssertHolds'
  BY StatusSent DEF NothingDone

\* ActionRegister and ActionLogin.
LEMMA OpenEffect ==
  ASSUME UMInv, NEW fd \in Fds, NEW n \in Names, NEW p \in Passwords,
         \/ request' = <<"OPCODE_REGISTER", n, p>> /\ ActionRegister(fd, n, p)
         \/ request' = <<"OPCODE_LOGIN", n, p>> /\ ActionLogin(fd, n, p)
  PROVE  Effect(fd) /\ LogoutAssertHolds' /\ conns' = conns
<1>1. /\ request' \in {<<"OPCODE_REGISTER", n, p>>, <<"OPCODE_LOGIN", n, p>>}
      /\ told' = told
      /\ conns' = conns
  BY DEF ActionRegister, ActionLogin
<1>2. ASSUME NEW r, AddUser(fd, n, p, r) \/ Login(fd, n, p, r), r = "SUCCESS"
      PROVE  SessionOpened(fd)
  <2>1. fd \notin DOMAIN usersByFd /\ usersByFd' = HashMap_Insert(usersByFd, fd, n)
    BY <1>2, AddUserEffect, LoginEffect, ZenonT(30), ZenonT(60)
  <2> QED BY <1>1, <2>1 DEF SessionOpened
<1>3. ASSUME NEW r, AddUser(fd, n, p, r) \/ Login(fd, n, p, r), r # "SUCCESS"
      PROVE  usersByFd' = usersByFd
  <2>1. CASE AddUser(fd, n, p, r)
    <3>1. RefusedUM
      BY <1>3, <2>1, AddUserEffect, ZenonT(30), ZenonT(60)
    <3> QED BY <3>1 DEF RefusedUM
  <2>2. CASE Login(fd, n, p, r)
    <3>1. RefusedUM
      BY <1>3, <2>2, LoginEffect
    <3> QED BY <3>1 DEF RefusedUM
  <2> QED BY <1>3, <2>1, <2>2
<1>4. PICK r, status :
        /\ AddUser(fd, n, p, r) \/ Login(fd, n, p, r)
        /\ SendOrLog(fd, status)
        /\ r = "SUCCESS" <=> status = "CHAT_OK"
  <2>1. CASE ActionRegister(fd, n, p)
    BY <2>1 DEF ActionRegister
  <2>2. CASE ActionLogin(fd, n, p)
    <3>1. PICK r :
            /\ Login(fd, n, p, r)
            /\ SendOrLog(fd, IF r = "SUCCESS" THEN "CHAT_OK"
                             ELSE IF r = "ALREADY_LOG" THEN "CHAT_ERR_ALREADY_LOGGED_IN"
                             ELSE "CHAT_ERR_BAD_CREDS")
      BY <2>2 DEF ActionLogin
    <3> WITNESS r, IF r = "SUCCESS" THEN "CHAT_OK"
                   ELSE IF r = "ALREADY_LOG" THEN "CHAT_ERR_ALREADY_LOGGED_IN"
                   ELSE "CHAT_ERR_BAD_CREDS"
    <3> QED BY <3>1
  <2> QED BY <2>1, <2>2
<1>5. LogoutAssertHolds' /\ reply'.status = status
  BY <1>4, StatusSent
<1>6. CASE r = "SUCCESS"
  BY <1>1, <1>2, <1>4, <1>5, <1>6 DEF Effect
<1>7. CASE r # "SUCCESS"
  BY <1>1, <1>3, <1>4, <1>7, ErrorSent DEF Effect
<1> QED BY <1>6, <1>7

\* Without a session there was no endpoint to be told of.
LEMMA NobodyTold ==
  ASSUME UMInv, ServerSide, NEW fd \in Fds, ~IsFdLoggedIn(fd)
  PROVE  /\ told[fd] = {}
         /\ usersByFd = HashMap_Remove(usersByFd, fd)
         /\ told = [told EXCEPT ![fd] = {}]
<1>1. told[fd] = {} /\ told \in [Fds -> SUBSET (GroupNames \X Ports)]
  BY DEF ServerSide
<1>2. DOMAIN usersByFd = DOMAIN usersByFd \ {fd} /\ usersByFd \in [DOMAIN usersByFd -> DOMAIN usersByName]
  BY DEF UMInv, UserManagerTypeOK, IsFdLoggedIn
<1> QED BY <1>1, <1>2 DEF HashMap_Remove

\* ActionLogout, of a peer that is logged in, and ActionExit.
LEMMA CloseEffect ==
  ASSUME UMInv, ServerSide, NEW fd \in Fds,
         \/ request' = <<"OPCODE_LOGOUT">> /\ ActionLogout(fd)
         \/ request' = <<"OPCODE_EXIT">> /\ ActionExit(fd)
  PROVE  /\ Effect(fd)
         /\ conns' = conns
         /\ (request' = <<"OPCODE_LOGOUT">> => IsFdLoggedIn(fd)) => LogoutAssertHolds'
<1>0. UMInv /\ conns' = conns
  BY DEF ActionLogout, ActionExit
<1>1. ASSUME NEW r, IsFdLoggedIn(fd), Logout(fd, r)
      PROVE  r = "SUCCESS" /\ usersByFd' = HashMap_Remove(usersByFd, fd)
  <2>1. fd \in DOMAIN usersByFd
    BY <1>1 DEF IsFdLoggedIn
  <2>2. r = "SUCCESS"
    BY <1>0, <1>1, <2>1, LogoutEffect
  <2> QED BY <1>0, <1>1, <2>2, LogoutEffect
<1>2. CASE request' = <<"OPCODE_EXIT">> /\ ActionExit(fd)
  <2>1. usersByFd' = HashMap_Remove(usersByFd, fd)
    BY <1>1, <1>2, NobodyTold DEF ActionExit, CleanupSession, umVars
  <2>2. SessionClosed(fd)
    BY <1>2, <2>1 DEF ActionExit, SessionClosed
  <2> QED BY <1>0, <1>2, <2>2, StatusSent DEF ActionExit, Effect
<1>3. CASE request' = <<"OPCODE_LOGOUT">> /\ ActionLogout(fd) /\ IsFdLoggedIn(fd)
  <2>1. PICK r \in UserManagerResult :
          Logout(fd, r) /\ (r = "SUCCESS" => SendOrLog(fd, "CHAT_OK"))
    BY <1>3 DEF ActionLogout
  <2>2. SessionClosed(fd)
    BY <1>1, <1>3, <2>1 DEF ActionLogout, SessionClosed
  <2> QED BY <1>0, <1>1, <1>3, <2>1, <2>2, StatusSent DEF Effect
<1>4. CASE request' = <<"OPCODE_LOGOUT">> /\ ActionLogout(fd) /\ ~IsFdLoggedIn(fd)
  <2>1. NothingDone
    BY <1>4, StatusSent DEF ActionLogout, NothingDone, umVars
  <2> QED BY <1>0, <1>4, <2>1 DEF Effect
<1> QED BY <1>2, <1>3, <1>4

\* ActionCreateGroup and ActionJoinGroup.
LEMMA EnterEffect ==
  ASSUME UMInv, NEW fd \in Fds, NEW g \in GroupNames,
         \/ request' = <<"OPCODE_CREATE_GROUP", g>> /\ ActionCreateGroup(fd, g)
         \/ request' = <<"OPCODE_JOIN_GROUP", g>> /\ ActionJoinGroup(fd, g)
  PROVE  Effect(fd) /\ LogoutAssertHolds' /\ conns' = conns
<1>1. /\ request' \in {<<"OPCODE_CREATE_GROUP", g>>, <<"OPCODE_JOIN_GROUP", g>>}
      /\ conns' = conns
      /\ usersByFd' = usersByFd
  BY DEF ActionCreateGroup, ActionJoinGroup, AddUserToGroup, umVars
<1>2. ASSUME NEW gs, groups' = gs, SendGroupEndpoint(gs, fd, g)
      PROVE  Effect(fd) /\ LogoutAssertHolds'
  <2>1. CASE g \in DOMAIN gs
    <3>1. SendOrLog(fd, "CHAT_OK") /\ told' = [told EXCEPT ![fd] = @ \cup {<<g, groups'[g].port>>}]
      BY <1>2, <2>1 DEF SendGroupEndpoint
    <3>2. RoomEntered(fd)
      BY <1>1, <1>2, <2>1, <3>1, ZenonT(30), ZenonT(60) DEF RoomEntered
    <3> QED BY <3>1, <3>2, StatusSent DEF Effect
  <2>2. CASE g \notin DOMAIN gs
    <3>1. SendAfterSoftAssert(fd, "CHAT_ERR_GENERIC") /\ told' = told
      BY <1>2, <2>2 DEF SendGroupEndpoint
    <3> QED BY <1>1, <3>1, StatusSent DEF Effect, NothingDone
  <2> QED BY <2>1, <2>2
<1>3. ASSUME NEW status, status # "CHAT_OK", SendOrLog(fd, status), told' = told
      PROVE  Effect(fd) /\ LogoutAssertHolds'
  BY <1>1, <1>3, ErrorSent DEF Effect
<1>4. CASE ActionCreateGroup(fd, g)
  BY <1>1, <1>2, <1>3, <1>4 DEF ActionCreateGroup
<1>5. CASE ActionJoinGroup(fd, g)
  BY <1>1, <1>2, <1>3, <1>5 DEF ActionJoinGroup
<1> QED BY <1>1, <1>4, <1>5

\* ActionLeaveGroup.
LEMMA LeaveEffect ==
  ASSUME NEW fd \in Fds, NEW g \in GroupNames,
         request' = <<"OPCODE_LEAVE_GROUP", g>>, ActionLeaveGroup(fd, g)
  PROVE  Effect(fd) /\ LogoutAssertHolds' /\ conns' = conns
<1>1. conns' = conns /\ usersByFd' = usersByFd
  BY DEF ActionLeaveGroup, RemoveUserFromGroup, umVars
<1>2. ASSUME NEW status, status # "CHAT_OK", SendOrLog(fd, status), told' = told
      PROVE  Effect(fd) /\ LogoutAssertHolds'
  BY <1>1, <1>2, ErrorSent DEF Effect
<1>3. CASE SendOrLog(fd, "CHAT_OK") /\ told' = [told EXCEPT ![fd] = {e \in @ : e[1] # g}]
  <2>1. RoomLeft(fd)
    BY <1>1, <1>3, ZenonT(30), ZenonT(60) DEF RoomLeft
  <2> QED BY <1>1, <1>3, <2>1, StatusSent DEF Effect
<1>4. \/ SendOrLog(fd, "CHAT_OK") /\ told' = [told EXCEPT ![fd] = {e \in @ : e[1] # g}]
      \/ \E status : status # "CHAT_OK" /\ SendOrLog(fd, status) /\ told' = told
  BY DEF ActionLeaveGroup
<1> QED BY <1>1, <1>2, <1>3, <1>4

\* Every message received has one of the effects above, and fails the soft
\* assertion of ActionLogout only when it is a LOGOUT without a session.
LEMMA RecvEffect ==
  ASSUME UMInv, ServerSide, NEW fd \in Fds, CallbackRecv(fd)
  PROVE  /\ Effect(fd)
         /\ conns' = conns
         /\ (request' = <<"OPCODE_LOGOUT">> => IsFdLoggedIn(fd)) => LogoutAssertHolds'
<1>1. CASE request' = <<"OTHER">> /\ RefuseMessage(fd)
  <2>1. PICK status \in {"CHAT_ERR_MALFORMED", "CHAT_ERR_GENERIC"} : SendOrLog(fd, status)
    BY <1>1 DEF RefuseMessage
  <2>2. usersByFd' = usersByFd /\ told' = told /\ conns' = conns
    BY <1>1 DEF RefuseMessage, umVars
  <2> QED BY <2>1, <2>2, ErrorSent DEF Effect
<1>2. CASE \/ request' = <<"OPCODE_LIST_USERS">> /\ ActionListUsers(fd)
           \/ request' = <<"OPCODE_LIST_GROUPS">> /\ ActionListGroups(fd)
  <2>1. Listed /\ SendOrLog(fd, "CHAT_OK") /\ conns' = conns
    BY <1>2 DEF ActionListUsers, ActionListGroups, Listed, umVars
  <2> QED BY <2>1, StatusSent DEF Effect
<1>3. CASE \/ request' = <<"OPCODE_LOGOUT">> /\ ActionLogout(fd)
           \/ request' = <<"OPCODE_EXIT">> /\ ActionExit(fd)
  BY <1>3, CloseEffect
<1>4. CASE \E n \in Names, p \in Passwords :
             \/ request' = <<"OPCODE_REGISTER", n, p>> /\ ActionRegister(fd, n, p)
             \/ request' = <<"OPCODE_LOGIN", n, p>> /\ ActionLogin(fd, n, p)
  BY <1>4, OpenEffect
<1>5. CASE \E g \in GroupNames :
             \/ request' = <<"OPCODE_CREATE_GROUP", g>> /\ ActionCreateGroup(fd, g)
             \/ request' = <<"OPCODE_JOIN_GROUP", g>> /\ ActionJoinGroup(fd, g)
             \/ request' = <<"OPCODE_LEAVE_GROUP", g>> /\ ActionLeaveGroup(fd, g)
  BY <1>5, EnterEffect, LeaveEffect
<1> QED BY <1>1, <1>2, <1>3, <1>4, <1>5 DEF CallbackRecv, FindAction

\* Inductive. The counts need the user manager's own invariant (a user in a group
\* is filed under the one fd whose logout releases it), and the endpoints need
\* the counts (a group somebody was told of has a member, so it is not removed).
IInv ==
  /\ TypeOK
  /\ UMInv
  /\ RefCountIsMembership
  /\ SessionsAreConnected
  /\ ToldEndpointsAreCurrent

-----------------------------------------------------------------------------
(* How the operations on users change the membership of the groups.        *)

\* There are finitely many members, so a group's members can be counted.
LEMMA MembersFinite ==
  ASSUME UMInv
  PROVE  \A g \in GroupNames : IsFiniteSet(Members(g)) /\ Cardinality(Members(g)) \in Nat
<1> TAKE g \in GroupNames
<1>1. Members(g) \subseteq Names
  BY DEF Members, UMInv, UserManagerTypeOK
<1>2. IsFiniteSet(Members(g))
  BY <1>1, ChatTypesAssumption, FS_Subset
<1> QED BY <1>2, FS_CardinalityType

\* A user in a group is logged in, on the fd it is filed under.
LEMMA MembersAreFiled ==
  ASSUME UMInv, NEW g \in GroupNames, NEW n \in Members(g)
  PROVE  \E fd \in DOMAIN usersByFd : usersByFd[fd] = n /\ g \in GetUserGroups(fd)
<1>1. n \in DOMAIN usersByName /\ g \in usersByName[n].groups /\ usersByName[n] \in User
  BY DEF Members, UMInv, UserManagerTypeOK
<1>2. usersByName[n].state = "USER_STATE_ONLINE"
  BY <1>1 DEF UMInv, OfflineUsersHaveNoGroups, User, UserState
<1>3. usersByName[n].fd \in DOMAIN usersByFd /\ usersByFd[usersByName[n].fd] = n
  BY <1>1, <1>2 DEF UMInv, IndexesAgree
<1> QED BY <1>1, <1>3 DEF GetUserGroups, IsFdLoggedIn, UserOf

\* The groups of a logged-in user are groups it is a member of.
LEMMA GroupsOfSession ==
  ASSUME UMInv, NEW fd \in Fds
  PROVE  /\ GetUserGroups(fd) \subseteq GroupNames
         /\ \A g \in GetUserGroups(fd) : usersByFd[fd] \in Members(g)
  BY DEF UMInv, UserManagerTypeOK, GetUserGroups, IsFdLoggedIn, UserOf, User, Members

\* No two connections are logged in as the same user.
LEMMA DistinctSessions ==
  ASSUME UMInv, NEW x \in DOMAIN usersByFd, NEW y \in DOMAIN usersByFd, x # y
  PROVE  usersByFd[x] # usersByFd[y]
  BY DEF UMInv, IndexesAgree, UserOf

\* A refused operation changes no membership.
LEMMA RefusedMembers ==
  ASSUME UMInv, RefusedUM
  PROVE  /\ \A g \in GroupNames : Members(g)' = Members(g)
         /\ \A x \in Fds : GetUserGroups(x)' = GetUserGroups(x)
  BY DEF UMInv, UserManagerTypeOK, RefusedUM, KeepsUser, Members, GetUserGroups, IsFdLoggedIn,
         UserOf

\* A registration or a login puts nobody into a group.
LEMMA NewSessionMembers ==
  ASSUME UMInv, UMInv', NEW fd \in Fds, NEW n \in Names, fd \notin DOMAIN usersByFd,
         DOMAIN usersByName' = DOMAIN usersByName \cup {n},
         \A x \in DOMAIN usersByName : KeepsUser(x),
         usersByName'[n].groups = {},
         usersByFd' = HashMap_Insert(usersByFd, fd, n)
  PROVE  /\ \A g \in GroupNames : Members(g)' = Members(g)
         /\ \A x \in Fds : GetUserGroups(x)' = GetUserGroups(x)
<1>1. ASSUME NEW x \in DOMAIN usersByName \cup {n}
      PROVE  usersByName'[x].groups = IF x \in DOMAIN usersByName THEN usersByName[x].groups ELSE {}
  BY <1>1 DEF KeepsUser
<1>2. \A g \in GroupNames : Members(g)' = Members(g)
  BY <1>1 DEF Members
<1>3. /\ DOMAIN usersByFd' = DOMAIN usersByFd \cup {fd}
      /\ usersByFd'[fd] = n
      /\ \A x \in DOMAIN usersByFd : usersByFd'[x] = usersByFd[x]
  BY DEF HashMap_Insert
<1>4. \A x \in DOMAIN usersByFd : usersByFd[x] \in DOMAIN usersByName
  BY DEF UMInv, UserManagerTypeOK
<1>5. \A x \in Fds : GetUserGroups(x)' = GetUserGroups(x)
  BY <1>3, <1>4, ZenonT(30), ZenonT(60) DEF GetUserGroups, IsFdLoggedIn, UserOf, KeepsUser
<1> QED BY <1>2, <1>5

\* One logged-in user changes its groups; nobody else does.
LEMMA ChangedMembers ==
  ASSUME UMInv, NEW fd \in DOMAIN usersByFd, NEW gset \in SUBSET GroupNames,
         DOMAIN usersByName' = DOMAIN usersByName,
         \A x \in DOMAIN usersByName \ {usersByFd[fd]} : KeepsUser(x),
         usersByName'[usersByFd[fd]].groups = gset
  PROVE  \A g \in GroupNames :
           Members(g)' = IF g \in gset THEN Members(g) \cup {usersByFd[fd]}
                                       ELSE Members(g) \ {usersByFd[fd]}
<1> TAKE g \in GroupNames
<1> DEFINE u == usersByFd[fd]
<1>1. u \in DOMAIN usersByName
  BY DEF UMInv, UserManagerTypeOK
<1>2. \A x \in DOMAIN usersByName :
        g \in usersByName'[x].groups <=> IF x = u THEN g \in gset ELSE g \in usersByName[x].groups
  BY <1>1 DEF KeepsUser
<1> HIDE DEF u
<1>3. Members(g)' = IF g \in gset THEN Members(g) \cup {u} ELSE Members(g) \ {u}
  BY <1>1, <1>2 DEF Members
<1> QED BY <1>3 DEF u

\* ... and neither do the other connections.
LEMMA OtherSessionsKept ==
  ASSUME UMInv, NEW fd \in DOMAIN usersByFd, NEW x \in Fds \ {fd},
         DOMAIN usersByName' = DOMAIN usersByName,
         \A y \in DOMAIN usersByName \ {usersByFd[fd]} : KeepsUser(y),
         usersByFd' = usersByFd \/ usersByFd' = HashMap_Remove(usersByFd, fd)
  PROVE  GetUserGroups(x)' = GetUserGroups(x)
<1>1. x \in DOMAIN usersByFd' <=> x \in DOMAIN usersByFd
  BY DEF HashMap_Remove
<1>2. CASE x \in DOMAIN usersByFd
  <2>1. usersByFd'[x] = usersByFd[x]
    BY <1>2 DEF HashMap_Remove
  <2>2. usersByFd[x] \in DOMAIN usersByName \ {usersByFd[fd]}
    BY <1>2, DistinctSessions DEF UMInv, UserManagerTypeOK
  <2> QED BY <1>1, <1>2, <2>1, <2>2 DEF GetUserGroups, IsFdLoggedIn, UserOf, KeepsUser
<1>3. CASE x \notin DOMAIN usersByFd
  BY <1>1, <1>3 DEF GetUserGroups, IsFdLoggedIn
<1> QED BY <1>2, <1>3

-----------------------------------------------------------------------------
(* How the operations on groups keep the counts.                           *)

\* A user enters a group: a new one, with the next port, or one that exists.
LEMMA EnterGroup ==
  ASSUME UMInv, UMInv', GroupManagerTypeOK, RefCountIsMembership,
         NEW g \in GroupNames, NEW n, n \notin Members(g),
         Members(g)' = Members(g) \cup {n},
         \A h \in GroupNames \ {g} : Members(h)' = Members(h),
         NEW gs,
         \/ AddGroupResult(groups, g) = "SUCCESS" /\ gs = AddGroup(groups, g)
         \/ g \in DOMAIN groups /\ gs = groups,
         groups' = IncreaseGroupRefCount(gs, g)
  PROVE  /\ GroupManagerTypeOK'
         /\ RefCountIsMembership'
         /\ g \in DOMAIN groups'
         /\ \A h \in DOMAIN groups : h \in DOMAIN groups' /\ groups'[h].port = groups[h].port
<1>1. /\ gs \in [DOMAIN groups \cup {g} -> Group]
      /\ gs[g].refCount = Cardinality(Members(g))
      /\ \A h \in DOMAIN groups : gs[h] = groups[h]
  <2>1. CASE AddGroupResult(groups, g) = "SUCCESS" /\ gs = AddGroup(groups, g)
    <3>1. g \notin DOMAIN groups /\ ~(HashMap_Size(groups) >= MaxGroups)
      BY <2>1 DEF AddGroupResult
    <3>2. HashMap_Size(groups) \in Nat
      BY FS_Subset, FS_CardinalityType, ChatTypesAssumption DEF GroupManagerTypeOK, HashMap_Size
    <3>3. AllocateGroupEndpoint(groups) \in Ports
      BY <3>1, <3>2, GroupManagerAssumption DEF AllocateGroupEndpoint, Ports
    <3>4. Group_Create(AllocateGroupEndpoint(groups)) \in Group
      BY <3>3 DEF Group_Create, Group
    <3>5. gs \in [DOMAIN groups \cup {g} -> Group] /\ \A h \in DOMAIN groups : gs[h] = groups[h]
      BY <2>1, <3>1, <3>4 DEF GroupManagerTypeOK, AddGroup, HashMap_Insert
    <3>6. gs[g].refCount = 0
      BY <2>1 DEF AddGroup, HashMap_Insert, Group_Create
    <3>7. Cardinality(Members(g)) = 0
      BY <3>1, FS_EmptySet, ZenonT(30), ZenonT(60) DEF RefCountIsMembership
    <3> QED BY <3>5, <3>6, <3>7
  <2>2. CASE g \in DOMAIN groups /\ gs = groups
    BY <2>2, ZenonT(30), ZenonT(60) DEF GroupManagerTypeOK, RefCountIsMembership
  <2> QED BY <2>1, <2>2
<1>2. /\ Cardinality(Members(g)) \in Nat
      /\ Cardinality(Members(g)') = Cardinality(Members(g)) + 1
      /\ Members(g)' # {}
  BY MembersFinite, FS_AddElement, ZenonT(30), ZenonT(60)
<1>3. DOMAIN groups' = DOMAIN groups \cup {g}
  BY <1>1 DEF IncreaseGroupRefCount
<1>4. \A h \in DOMAIN groups \ {g} : groups'[h] = groups[h]
  BY <1>1 DEF IncreaseGroupRefCount
<1>5. groups'[g] = [gs[g] EXCEPT !.refCount = @ + 1] /\ gs[g] \in Group
  BY <1>1 DEF IncreaseGroupRefCount
<1>6. /\ groups'[g] \in Group
      /\ groups'[g].refCount = Cardinality(Members(g)')
      /\ groups'[g].port = gs[g].port
  BY <1>1, <1>2, <1>5 DEF Group
<1>7. groups' \in [DOMAIN groups' -> Group]
  <2>1. groups' = [h \in DOMAIN groups \cup {g} |-> groups'[h]]
    BY <1>1, ZenonT(30), ZenonT(60) DEF IncreaseGroupRefCount
  <2>2. \A h \in DOMAIN groups' : groups'[h] \in Group
    BY <1>3, <1>4, <1>6 DEF GroupManagerTypeOK
  <2> QED BY <1>3, <2>1, <2>2
<1>8. GroupManagerTypeOK'
  BY <1>3, <1>7 DEF GroupManagerTypeOK
<1>9. RefCountIsMembership'
  <2>1. ASSUME NEW h \in DOMAIN groups'
        PROVE  groups'[h].refCount = Cardinality(Members(h)') /\ Members(h)' # {}
    BY <1>2, <1>3, <1>4, <1>6, <2>1, ZenonT(30), ZenonT(60) DEF RefCountIsMembership, GroupManagerTypeOK
  <2>2. ASSUME NEW h \in GroupNames \ DOMAIN groups'
        PROVE  Members(h)' = {}
    BY <1>3, <2>2 DEF RefCountIsMembership
  <2> QED BY <2>1, <2>2 DEF RefCountIsMembership
<1> QED BY <1>1, <1>3, <1>4, <1>6, <1>8, <1>9

\* A user leaves some of its groups, and the ones it leaves empty are removed.
LEMMA LeaveGroups ==
  ASSUME UMInv, UMInv', GroupManagerTypeOK, RefCountIsMembership,
         NEW gset \in SUBSET GroupNames, NEW n,
         \A g \in gset : n \in Members(g),
         \A g \in GroupNames :
           Members(g)' = IF g \in gset THEN Members(g) \ {n} ELSE Members(g),
         groups' = LeaveAllGroups(groups, gset)
  PROVE  /\ GroupManagerTypeOK'
         /\ RefCountIsMembership'
         /\ \A g \in DOMAIN groups' : g \in DOMAIN groups /\ groups'[g].port = groups[g].port
<1> DEFINE left == [g \in DOMAIN groups |->
                      IF g \in gset /\ groups[g].refCount > 0
                      THEN [groups[g] EXCEPT !.refCount = @ - 1] ELSE groups[g]]
<1>1. DOMAIN groups \subseteq GroupNames
  BY DEF GroupManagerTypeOK
<1>2. ASSUME NEW g \in DOMAIN groups
      PROVE  /\ left[g] \in Group
             /\ left[g].port = groups[g].port
             /\ left[g].refCount = Cardinality(Members(g)')
  <2>1. groups[g] \in Group /\ groups[g].refCount = Cardinality(Members(g))
    BY <1>2 DEF GroupManagerTypeOK, RefCountIsMembership
  <2>2. CASE g \in gset
    <3>1. /\ Cardinality(Members(g)') = Cardinality(Members(g)) - 1
          /\ Cardinality(Members(g)) \in Nat
          /\ Cardinality(Members(g)') \in Nat
      <4>1. IsFiniteSet(Members(g)) /\ Cardinality(Members(g)) \in Nat /\ n \in Members(g)
        BY <1>1, <1>2, <2>2, MembersFinite
      <4>2. Members(g)' = Members(g) \ {n}
        BY <1>1, <1>2, <2>2
      <4>3. IsFiniteSet(Members(g) \ {n})
        BY <4>1, FS_Subset
      <4> QED BY <4>1, <4>2, <4>3, FS_RemoveElement, FS_CardinalityType
    <3>2. left[g] = [groups[g] EXCEPT !.refCount = @ - 1]
      BY <1>2, <2>1, <2>2, <3>1
    <3> HIDE DEF left
    <3> QED BY <2>1, <3>1, <3>2 DEF Group
  <2>3. CASE g \notin gset
    BY <1>1, <1>2, <2>1, <2>3
  <2> QED BY <2>2, <2>3
<1>3. groups' = [g \in {g \in DOMAIN groups : ~(g \in gset /\ left[g].refCount = 0)} |-> left[g]]
  BY DEF LeaveAllGroups
<1> HIDE DEF left
<1>4. GroupManagerTypeOK'
  BY <1>1, <1>2, <1>3 DEF GroupManagerTypeOK
<1>5. ASSUME NEW g \in DOMAIN groups'
      PROVE  groups'[g].refCount = Cardinality(Members(g)') /\ Members(g)' # {}
  <2>1. g \in DOMAIN groups /\ groups'[g] = left[g] /\ ~(g \in gset /\ left[g].refCount = 0)
    BY <1>3, <1>5
  <2>2. CASE g \in gset
    BY <1>2, <2>1, <2>2, FS_EmptySet, ZenonT(30), ZenonT(60)
  <2>3. CASE g \notin gset
    BY <1>1, <1>2, <2>1, <2>3 DEF RefCountIsMembership
  <2> QED BY <1>2, <2>1, <2>2, <2>3
<1>6. ASSUME NEW g \in GroupNames \ DOMAIN groups'
      PROVE  Members(g)' = {}
  <2>1. CASE g \notin DOMAIN groups
    BY <1>6, <2>1 DEF RefCountIsMembership
  <2>2. CASE g \in DOMAIN groups
    <3>1. g \in gset /\ left[g].refCount = 0
      BY <1>3, <1>6, <2>2
    <3>2. IsFiniteSet(Members(g)')
      BY <1>6, <3>1, MembersFinite, FS_Subset
    <3> QED BY <1>2, <2>2, <3>1, <3>2, FS_EmptySet
  <2> QED BY <2>1, <2>2
<1> QED BY <1>2, <1>3, <1>4, <1>5, <1>6 DEF RefCountIsMembership

-----------------------------------------------------------------------------
(* The three kinds of step: nobody moves, a user enters a group, a user    *)
(* leaves groups.                                                          *)

\* A group somebody is in exists, and its endpoint is a port of the range.
LEMMA GroupsOfSessionLive ==
  ASSUME IInv, NEW fd \in Fds
  PROVE  GetUserGroups(fd) \subseteq DOMAIN groups
<1> SUFFICES ASSUME NEW g \in GetUserGroups(fd) PROVE g \in DOMAIN groups
  OBVIOUS
<1>1. g \in GroupNames /\ Members(g) # {}
  BY GroupsOfSession DEF IInv
<1> QED BY <1>1 DEF IInv, RefCountIsMembership

\* What was told is well formed, because it is about groups that exist.
LEMMA ToldType ==
  ASSUME UMInv', GroupManagerTypeOK', DOMAIN told' = Fds, told' = [fd \in Fds |-> told'[fd]],
         ToldEndpointsAreCurrent',
         \A fd \in Fds : GetUserGroups(fd)' \subseteq DOMAIN groups'
  PROVE  told' \in [Fds -> SUBSET (GroupNames \X Ports)]
<1>1. ASSUME NEW g \in DOMAIN groups' PROVE g \in GroupNames /\ groups'[g].port \in Ports
  BY <1>1 DEF GroupManagerTypeOK, Group
<1>2. ASSUME NEW fd \in Fds PROVE told'[fd] \in SUBSET (GroupNames \X Ports)
  BY <1>1, <1>2 DEF ToldEndpointsAreCurrent
<1> QED BY <1>2

\* Requests that are refused or only inform, registrations, logins, connections.
LEMMA NobodyMoves ==
  ASSUME IInv, request' \in Request, UMInv', reply' \in Reply,
         conns' \subseteq Fds, DOMAIN usersByFd' \subseteq conns',
         \A g \in GroupNames : Members(g)' = Members(g),
         \A x \in Fds : GetUserGroups(x)' = GetUserGroups(x),
         groups' = groups, told' = told
  PROVE  IInv'
<1>1. RefCountIsMembership'
  BY DEF IInv, TypeOK, GroupManagerTypeOK, RefCountIsMembership
<1>2. ToldEndpointsAreCurrent'
  BY DEF IInv, ToldEndpointsAreCurrent
<1>3. TypeOK'
  BY DEF IInv, TypeOK, UMInv, GroupManagerTypeOK
<1> QED BY <1>1, <1>2, <1>3 DEF IInv, SessionsAreConnected

\* ActionCreateGroup and ActionJoinGroup, when they succeed.
LEMMA UserEnters ==
  ASSUME IInv, request' \in Request, NEW fd \in Fds, NEW g \in GroupNames, NEW gs,
         AddUserToGroup(fd, g, "SUCCESS"),
         \/ AddGroupResult(groups, g) = "SUCCESS" /\ gs = AddGroup(groups, g)
         \/ g \in DOMAIN groups /\ gs = groups,
         groups' = IncreaseGroupRefCount(gs, g),
         SendGroupEndpoint(IncreaseGroupRefCount(gs, g), fd, g),
         conns' = conns
  PROVE  IInv'
<1> DEFINE n == usersByFd[fd]
<1>1. /\ UMInv'
      /\ fd \in DOMAIN usersByFd
      /\ g \notin UserOf(fd).groups
      /\ DOMAIN usersByName' = DOMAIN usersByName
      /\ \A x \in DOMAIN usersByName \ {n} : KeepsUser(x)
      /\ usersByName'[n].groups = UserOf(fd).groups \cup {g}
      /\ usersByFd' = usersByFd
  BY AddUserToGroupEffect DEF IInv
<1>2. /\ GetUserGroups(fd) = UserOf(fd).groups
      /\ GetUserGroups(fd)' = GetUserGroups(fd) \cup {g}
      /\ GetUserGroups(fd) \subseteq GroupNames
      /\ \A h \in GroupNames : n \in Members(h) <=> h \in GetUserGroups(fd)
  <2>1. n \in DOMAIN usersByName /\ usersByName[n] \in User
    BY <1>1 DEF IInv, UMInv, UserManagerTypeOK
  <2> QED BY <1>1, <2>1, GroupsOfSession DEF IInv, GetUserGroups, IsFdLoggedIn, UserOf, Members
<1>3. /\ n \notin Members(g)
      /\ Members(g)' = Members(g) \cup {n}
      /\ \A h \in GroupNames \ {g} : Members(h)' = Members(h)
  <2>1. GetUserGroups(fd) \cup {g} \in SUBSET GroupNames
    BY <1>2
  <2>2. \A h \in GroupNames : Members(h)' = IF h \in GetUserGroups(fd) \cup {g}
                                           THEN Members(h) \cup {n} ELSE Members(h) \ {n}
    <3>1. UMInv /\ usersByName'[n].groups = GetUserGroups(fd) \cup {g}
      BY <1>1, <1>2 DEF IInv
    <3>2. fd \in DOMAIN usersByFd /\ DOMAIN usersByName' = DOMAIN usersByName
          /\ \A x \in DOMAIN usersByName \ {n} : KeepsUser(x)
      BY <1>1, ZenonT(30), ZenonT(60)
    <3> QED BY ONLY <2>1, <3>1, <3>2, ChangedMembers
  <2> QED BY <1>1, <1>2, <2>2
<1>4. \A x \in Fds \ {fd} : GetUserGroups(x)' = GetUserGroups(x)
  BY <1>1, OtherSessionsKept DEF IInv
<1> HIDE DEF n
<1>5. /\ GroupManagerTypeOK'
      /\ RefCountIsMembership'
      /\ g \in DOMAIN groups'
      /\ \A h \in DOMAIN groups : h \in DOMAIN groups' /\ groups'[h].port = groups[h].port
  BY <1>1, <1>3, EnterGroup DEF IInv, TypeOK
<1>6. /\ reply' = [fd |-> fd, status |-> "CHAT_OK", softAssert |-> FALSE]
      /\ told' = [told EXCEPT ![fd] = @ \cup {<<g, groups'[g].port>>}]
  BY <1>5 DEF SendGroupEndpoint, SendOrLog
<1>7. told \in [Fds -> SUBSET (GroupNames \X Ports)]
  BY DEF IInv, TypeOK
<1>8. \A x \in Fds : GetUserGroups(x)' \subseteq DOMAIN groups'
  BY <1>2, <1>4, <1>5, GroupsOfSessionLive
<1>9. ToldEndpointsAreCurrent'
  <2>1. ASSUME NEW x \in Fds
        PROVE  told[x] = {<<h, groups'[h].port>> : h \in GetUserGroups(x)}
    BY <1>5, <2>1, GroupsOfSessionLive DEF IInv, ToldEndpointsAreCurrent
  <2>2. told'[fd] = {<<h, groups'[h].port>> : h \in GetUserGroups(fd)'}
    <3>1. told'[fd] = told[fd] \cup {<<g, groups'[g].port>>}
      BY <1>6, <1>7
    <3>2. told[fd] = {<<h, groups'[h].port>> : h \in GetUserGroups(fd)}
      BY <2>1
    <3>3. GetUserGroups(fd)' = GetUserGroups(fd) \cup {g}
      BY <1>2
    <3> QED BY ONLY <3>1, <3>2, <3>3
  <2>3. \A x \in Fds \ {fd} : told'[x] = {<<h, groups'[h].port>> : h \in GetUserGroups(x)'}
    BY <1>4, <1>6, <1>7, <2>1
  <2> QED BY <2>2, <2>3 DEF ToldEndpointsAreCurrent
<1>10. told' \in [Fds -> SUBSET (GroupNames \X Ports)]
  BY <1>1, <1>5, <1>6, <1>7, <1>8, <1>9, ToldType, ZenonT(30), ZenonT(60)
<1>11. reply' \in Reply
  BY <1>6 DEF Reply, ChatStatus
<1> QED BY <1>1, <1>5, <1>9, <1>10, <1>11 DEF IInv, TypeOK, UMInv, SessionsAreConnected

\* ActionLeaveGroup, ActionLogout, ActionExit and CallbackDisconnect of a
\* logged-in connection: the user of fd leaves the groups gset of its own.
LEMMA UserLeaves ==
  ASSUME IInv, request' \in Request, UMInv', NEW fd \in DOMAIN usersByFd, NEW gset \in SUBSET GetUserGroups(fd),
         DOMAIN usersByName' = DOMAIN usersByName,
         \A x \in DOMAIN usersByName \ {usersByFd[fd]} : KeepsUser(x),
         usersByName'[usersByFd[fd]].groups = GetUserGroups(fd) \ gset,
         \/ usersByFd' = usersByFd
         \/ usersByFd' = HashMap_Remove(usersByFd, fd) /\ gset = GetUserGroups(fd),
         groups' = LeaveAllGroups(groups, gset),
         told' = [told EXCEPT ![fd] = {e \in @ : e[1] \notin gset}],
         reply' \in Reply, conns' \subseteq Fds, DOMAIN usersByFd' \subseteq conns'
  PROVE  IInv'
<1> DEFINE n == usersByFd[fd]
<1>1. /\ fd \in Fds
      /\ GetUserGroups(fd) \subseteq GroupNames
      /\ \A h \in GroupNames : n \in Members(h) <=> h \in GetUserGroups(fd)
      /\ GetUserGroups(fd)' = GetUserGroups(fd) \ gset
  <2>1. fd \in Fds /\ n \in DOMAIN usersByName /\ usersByName[n] \in User
    BY DEF IInv, UMInv, UserManagerTypeOK
  <2>2. GetUserGroups(fd)' = GetUserGroups(fd) \ gset
    <3>1. CASE usersByFd' = usersByFd
      BY <3>1 DEF GetUserGroups, IsFdLoggedIn, UserOf
    <3>2. CASE usersByFd' = HashMap_Remove(usersByFd, fd) /\ gset = GetUserGroups(fd)
      BY <3>2 DEF GetUserGroups, IsFdLoggedIn, HashMap_Remove
    <3> QED BY <3>1, <3>2
  <2> QED BY <2>1, <2>2, GroupsOfSession DEF IInv, GetUserGroups, IsFdLoggedIn, UserOf, Members
<1>2. \A h \in GroupNames : Members(h)' = IF h \in gset THEN Members(h) \ {n} ELSE Members(h)
  <2>1. GetUserGroups(fd) \ gset \in SUBSET GroupNames
    BY <1>1
  <2>2. \A h \in GroupNames : Members(h)' = IF h \in GetUserGroups(fd) \ gset
                                           THEN Members(h) \cup {n} ELSE Members(h) \ {n}
    BY <2>1, ChangedMembers DEF IInv
  <2> TAKE h \in GroupNames
  <2>3. CASE h \in gset
    BY <2>2, <2>3
  <2>4. CASE h \in GetUserGroups(fd) \ gset
    <3>1. Members(h) \cup {n} = Members(h)
      BY <1>1, <2>4
    <3> QED BY <2>2, <2>4, <3>1, ZenonT(30), ZenonT(60)
  <2>5. CASE h \notin GetUserGroups(fd)
    BY <1>1, <2>2, <2>5, ZenonT(30), ZenonT(60)
  <2> QED BY <2>3, <2>4, <2>5
<1>3. \A x \in Fds \ {fd} : GetUserGroups(x)' = GetUserGroups(x)
  BY OtherSessionsKept DEF IInv
<1> HIDE DEF n
<1>4. /\ GroupManagerTypeOK'
      /\ RefCountIsMembership'
      /\ \A g \in DOMAIN groups' : g \in DOMAIN groups /\ groups'[g].port = groups[g].port
  <2>1. gset \in SUBSET GroupNames /\ \A g \in gset : n \in Members(g)
    BY <1>1
  <2> QED BY <1>2, <2>1, LeaveGroups DEF IInv, TypeOK
<1>5. \A x \in Fds : GetUserGroups(x)' \subseteq DOMAIN groups'
  <2> SUFFICES ASSUME NEW x \in Fds, NEW g \in GetUserGroups(x)' PROVE g \in DOMAIN groups'
    OBVIOUS
  <2>1. g \in GroupNames /\ usersByFd'[x] \in Members(g)'
    BY DEF UMInv, UserManagerTypeOK, GetUserGroups, IsFdLoggedIn, UserOf, User, Members
  <2> QED BY <1>4, <2>1 DEF RefCountIsMembership
<1>6. told \in [Fds -> SUBSET (GroupNames \X Ports)]
  BY DEF IInv, TypeOK
<1>7. ToldEndpointsAreCurrent'
  <2>1. ASSUME NEW x \in Fds
        PROVE  told[x] = {<<h, groups[h].port>> : h \in GetUserGroups(x)}
    BY <2>1 DEF IInv, ToldEndpointsAreCurrent
  <2>2. told'[fd] = {<<h, groups'[h].port>> : h \in GetUserGroups(fd)'}
    <3>1. told'[fd] = {e \in told[fd] : e[1] \notin gset}
      BY <1>1, <1>6
    <3>2. told'[fd] = {<<h, groups[h].port>> : h \in GetUserGroups(fd) \ gset}
      BY <1>1, <2>1, <3>1
    <3>3. GetUserGroups(fd)' = GetUserGroups(fd) \ gset /\ GetUserGroups(fd)' \subseteq DOMAIN groups'
      BY <1>1, <1>5
    <3>4. \A h \in GetUserGroups(fd) \ gset : groups'[h].port = groups[h].port
      BY <1>4, <3>3
    <3> QED BY ONLY <3>2, <3>3, <3>4
  <2>3. ASSUME NEW x \in Fds \ {fd}
        PROVE  told'[x] = {<<h, groups'[h].port>> : h \in GetUserGroups(x)'}
    <3>1. told'[x] = told[x]
      BY <1>6
    <3>2. GetUserGroups(x)' = GetUserGroups(x) /\ GetUserGroups(x)' \subseteq DOMAIN groups'
      BY <1>3, <1>5
    <3>3. \A h \in GetUserGroups(x) : groups'[h].port = groups[h].port
      BY <1>4, <3>2
    <3>4. told[x] = {<<h, groups[h].port>> : h \in GetUserGroups(x)}
      BY <2>1
    <3> QED BY ONLY <3>1, <3>2, <3>3, <3>4
  <2> QED BY <2>2, <2>3 DEF ToldEndpointsAreCurrent
<1>8. told' \in [Fds -> SUBSET (GroupNames \X Ports)]
  BY <1>4, <1>5, <1>6, <1>7, ToldType, ZenonT(30), ZenonT(60)
<1> QED BY <1>4, <1>7, <1>8 DEF IInv, TypeOK, UMInv, SessionsAreConnected

-----------------------------------------------------------------------------
(* The handlers.                                                           *)

\* A request that leaves users, groups and told endpoints as they are.
LEMMA Refused ==
  ASSUME IInv, request' \in Request, RefusedUM, UMInv', reply' \in Reply, UNCHANGED <<groups, told, conns>>
  PROVE  IInv'
<1>1. conns' \subseteq Fds /\ DOMAIN usersByFd' \subseteq conns'
  BY DEF IInv, TypeOK, SessionsAreConnected, RefusedUM
<1> QED BY <1>1, RefusedMembers, NobodyMoves DEF IInv

\* Every answer is well formed.
LEMMA ReplyType ==
  ASSUME NEW fd \in Fds, NEW status \in ChatStatus,
         SendOrLog(fd, status) \/ SendAfterSoftAssert(fd, status)
  PROVE  reply' \in Reply
<1>1. CASE SendOrLog(fd, status)
  BY <1>1 DEF SendOrLog, Reply
<1>2. CASE SendAfterSoftAssert(fd, status)
  BY <1>2 DEF SendAfterSoftAssert, Reply
<1> QED BY <1>1, <1>2

\* The user manager without a call of it.
LEMMA Untouched ==
  ASSUME UMInv, UNCHANGED umVars
  PROVE  UMInv' /\ RefusedUM
  BY DEF umVars, RefusedUM, KeepsUser, UMInv, UserManagerTypeOK, IndexesAgree,
         OfflineUsersHaveNoGroups, UserOf

\* A registration or a login opens a session that is in no group yet.
LEMMA RegisterOrLoginInv ==
  ASSUME IInv, request' \in Request, NEW fd \in conns, NEW n \in Names, NEW p \in Passwords,
         ActionRegister(fd, n, p) \/ ActionLogin(fd, n, p)
  PROVE  IInv'
<1> USE DEF ChatStatus
<1>1. fd \in Fds /\ UMInv
  BY DEF IInv, TypeOK
<1>2. PICK r \in UserManagerResult : AddUser(fd, n, p, r) \/ Login(fd, n, p, r)
  BY DEF ActionRegister, ActionLogin
<1>3. reply' \in Reply /\ UNCHANGED <<groups, conns, told>>
  BY <1>1, ReplyType DEF ActionRegister, ActionLogin
<1>4. UMInv'
  BY <1>1, <1>2, AddUserEffect, LoginEffect, ZenonT(30), ZenonT(60)
<1>5. CASE r # "SUCCESS"
  <2>1. RefusedUM
    <3>1. CASE AddUser(fd, n, p, r)
      BY <1>1, <1>5, <3>1, AddUserEffect, ZenonT(30), ZenonT(60)
    <3>2. CASE Login(fd, n, p, r)
      BY ONLY <1>1, <1>5, <3>2, n \in Names, p \in Passwords, LoginEffect
    <3> QED BY <1>2, <3>1, <3>2
  <2> QED BY <1>3, <1>4, <2>1, Refused
<1>6. CASE r = "SUCCESS"
  <2>1. /\ fd \notin DOMAIN usersByFd
        /\ DOMAIN usersByName' = DOMAIN usersByName \cup {n}
        /\ \A x \in DOMAIN usersByName : KeepsUser(x)
        /\ usersByName'[n].groups = {}
        /\ usersByFd' = HashMap_Insert(usersByFd, fd, n)
    <3>1. CASE AddUser(fd, n, p, r)
      BY <1>1, <1>6, <3>1, AddUserEffect, ZenonT(30), ZenonT(60)
    <3>2. CASE Login(fd, n, p, r)
      <4>1. /\ n \in DOMAIN usersByName
            /\ usersByName[n].state = "USER_STATE_OFFLINE"
            /\ fd \notin DOMAIN usersByFd
            /\ DOMAIN usersByName' = DOMAIN usersByName
            /\ \A x \in DOMAIN usersByName : KeepsUser(x)
            /\ usersByFd' = HashMap_Insert(usersByFd, fd, n)
        BY <1>1, <1>6, <3>2, LoginEffect
      <4> QED BY <1>1, <4>1, ZenonT(30), ZenonT(60) DEF UMInv, OfflineUsersHaveNoGroups, KeepsUser
    <3> QED BY <1>2, <3>1, <3>2
  <2>2. /\ \A g \in GroupNames : Members(g)' = Members(g)
        /\ \A x \in Fds : GetUserGroups(x)' = GetUserGroups(x)
    BY <1>1, <1>4, <2>1, NewSessionMembers
  <2>3. conns' \subseteq Fds /\ DOMAIN usersByFd' \subseteq conns'
    BY <1>3, <2>1 DEF IInv, TypeOK, SessionsAreConnected, HashMap_Insert
  <2> QED BY <1>3, <1>4, <2>2, <2>3, NobodyMoves
<1> QED BY <1>5, <1>6

\* The end of a session, by request or by disconnection.
LEMMA SessionEnds ==
  ASSUME IInv, request' \in Request, NEW fd \in conns, NEW r, IsFdLoggedIn(fd), Logout(fd, r),
         groups' = LeaveAllGroups(groups, GetUserGroups(fd)),
         told' = [told EXCEPT ![fd] = {}],
         reply' \in Reply, conns' = conns \/ conns' = conns \ {fd}
  PROVE  IInv'
<1>1. fd \in Fds /\ fd \in DOMAIN usersByFd /\ UMInv
  BY DEF IInv, TypeOK, IsFdLoggedIn
<1>2. /\ UMInv'
      /\ DOMAIN usersByName' = DOMAIN usersByName
      /\ \A x \in DOMAIN usersByName \ {usersByFd[fd]} : KeepsUser(x)
      /\ usersByName'[usersByFd[fd]].groups = GetUserGroups(fd) \ GetUserGroups(fd)
      /\ usersByFd' = HashMap_Remove(usersByFd, fd)
  BY <1>1, LogoutEffect
<1>3. conns' \subseteq Fds /\ DOMAIN usersByFd' \subseteq conns'
  BY <1>2 DEF IInv, TypeOK, SessionsAreConnected, HashMap_Remove
<1>4. told' = [told EXCEPT ![fd] = {e \in @ : e[1] \notin GetUserGroups(fd)}]
  <2>1. told[fd] = {<<g, groups[g].port>> : g \in GetUserGroups(fd)}
    BY <1>1 DEF IInv, ToldEndpointsAreCurrent
  <2>2. {e \in told[fd] : e[1] \notin GetUserGroups(fd)} = {}
    BY <2>1
  <2> QED BY <2>2, ZenonT(30), ZenonT(60)
<1> QED BY <1>1, <1>2, <1>3, <1>4, UserLeaves, ZenonT(30), ZenonT(60)

\* ActionLogout gives up exactly the groups of the session it ends.
LEMMA LogoutInv ==
  ASSUME IInv, request' \in Request, NEW fd \in conns, ActionLogout(fd)
  PROVE  IInv'
<1> USE DEF ChatStatus
<1>1. fd \in Fds /\ UMInv
  BY DEF IInv, TypeOK
<1>2. CASE ~IsFdLoggedIn(fd)
  <2>1. UNCHANGED <<umVars, groups, told, conns>> /\ reply' \in Reply
    BY <1>1, <1>2, ReplyType DEF ActionLogout
  <2>2. UMInv' /\ RefusedUM
    BY <1>1, <2>1, Untouched
  <2> QED BY <2>1, <2>2, Refused
<1>3. CASE IsFdLoggedIn(fd)
  <2>1. PICK r \in UserManagerResult :
          /\ Logout(fd, r)
          /\ IF r = "SUCCESS" THEN SendOrLog(fd, "CHAT_OK")
                              ELSE SendAfterSoftAssert(fd, "CHAT_ERR_BAD_CREDS")
    BY <1>3 DEF ActionLogout
  <2>2. reply' \in Reply
    BY <1>1, <2>1, ReplyType
  <2>3. /\ groups' = LeaveAllGroups(groups, GetUserGroups(fd))
        /\ told' = [told EXCEPT ![fd] = {}]
        /\ conns' = conns
    BY <1>3 DEF ActionLogout
  <2> QED BY <1>3, <2>1, <2>2, <2>3, SessionEnds, ZenonT(30), ZenonT(60)
<1> QED BY <1>2, <1>3

\* So do an exit and a disconnection (ServerManager_CleanupSession).
LEMMA CleanupInv ==
  ASSUME IInv, request' \in Request, NEW fd \in conns, CleanupSession(fd),
         told' = [told EXCEPT ![fd] = {}],
         reply' \in Reply, conns' = conns \/ conns' = conns \ {fd}
  PROVE  IInv'
<1>1. fd \in Fds /\ UMInv
  BY DEF IInv, TypeOK
<1>2. CASE IsFdLoggedIn(fd)
  <2>1. PICK r \in UserManagerResult : Logout(fd, r)
    BY <1>2 DEF CleanupSession
  <2> QED BY <1>2, <2>1, SessionEnds, ZenonT(30), ZenonT(60) DEF CleanupSession
<1>3. CASE ~IsFdLoggedIn(fd)
  <2>1. UNCHANGED umVars /\ groups' = groups
    BY <1>3 DEF CleanupSession
  <2>2. UMInv' /\ RefusedUM
    BY <1>1, <2>1, Untouched
  <2>3. told' = told
    <3>1. told[fd] = {} /\ told \in [Fds -> SUBSET (GroupNames \X Ports)]
      BY <1>1, <1>3 DEF IInv, TypeOK, ToldEndpointsAreCurrent, GetUserGroups
    <3> QED BY <3>1
  <2>4. conns' \subseteq Fds /\ DOMAIN usersByFd' \subseteq conns'
    BY <1>3, <2>1 DEF IInv, TypeOK, SessionsAreConnected, IsFdLoggedIn, umVars
  <2> QED BY <1>1, <2>1, <2>2, <2>3, <2>4, RefusedMembers, NobodyMoves
<1> QED BY <1>2, <1>3

\* Creating a group and taking it back leaves no trace.
LEMMA RollBack ==
  ASSUME GroupManagerTypeOK, NEW g \in GroupNames, AddGroupResult(groups, g) = "SUCCESS"
  PROVE  RemoveGroupIfEmpty(RemoveGroupIfEmpty(AddGroup(groups, g), g), g) = groups
<1>1. g \notin DOMAIN groups
  BY DEF AddGroupResult
<1>2. RemoveGroupIfEmpty(AddGroup(groups, g), g) = groups
  BY <1>1 DEF GroupManagerTypeOK, RemoveGroupIfEmpty, AddGroup, HashMap_Insert, HashMap_Remove,
              Group_Create
<1> QED BY <1>1, <1>2 DEF RemoveGroupIfEmpty

\* ActionCreateGroup, whether it succeeds, is refused or is rolled back.
LEMMA CreateGroupInv ==
  ASSUME IInv, request' \in Request, NEW fd \in conns, NEW g \in GroupNames, ActionCreateGroup(fd, g)
  PROVE  IInv'
<1> USE DEF ChatStatus
<1>1. fd \in Fds /\ UMInv /\ conns' = conns
  BY DEF IInv, TypeOK, ActionCreateGroup
<1>2. CASE SendOrLog(fd, "CHAT_ERR_GENERIC") /\ UNCHANGED <<umVars, groups, told>>
  BY <1>1, <1>2, ReplyType, Untouched, Refused
<1>3. ASSUME NEW r \in UserManagerResult, AddGroupResult(groups, g) = "SUCCESS",
             AddUserToGroup(fd, g, r), r # "SUCCESS",
             groups' = RemoveGroupIfEmpty(RemoveGroupIfEmpty(AddGroup(groups, g), g), g),
             SendOrLog(fd, "CHAT_ERR_GENERIC"), UNCHANGED told
      PROVE  IInv'
  <2>1. groups' = groups
    BY <1>3, RollBack DEF IInv, TypeOK
  <2>2. UMInv' /\ RefusedUM
    BY <1>1, <1>3, AddUserToGroupEffect, ZenonT(30), ZenonT(60)
  <2> QED BY <1>1, <1>3, <2>1, <2>2, ReplyType, Refused
<1>4. ASSUME AddGroupResult(groups, g) = "SUCCESS", AddUserToGroup(fd, g, "SUCCESS"),
             groups' = IncreaseGroupRefCount(AddGroup(groups, g), g),
             SendGroupEndpoint(IncreaseGroupRefCount(AddGroup(groups, g), g), fd, g)
      PROVE  IInv'
  BY <1>1, <1>4, UserEnters
<1> QED BY <1>2, <1>3, <1>4 DEF ActionCreateGroup

\* ActionJoinGroup counts the caller exactly when it lists the group.
LEMMA JoinGroupInv ==
  ASSUME IInv, request' \in Request, NEW fd \in conns, NEW g \in GroupNames, ActionJoinGroup(fd, g)
  PROVE  IInv'
<1> USE DEF ChatStatus
<1>1. fd \in Fds /\ UMInv /\ conns' = conns
  BY DEF IInv, TypeOK, ActionJoinGroup
<1>2. ASSUME NEW status \in ChatStatus, SendOrLog(fd, status), UNCHANGED <<umVars, groups, told>>
      PROVE  IInv'
  BY <1>1, <1>2, ReplyType, Untouched, Refused
<1>3. ASSUME NEW r \in UserManagerResult, AddUserToGroup(fd, g, r), r # "SUCCESS",
             SendOrLog(fd, "CHAT_ERR_GENERIC"), UNCHANGED <<groups, told>>
      PROVE  IInv'
  <2>1. UMInv' /\ RefusedUM
    BY <1>1, <1>3, AddUserToGroupEffect
  <2> QED BY <1>1, <1>3, <2>1, ReplyType, Refused
<1>4. ASSUME g \in DOMAIN groups, AddUserToGroup(fd, g, "SUCCESS"),
             groups' = IncreaseGroupRefCount(groups, g),
             SendGroupEndpoint(IncreaseGroupRefCount(groups, g), fd, g)
      PROVE  IInv'
  BY <1>1, <1>4, UserEnters
<1> QED BY <1>2, <1>3, <1>4 DEF ActionJoinGroup

\* Leaving one group is leaving all the groups of a set of one.
LEMMA LeaveOne ==
  ASSUME GroupManagerTypeOK, NEW g \in DOMAIN groups, groups[g].refCount # 0
  PROVE  RemoveGroupIfEmpty(DecreaseGroupRefCount(groups, g), g) = LeaveAllGroups(groups, {g})
<1> DEFINE dec == DecreaseGroupRefCount(groups, g)
           less == [groups[g] EXCEPT !.refCount = @ - 1]
           left == [h \in DOMAIN groups |->
                      IF h \in {g} /\ groups[h].refCount > 0
                      THEN [groups[h] EXCEPT !.refCount = @ - 1] ELSE groups[h]]
<1>1. groups[g] \in Group /\ groups[g].refCount > 0
  BY DEF GroupManagerTypeOK, Group
<1>2. dec = [h \in DOMAIN groups |-> IF h = g THEN less ELSE groups[h]]
  BY <1>1 DEF DecreaseGroupRefCount, GroupManagerTypeOK
<1>3. left = [h \in DOMAIN groups |-> IF h = g THEN less ELSE groups[h]]
  BY <1>1
<1>4. LeaveAllGroups(groups, {g}) =
        [h \in {h \in DOMAIN groups : ~(h \in {g} /\ left[h].refCount = 0)} |-> left[h]]
  BY DEF LeaveAllGroups
<1> HIDE DEF dec, left, less
<1>5. CASE less.refCount = 0
  BY <1>2, <1>3, <1>4, <1>5 DEF RemoveGroupIfEmpty, HashMap_Remove, dec
<1>6. CASE less.refCount # 0
  BY <1>2, <1>3, <1>4, <1>6 DEF RemoveGroupIfEmpty, dec
<1> QED BY <1>5, <1>6

\* A group with a member has a positive count: GROUP_MANAGER_RESULT_EMPTY_GROUP
\* is never returned to ActionLeaveGroup.
LEMMA MemberCounted ==
  ASSUME IInv, NEW fd \in Fds, NEW g \in GroupNames
  PROVE  g \in DOMAIN groups /\ IsFdLoggedIn(fd) /\ IsUserInGroup(fd, g) => groups[g].refCount # 0
<1> SUFFICES ASSUME g \in DOMAIN groups, IsFdLoggedIn(fd), IsUserInGroup(fd, g)
             PROVE  groups[g].refCount # 0
  OBVIOUS
<1>1. usersByFd[fd] \in Members(g)
  BY DEF IInv, UMInv, UserManagerTypeOK, IsFdLoggedIn, IsUserInGroup, UserOf, Members
<1> QED BY <1>1, MembersFinite, FS_EmptySet DEF IInv, RefCountIsMembership

\* ActionLeaveGroup removes the group with its last member.
LEMMA LeaveGroupInv ==
  ASSUME IInv, request' \in Request, NEW fd \in conns, NEW g \in GroupNames, ActionLeaveGroup(fd, g)
  PROVE  IInv'
<1> USE DEF ChatStatus
<1>1. fd \in Fds /\ UMInv /\ conns' = conns
  BY DEF IInv, TypeOK, ActionLeaveGroup
<1>2. ASSUME NEW status \in ChatStatus, SendOrLog(fd, status), UNCHANGED <<umVars, groups, told>>
      PROVE  IInv'
  BY <1>1, <1>2, ReplyType, Untouched, Refused
<1>3. ASSUME g \in DOMAIN groups, RemoveUserFromGroup(fd, g, "SUCCESS"), groups[g].refCount # 0,
             groups' = RemoveGroupIfEmpty(DecreaseGroupRefCount(groups, g), g),
             SendOrLog(fd, "CHAT_OK"),
             told' = [told EXCEPT ![fd] = {e \in @ : e[1] # g}]
      PROVE  IInv'
  <2>1. /\ UMInv'
        /\ fd \in DOMAIN usersByFd
        /\ g \in UserOf(fd).groups
        /\ DOMAIN usersByName' = DOMAIN usersByName
        /\ \A x \in DOMAIN usersByName \ {usersByFd[fd]} : KeepsUser(x)
        /\ usersByName'[usersByFd[fd]].groups = UserOf(fd).groups \ {g}
        /\ usersByFd' = usersByFd
    BY <1>1, <1>3, RemoveUserFromGroupEffect, ZenonT(30), ZenonT(60)
  <2>2. GetUserGroups(fd) = UserOf(fd).groups
    BY <2>1 DEF GetUserGroups, IsFdLoggedIn
  <2>3. groups' = LeaveAllGroups(groups, {g})
    BY <1>3, LeaveOne DEF IInv, TypeOK
  <2>4. told' = [told EXCEPT ![fd] = {e \in @ : e[1] \notin {g}}]
    BY <1>3
  <2>5. reply' \in Reply /\ conns' \subseteq Fds /\ DOMAIN usersByFd' \subseteq conns'
    BY <1>1, <1>3, <2>1, ReplyType DEF IInv, TypeOK, SessionsAreConnected
  <2> QED BY <2>1, <2>2, <2>3, <2>4, <2>5, UserLeaves
<1>4. g \in DOMAIN groups /\ IsFdLoggedIn(fd) /\ IsUserInGroup(fd, g) => groups[g].refCount # 0
  BY <1>1, MemberCounted
<1> QED BY <1>2, <1>3, <1>4 DEF ActionLeaveGroup

\* A new connection starts without a session.
LEMMA ConnectionInv ==
  ASSUME IInv, NEW fd \in Fds, CallbackNewConnection(fd)
  PROVE  IInv'
<1>1. UNCHANGED <<umVars, groups, request, reply, told>> /\ conns' = conns \cup {fd}
  BY DEF CallbackNewConnection
<1>2. UMInv' /\ RefusedUM
  BY <1>1, Untouched DEF IInv
<1>3. conns' \subseteq Fds /\ DOMAIN usersByFd' \subseteq conns' /\ reply' \in Reply
      /\ request' \in Request
  BY <1>1 DEF IInv, TypeOK, SessionsAreConnected, umVars
<1> QED BY <1>1, <1>2, <1>3, RefusedMembers, NobodyMoves DEF IInv

-----------------------------------------------------------------------------
(* The theorems.                                                           *)

\* Every step keeps IInv.
LEMMA StepInv == IInv /\ [Next]_vars => IInv'
<1> SUFFICES ASSUME IInv, [Next]_vars PROVE IInv'
  OBVIOUS
<1>1. ASSUME NEW fd \in conns, fd \in Fds, CallbackRecv(fd)
      PROVE  IInv'
  <2>0. request' \in Request
    BY <1>1 DEF CallbackRecv, FindAction, Request
  <2>1. ASSUME NEW status \in ChatStatus, SendOrLog(fd, status),
               UNCHANGED <<umVars, groups, conns, told>>
        PROVE  IInv'
    BY <1>1, <2>0, <2>1, ReplyType, Untouched, Refused DEF IInv
  <2>2. CASE RefuseMessage(fd) \/ ActionListUsers(fd) \/ ActionListGroups(fd)
    BY <2>1, <2>2 DEF RefuseMessage, ActionListUsers, ActionListGroups, ChatStatus
  <2>3. CASE ActionExit(fd)
    BY <1>1, <2>0, <2>3, CleanupInv, ReplyType, ZenonT(30), ZenonT(60) DEF ActionExit, ChatStatus
  <2> QED BY <1>1, <2>0, <2>2, <2>3, RegisterOrLoginInv, LogoutInv, CreateGroupInv, JoinGroupInv,
             LeaveGroupInv DEF CallbackRecv, FindAction
<1>2. ASSUME NEW fd \in Fds, CallbackDisconnect(fd)
      PROVE  IInv'
  <2>1. reply' \in Reply /\ request' \in Request
    BY <1>2 DEF CallbackDisconnect, IInv, TypeOK
  <2> QED BY <1>2, <2>1, CleanupInv, ZenonT(30), ZenonT(60) DEF CallbackDisconnect
<1>3. CASE UNCHANGED vars
  <2>1. UNCHANGED <<umVars, groups, conns, request, reply, told>>
    BY <1>3 DEF vars, umVars
  <2>2. reply' \in Reply /\ request' \in Request
    BY <2>1 DEF IInv, TypeOK
  <2> QED BY <2>1, <2>2, Untouched, Refused DEF IInv
<1> QED BY <1>1, <1>2, <1>3, ConnectionInv DEF Next, CallbackRecv

\* A server without users and groups satisfies the invariant.
LEMMA InitInv == Init => IInv
<1> SUFFICES ASSUME Init PROVE IInv
  OBVIOUS
<1> USE DEF Init, UserManager_Create, GroupManager_Create, HashMap_Create
<1>1. UMInv
  BY DEF UMInv, UserManagerTypeOK, IndexesAgree, OfflineUsersHaveNoGroups
<1>2. TypeOK
  BY <1>1 DEF TypeOK, UMInv, GroupManagerTypeOK, NoReply, Reply, ChatStatus, Request
<1>3. RefCountIsMembership /\ SessionsAreConnected /\ ToldEndpointsAreCurrent
  BY DEF RefCountIsMembership, Members, SessionsAreConnected, ToldEndpointsAreCurrent,
         GetUserGroups, IsFdLoggedIn
<1> QED BY <1>1, <1>2, <1>3 DEF IInv

\* IInv holds throughout.
LEMMA Invariance == Spec => []IInv
  BY InitInv, StepInv, PTL DEF Spec

\* Users, groups and answers always have their types.
THEOREM TypeCorrect == Spec => []TypeOK
<1>1. IInv => TypeOK
  BY DEF IInv
<1> QED BY Invariance, <1>1, PTL

\* In every reachable state a group's reference count is the number of users in
\* it, a group exists exactly while that number is positive, and the endpoints
\* given to connected members are the current ones.
THEOREM GroupsCorrect == Spec => [](RefCountIsMembership /\ ToldEndpointsAreCurrent)
<1>1. IInv => RefCountIsMembership /\ ToldEndpointsAreCurrent
  BY DEF IInv
<1> QED BY Invariance, <1>1, PTL

\* In every reachable state the indexes of the users agree, a user that is not online
\* is in no group, and a session belongs to an open connection.
THEOREM SessionsCorrect == Spec => [](SessionsConsistent /\ SessionsAreConnected)
<1>1. IInv => SessionsConsistent /\ SessionsAreConnected
  BY DEF IInv, UMInv, SessionsConsistent
<1> QED BY Invariance, <1>1, PTL

=============================================================================
