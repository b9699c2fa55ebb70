----------------------------- MODULE UserManager -----------------------------
(***************************************************************************)
(* ServerMng/UserManager.c and User.c: the registered users, indexed by    *)
(* name (m_usersByName, every account) and by connection fd (m_usersByFd,  *)
(* the logged-in ones). The second map's key is a pointer to the user's    *)
(* own m_fdConnection, so the two must be kept in step by hand.            *)
(*                                                                         *)
(* Every operation is an action with its UserManagerResult as the last     *)
(* parameter. Memory may run out in any allocation the operation makes.    *)
(* A User* is the user's name; the group list of a user is a set, because  *)
(* only its members matter (User_AddGroup refuses a name already there).   *)
(***************************************************************************)
EXTENDS HashMap, ChatTypes

VARIABLES
  usersByName,  \* m_usersByName: name -> User
  usersByFd     \* m_usersByFd: fd -> User, given by name

umVars == <<usersByName, usersByFd>>

UserState == {"USER_STATE_ONLINE", "USER_STATE_OFFLINE"}

User == [fd: Fds \cup {NoFd}, password: Passwords, state: UserState, groups: SUBSET GroupNames]

UserManagerResult ==
  {"SUCCESS", "NOT_FOUND", "NAME_TAKEN", "ALREADY_IN_GROUP", "NOT_IN_GROUP", "ALLOCATION_FAILED",
   "INTERNAL_ERROR", "BAD_CREDS", "NOT_LOGGED", "ALREADY_LOG"}

User_Create(fd, p) ==
  [fd |-> fd, password |-> p, state |-> "USER_STATE_OFFLINE", groups |-> {}]

User_SetFdConnection(u, fd) == [u EXCEPT !.fd = fd]

User_SetState(u, s) == [u EXCEPT !.state = s]

User_AddGroup(u, g) == [u EXCEPT !.groups = @ \cup {g}]

User_RemoveGroup(u, g) == [u EXCEPT !.groups = @ \ {g}]

User_DestroyGroups(u) == [u EXCEPT !.groups = {}]

UserManager_Create ==
  /\ usersByName = HashMap_Create
  /\ usersByFd = HashMap_Create

-----------------------------------------------------------------------------
(* Lookups.                                                                *)

UserOf(fd) == usersByName[usersByFd[fd]]

\* UserManager_IsUserLoggedIn when the caller passes no name, as ServerManager does.
IsFdLoggedIn(fd) == fd \in DOMAIN usersByFd

IsUserInGroup(fd, g) == g \in UserOf(fd).groups

GetUserGroups(fd) == IF IsFdLoggedIn(fd) THEN UserOf(fd).groups ELSE {}

-----------------------------------------------------------------------------
(* Operations.                                                             *)

\* Inserts by name, then by fd. When the second insertion fails (the fd has a
\* session already, or memory ran out) the first is undone.
AddUser(fd, n, p, r) ==
  LET added == HashMap_Insert(usersByName, n, User_Create(fd, p))
  IN  \/ /\ r \in {"ALLOCATION_FAILED", "INTERNAL_ERROR"}
         /\ UNCHANGED umVars
      \/ /\ n \in DOMAIN usersByName
         /\ r = "NAME_TAKEN"
         /\ UNCHANGED umVars
      \/ /\ n \notin DOMAIN usersByName
         /\ r = "INTERNAL_ERROR"
         /\ usersByName' = HashMap_Remove(added, n)
         /\ UNCHANGED usersByFd
      \/ /\ n \notin DOMAIN usersByName
         /\ fd \notin DOMAIN usersByFd
         /\ r = "SUCCESS"
         /\ usersByName' = [added EXCEPT ![n] = User_SetState(@, "USER_STATE_ONLINE")]
         /\ usersByFd' = HashMap_Insert(usersByFd, fd, n)

RemoveUser(fd, r) ==
  \/ /\ fd \notin DOMAIN usersByFd
     /\ r = "NOT_FOUND"
     /\ UNCHANGED umVars
  \/ /\ fd \in DOMAIN usersByFd
     /\ r = "SUCCESS"
     /\ usersByName' = HashMap_Remove(usersByName, usersByFd[fd])
     /\ usersByFd' = HashMap_Remove(usersByFd, fd)

\* Faulty: the password is not compared.
LoginAnyPassword(n, p) ==
  IF n \notin DOMAIN usersByName THEN "NOT_FOUND"
  ELSE IF usersByName[n].state = "USER_STATE_ONLINE" THEN "ALREADY_LOG" ELSE "SUCCESS"

\* The tests of UserManager_Login, in order.
LoginResult(n, p) ==
  IF n \notin DOMAIN usersByName THEN "NOT_FOUND"
  ELSE IF usersByName[n].state = "USER_STATE_ONLINE" THEN "ALREADY_LOG"
  ELSE IF usersByName[n].password # p THEN "BAD_CREDS" ELSE "SUCCESS"

\* Faulty: a second login on a connection replaces the first in m_usersByFd.
LoginOverSession(fd, n, p, r) ==
  /\ r = LoginResult(n, p)
  /\ IF r = "SUCCESS"
     THEN /\ usersByName' = [usersByName EXCEPT ![n] =
                               User_SetState(User_SetFdConnection(@, fd), "USER_STATE_ONLINE")]
          /\ usersByFd' = HashMap_Insert(usersByFd, fd, n)
     ELSE UNCHANGED umVars

\* The user's m_fdConnection is set before the insertion by fd, and stays set
\* when that insertion fails (the fd has a session already, or memory ran out).
Login(fd, n, p, r) ==
  \/ /\ LoginResult(n, p) # "SUCCESS"
     /\ r = LoginResult(n, p)
     /\ UNCHANGED umVars
  \/ /\ LoginResult(n, p) = "SUCCESS"
     /\ r = "INTERNAL_ERROR"
     /\ usersByName' = [usersByName EXCEPT ![n] = User_SetFdConnection(@, fd)]
     /\ UNCHANGED usersByFd
  \/ /\ LoginResult(n, p) = "SUCCESS"
     /\ fd \notin DOMAIN usersByFd
     /\ r = "SUCCESS"
     /\ usersByName' = [usersByName EXCEPT ![n] =
                          User_SetState(User_SetFdConnection(@, fd), "USER_STATE_ONLINE")]
     /\ usersByFd' = HashMap_Insert(usersByFd, fd, n)

\* Faulty: the test of the state is inverted.
LogoutResultInverted(fd) ==
  IF ~IsFdLoggedIn(fd) THEN "NOT_FOUND"
  ELSE IF UserOf(fd).state = "USER_STATE_ONLINE" THEN "NOT_LOGGED" ELSE "SUCCESS"

LogoutResult(fd) ==
  IF ~IsFdLoggedIn(fd) THEN "NOT_FOUND"
  ELSE IF UserOf(fd).state = "USER_STATE_OFFLINE" THEN "NOT_LOGGED" ELSE "SUCCESS"

\* Faulty: the user goes OFFLINE and stays filed under its fd.
LogoutKeepsFd(fd, r) ==
  /\ r = LogoutResult(fd)
  /\ usersByName' = IF r = "SUCCESS"
                    THEN [usersByName EXCEPT ![usersByFd[fd]] =
                            User_SetState(User_DestroyGroups(@), "USER_STATE_OFFLINE")]
                    ELSE usersByName
  /\ UNCHANGED usersByFd

\* The user's groups are dropped (User_DestroyGroups) without telling the
\* GroupManager: the caller has released them before.
Logout(fd, r) ==
  /\ r = LogoutResult(fd)
  /\ usersByName' = IF r = "SUCCESS"
                    THEN [usersByName EXCEPT ![usersByFd[fd]] =
                            User_SetFdConnection(
                              User_SetState(User_DestroyGroups(@), "USER_STATE_OFFLINE"), NoFd)]
                    ELSE usersByName
  /\ usersByFd' = IF r = "SUCCESS" THEN HashMap_Remove(usersByFd, fd) ELSE usersByFd

\* Faulty: a member may enter a second time.
AddUserToGroupAgain(fd, g) ==
  IF ~IsFdLoggedIn(fd) THEN "NOT_FOUND"
  ELSE IF UserOf(fd).state = "USER_STATE_OFFLINE" THEN "NOT_LOGGED" ELSE "SUCCESS"

AddUserToGroupResult(fd, g) ==
  IF ~IsFdLoggedIn(fd) THEN "NOT_FOUND"
  ELSE IF UserOf(fd).state = "USER_STATE_OFFLINE" THEN "NOT_LOGGED"
  ELSE IF IsUserInGroup(fd, g) THEN "ALREADY_IN_GROUP" ELSE "SUCCESS"

AddUserToGroup(fd, g, r) ==
  /\ \/ /\ r = AddUserToGroupResult(fd, g)
        /\ usersByName' = IF r = "SUCCESS"
                          THEN [usersByName EXCEPT ![usersByFd[fd]] = User_AddGroup(@, g)]
                          ELSE usersByName
     \/ /\ AddUserToGroupResult(fd, g) = "SUCCESS"     \* out of memory
        /\ r = "INTERNAL_ERROR"
        /\ UNCHANGED usersByName
  /\ UNCHANGED usersByFd

RemoveUserFromGroupResult(fd, g) ==
  IF ~IsFdLoggedIn(fd) THEN "NOT_FOUND"
  ELSE IF IsUserInGroup(fd, g) THEN "SUCCESS" ELSE "NOT_IN_GROUP"

RemoveUserFromGroup(fd, g, r) ==
  /\ r = RemoveUserFromGroupResult(fd, g)
  /\ usersByName' = IF r = "SUCCESS"
                    THEN [usersByName EXCEPT ![usersByFd[fd]] = User_RemoveGroup(@, g)]
                    ELSE usersByName
  /\ UNCHANGED usersByFd

-----------------------------------------------------------------------------
(* The manager on its own: any sequence of calls of its interface, also    *)
(* the ones ServerManager never makes (RemoveUser).                        *)

UMNext ==
  \E fd \in Fds, r \in UserManagerResult :
    \/ \E n \in Names, p \in Passwords : AddUser(fd, n, p, r) \/ Login(fd, n, p, r)
    \/ RemoveUser(fd, r)
    \/ Logout(fd, r)
    \/ \E g \in GroupNames : AddUserToGroup(fd, g, r) \/ RemoveUserFromGroup(fd, g, r)

UMSpec == UserManager_Create /\ [][UMNext]_umVars

-----------------------------------------------------------------------------

\* Both indexes hold well-formed users (struct User, UserManager.c:11-17).
UserManagerTypeOK ==
  /\ DOMAIN usersByName \subseteq Names
  /\ usersByName \in [DOMAIN usersByName -> User]
  /\ DOMAIN usersByFd \subseteq Fds
  /\ usersByFd \in [DOMAIN usersByFd -> DOMAIN usersByName]

\* A user is filed under an fd exactly when it is ONLINE and its own
\* m_fdConnection, the storage of the map's key, is that fd.
IndexesAgree ==
  /\ \A fd \in DOMAIN usersByFd :
       /\ UserOf(fd).state = "USER_STATE_ONLINE"
       /\ UserOf(fd).fd = fd
  /\ \A n \in DOMAIN usersByName :
       usersByName[n].state = "USER_STATE_ONLINE" =>
         /\ usersByName[n].fd \in DOMAIN usersByFd
         /\ usersByFd[usersByName[n].fd] = n

OfflineUsersHaveNoGroups ==
  \A n \in DOMAIN usersByName :
    usersByName[n].state = "USER_STATE_OFFLINE" => usersByName[n].groups = {}

\* The two indexes agree, so the key of a filed user never changes under the map,
\* no two names share an fd, and no name has two (UserManager_AddUser, _Login,
\* _Logout, _RemoveUser). And only a user with a session belongs to groups: what
\* User_DestroyGroups drops at logout never reappears, and a group cannot be
\* entered without a login.
SessionsConsistent == IndexesAgree /\ OfflineUsersHaveNoGroups

=============================================================================
