---------------------------- MODULE ServerProgram ----------------------------
(***************************************************************************)
(* serverMain.c over ServerMng/: the server is created and started, serves *)
(* until a key is pressed, is stopped and destroyed. Modelled here is who  *)
(* frees the memory the two directories hold by then. TcpServer has the    *)
(* sockets and the records.                                                *)
(***************************************************************************)
EXTENDS ServerManager

VARIABLES
  main,    \* how far main() is
  owned,   \* the blocks the directories held when ServerManager_Destroy was called
  freed    \* how often free() was called for each pointer

programVars == <<vars, main, owned, freed>>

\* A user and what only it points to are one block but for m_username, which is
\* also the key of m_usersByName; its m_fdConnection, the key of m_usersByFd, is
\* no block but a field. A group's m_name is the key of m_groups.
Pointers ==
  {"m_username", "User", "m_fdConnection"} \X Names \cup {"m_name", "Group"} \X GroupNames

Blocks ==
  {"m_username", "User"} \X DOMAIN usersByName \cup {"m_name", "Group"} \X DOMAIN groups

ProgramInit ==
  /\ Init
  /\ main = "created"
  /\ owned = {}
  /\ freed = [p \in Pointers |-> 0]

\* When the server cannot be started main() returns, and frees nothing.
ServerManager_Start ==
  /\ main = "created"
  /\ main' \in {"running", "exited"}
  /\ UNCHANGED <<vars, owned, freed>>

\* The worker thread, until Stop has joined it.
Serve ==
  /\ main = "running"
  /\ Next
  /\ UNCHANGED <<main, owned, freed>>

ServerManager_Stop ==
  /\ main = "running"
  /\ main' = "stopped"
  /\ UNCHANGED <<vars, owned, freed>>

Once(S, p) == IF p \in S THEN 1 ELSE 0

\* How often GroupManager_Destroy frees p: the keys are left to Group_Destroy.
GroupManager_Destroy(p) == Once({"m_name", "Group"} \X DOMAIN groups, p)

User_Destroy(p) == Once({"m_username", "User"} \X DOMAIN usersByName, p)

\* How often UserManager_Destroy frees p: the keys of the first map, its users, and
\* the keys of the second map.
UserManager_Destroy(p) ==
  Once({"m_username"} \X DOMAIN usersByName, p) + User_Destroy(p)
    + Once({"m_fdConnection"} \X {usersByFd[fd] : fd \in DOMAIN usersByFd}, p)

ServerManager_Destroy ==
  /\ main = "stopped"
  /\ main' = "exited"
  /\ owned' = Blocks
  /\ freed' = [p \in Pointers |-> GroupManager_Destroy(p) + UserManager_Destroy(p)]
  /\ UNCHANGED vars

ProgramNext == ServerManager_Start \/ Serve \/ ServerManager_Stop \/ ServerManager_Destroy

ProgramSpec == ProgramInit /\ [][ProgramNext]_programVars

-----------------------------------------------------------------------------
(* Properties.                                                             *)

\* "Stops the server if running, then releases all owned resources",
\* ServerManager.h:51: every user and every group that is left is freed, name and
\* all, and nothing else is and nothing twice, although the maps' keys are fields of
\* their values ("User class takes ownership of the username ptr", UserManager.c:173).
ReleasedOnce == \A p \in Pointers : freed[p] = Once(owned, p)

=============================================================================
