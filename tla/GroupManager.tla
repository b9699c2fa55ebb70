---------------------------- MODULE GroupManager ----------------------------
(***************************************************************************)
(* ServerMng/GroupManager.c and Group.c: the chat rooms, each with its     *)
(* multicast endpoint and the number of users in it.                       *)
(*                                                                         *)
(* A handler of ServerManager calls several of these operations in a row,  *)
(* so each is an operator from a value of m_groups to the next one, with   *)
(* its GroupManagerResult beside it where a caller looks at it. All groups *)
(* share one multicast address, so a group's endpoint is its port.         *)
(***************************************************************************)
EXTENDS HashMap, ChatTypes, Integers

CONSTANTS
  LongNames,     \* the names longer than CONF_GROUP_MANAGER_MAX_NAME_LENGTH
  PortBase,      \* CONF_MULTICAST_PORT_BASE
  MaxGroups      \* CONF_MULTICAST_MAX_GROUPS

ASSUME GroupManagerAssumption ==
  /\ LongNames \subseteq GroupNames
  /\ PortBase \in Nat
  /\ MaxGroups \in Nat

VARIABLE groups  \* m_groups: name -> Group

Ports == PortBase .. (PortBase + MaxGroups - 1)

Group == [port: Ports, refCount: Nat]

Group_Create(port) == [port |-> port, refCount |-> 0]

GroupManager_Create == groups = HashMap_Create

\* AllocateGroupEndpoint: the index of a new port is the number of live groups.
AllocateGroupEndpoint(gs) == PortBase + HashMap_Size(gs)

\* Faulty: one group too many.
AddGroupResultOffByOne(gs, g) ==
  IF g \in LongNames THEN "NAME_TOO_LONG"
  ELSE IF g \in DOMAIN gs THEN "NAME_TAKEN"
  ELSE IF HashMap_Size(gs) > MaxGroups THEN "INTERNAL_ERROR" ELSE "SUCCESS"

AddGroupResult(gs, g) ==
  IF g \in LongNames THEN "NAME_TOO_LONG"
  ELSE IF g \in DOMAIN gs THEN "NAME_TAKEN"
  ELSE IF HashMap_Size(gs) >= MaxGroups THEN "INTERNAL_ERROR" ELSE "SUCCESS"

AddGroup(gs, g) == HashMap_Insert(gs, g, Group_Create(AllocateGroupEndpoint(gs)))

RemoveGroupIfEmpty(gs, g) ==
  IF g \in DOMAIN gs /\ gs[g].refCount = 0 THEN HashMap_Remove(gs, g) ELSE gs

IncreaseGroupRefCount(gs, g) ==
  IF g \in DOMAIN gs THEN [gs EXCEPT ![g].refCount = @ + 1] ELSE gs

DecreaseGroupRefCount(gs, g) ==
  IF g \in DOMAIN gs /\ gs[g].refCount > 0 THEN [gs EXCEPT ![g].refCount = @ - 1] ELSE gs

-----------------------------------------------------------------------------

\* Every group has a port of the configured range (AllocateGroupEndpoint) and a
\* count of at least zero (Group_DecRef).
GroupManagerTypeOK ==
  /\ DOMAIN groups \subseteq GroupNames
  /\ groups \in [DOMAIN groups -> Group]

\* No two live groups share a multicast port, as docs/multicast-chat.md:61 has
\* it of AllocateGroupEndpoint: "so each group gets a distinct port".
DistinctPorts ==
  \A g, h \in DOMAIN groups : groups[g].port = groups[h].port => g = h

=============================================================================
