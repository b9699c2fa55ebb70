-------------------------- MODULE GroupWindowsProofs -------------------------
(***************************************************************************)
(* For any number of clients, groups, PIDs and faults, and any depth of    *)
(* the queue: the state of the windows is well formed, and a PID is filed  *)
(* in one place, under its role.                                           *)
(***************************************************************************)
EXTENDS GroupWindows, SequenceTheorems, TLAPS

\* The provers of a leaf that names none, in the order they are tried.
USE SMT, ZenonT(30), SMTT(30), ZenonT(60)

-----------------------------------------------------------------------------
(* Types.                                                                  *)

Msg == [role: ChatRole, pid: Pids]

Maps == UNION {[G -> GroupPids] : G \in SUBSET Groups}

\* A client in the middle of GroupWindows_Open has a group to open.
ProcType ==
  /\ proc \in [Clients -> [at: {"off", "idle", "spawnReceiver", "spawnSender", "collectFirst",
                                "collectSecond"},
                           group: Groups \cup {NoGroup}, pids: GroupPids]]
  /\ \A c \in Clients : proc[c].at \notin {"off", "idle"} => proc[c].group \in Groups

MapType ==
  /\ tracked \in [Clients -> Maps]
  /\ hasMap \in [Clients -> BOOLEAN]
  /\ \A c \in Clients : DOMAIN tracked[c] # {} => hasMap[c]

QueueType ==
  /\ queue \in [Clients -> Seq(Msg)]
  /\ \A c \in Clients : Len(queue[c]) <= QueueDepth
  /\ name \in Clients \cup {NoClient}

Windows ==
  [at: {"none", "starting", "running"}, role: ChatRole, group: Groups \cup {NoGroup},
   owner: Clients \cup {NoClient}]

WindowType == window \in [Pids -> Windows] /\ faults \in 0 .. MaxFaults

Types == ProcType /\ MapType /\ QueueType /\ WindowType

\* A client that does not run holds an empty pair.
LEMMA Constants ==
  /\ NoPids \in GroupPids
  /\ NoWindow \in Windows
  /\ HashMap_Create \in Maps /\ DOMAIN HashMap_Create = {}
  /\ \A r \in ChatRole : NoPids[r] \notin Pids
<1> USE GroupWindowsAssumption
<1>1. NoPids \in GroupPids /\ \A r \in ChatRole : NoPids[r] \notin Pids
  BY DEF NoPids, GroupPids
<1>2. NoWindow \in Windows
  BY DEF NoWindow, Windows, ChatRole
<1>3. HashMap_Create \in [{} -> GroupPids]
  BY DEF HashMap_Create
<1>4. HashMap_Create \in Maps /\ DOMAIN HashMap_Create = {}
  BY <1>3, ZenonT(30), ZenonT(60) DEF Maps
<1> QED BY <1>1, <1>2, <1>4

\* A map of the client, read as a function.
LEMMA MapsAreFunctions ==
  ASSUME NEW m \in Maps
  PROVE  DOMAIN m \subseteq Groups /\ m \in [DOMAIN m -> GroupPids]
BY DEF Maps

\* Insertion and removal keep the type of a map.
LEMMA MapOperations ==
  ASSUME NEW m \in Maps, NEW g \in Groups, NEW pair \in GroupPids
  PROVE  /\ HashMap_Insert(m, g, pair) \in Maps
         /\ HashMap_Remove(m, g) \in Maps
         /\ DOMAIN HashMap_Remove(m, g) \subseteq DOMAIN m
<1>1. DOMAIN m \subseteq Groups /\ m \in [DOMAIN m -> GroupPids]
  BY MapsAreFunctions
<1>2. HashMap_Insert(m, g, pair) \in [DOMAIN m \cup {g} -> GroupPids]
  BY <1>1 DEF HashMap_Insert
<1>3. HashMap_Remove(m, g) \in [DOMAIN m \ {g} -> GroupPids]
  BY <1>1 DEF HashMap_Remove
<1>4. DOMAIN m \cup {g} \in SUBSET Groups /\ DOMAIN m \ {g} \in SUBSET Groups
  BY <1>1
<1> QED BY <1>2, <1>3, <1>4 DEF Maps

\* KillPids leaves a window alone or ends it.
LEMMA KillEffect ==
  ASSUME WindowType, NEW pairs
  PROVE  /\ KillPids(window, pairs) \in [Pids -> Windows]
         /\ \A p \in Pids : KillPids(window, pairs)[p] \in {window[p], NoWindow}
BY Constants DEF WindowType, KillPids

\* What a fault does to its count.
LEMMA FaultCount ==
  ASSUME faults \in 0 .. MaxFaults, Fault \/ UNCHANGED faults
  PROVE  faults' \in 0 .. MaxFaults
BY GroupWindowsAssumption DEF Fault

\* Nothing has happened at first.
LEMMA InitTypes == Init => Types
<1> SUFFICES ASSUME Init PROVE Types
  OBVIOUS
<1> USE GroupWindowsAssumption, Constants DEF Init
<1>1. ProcType
  BY DEF ProcType, Off
<1>2. MapType
  BY DEF MapType
<1>3. QueueType
  BY DEF QueueType
<1>4. WindowType
  BY DEF WindowType
<1> QED BY <1>1, <1>2, <1>3, <1>4 DEF Types

-----------------------------------------------------------------------------
(* Every step keeps the types.                                             *)

\* The pair that CollectPid has after it filed the PID it read.
LEMMA FilePidType ==
  ASSUME Types, NEW c \in Clients, queue[c] # << >>
  PROVE  Head(queue[c]) \in Msg /\ FilePid(c, Head(queue[c])) \in GroupPids
<1>1. Head(queue[c]) \in Msg
  BY DEF Types, QueueType
<1>2. proc[c].pids \in GroupPids
  BY DEF Types, ProcType
<1> HIDE DEF Msg
<1>3. ASSUME NEW m \in Msg PROVE FilePid(c, m) \in GroupPids
  BY <1>2 DEF FilePid, GroupPids, Msg
<1> QED BY <1>1, <1>3

\* What a step writes into proc.
LEMMA ProcStep ==
  ASSUME Types, Next
  PROVE  ProcType'
<1> USE DEF ProcType
<1>0. ProcType /\ Off.pids \in GroupPids /\ Off.group \in Groups \cup {NoGroup}
  BY Constants DEF Types, Off
<1>1. ASSUME NEW c \in Clients, GroupWindows_Create(c) PROVE ProcType'
  BY <1>0, <1>1 DEF GroupWindows_Create
<1>2. ASSUME NEW c \in Clients, NEW g \in Groups, GroupWindows_Open(c, g) PROVE ProcType'
  BY <1>0, <1>2, Constants DEF GroupWindows_Open
<1>3. ASSUME NEW c \in Clients, SpawnReceiver(c) PROVE ProcType'
  BY <1>0, <1>3 DEF SpawnReceiver, Off
<1>4. ASSUME NEW c \in Clients, SpawnSender(c) PROVE ProcType'
  BY <1>0, <1>4 DEF SpawnSender, Off
<1>5. ASSUME NEW c \in Clients, CollectPid(c) PROVE ProcType'
  <2>1. FilePid(c, Head(queue[c])) \in GroupPids
    BY <1>5, FilePidType DEF CollectPid
  <2> DEFINE pids == FilePid(c, Head(queue[c]))
  <2>2. \/ /\ proc[c].at = "collectFirst"
           /\ proc' = [proc EXCEPT ![c].at = "collectSecond", ![c].pids = pids]
        \/ proc' = [proc EXCEPT ![c] = [Off EXCEPT !.at = "idle"]]
    BY <1>5 DEF CollectPid
  <2> HIDE DEF pids
  <2> QED BY <1>0, <2>1, <2>2 DEF pids, Off
<1>6. ASSUME NEW c \in Clients, CollectTimeout(c) PROVE ProcType'
  BY <1>0, <1>6 DEF CollectTimeout, Off
<1>7. ASSUME NEW c \in Clients, GroupWindows_Destroy(c) PROVE ProcType'
  BY <1>0, <1>7 DEF GroupWindows_Destroy, Off
<1>8. ASSUME NEW c \in Clients, Crash(c) PROVE ProcType'
  BY <1>0, <1>8 DEF Crash, Off
<1>9. ASSUME UNCHANGED proc PROVE ProcType'
  BY <1>0, <1>9
<1>10. ASSUME NEW c \in Clients, NEW g \in Groups, GroupWindows_Close(c, g) PROVE UNCHANGED proc
  BY <1>10 DEF GroupWindows_Close
<1>11. ASSUME NEW c \in Clients, GroupWindows_CloseAll(c) PROVE UNCHANGED proc
  BY <1>11 DEF GroupWindows_CloseAll
<1>12. ASSUME NEW p \in Pids, ChatIpc_ReportPid(p) \/ WindowEnds(p) PROVE UNCHANGED proc
  BY <1>12 DEF ChatIpc_ReportPid, WindowEnds
<1> QED
  BY <1>1, <1>2, <1>3, <1>4, <1>5, <1>6, <1>7, <1>8, <1>9, <1>10, <1>11, <1>12 DEF Next, OpenStep

\* What a step writes into the maps.
LEMMA MapStep ==
  ASSUME Types, Next
  PROVE  MapType'
<1> USE DEF MapType
<1>0. MapType
  BY DEF Types
<1>1. ASSUME NEW c \in Clients, GroupWindows_Create(c) PROVE MapType'
  BY <1>0, <1>1 DEF GroupWindows_Create
<1>2. ASSUME NEW c \in Clients, NEW g \in Groups,
             tracked' = [tracked EXCEPT ![c] = HashMap_Remove(@, g)], UNCHANGED hasMap
      PROVE  MapType'
  <2>1. /\ HashMap_Remove(tracked[c], g) \in Maps
        /\ DOMAIN HashMap_Remove(tracked[c], g) \subseteq DOMAIN tracked[c]
    BY <1>0, Constants, MapOperations
  <2> QED BY <1>0, <1>2, <2>1
<1>3. ASSUME NEW c \in Clients, NEW b \in BOOLEAN, tracked' = [tracked EXCEPT ![c] = HashMap_Create],
             hasMap' = [hasMap EXCEPT ![c] = b]
      PROVE  MapType'
  BY <1>0, <1>3, Constants
<1>4. ASSUME UNCHANGED <<tracked, hasMap>> PROVE MapType'
  BY <1>0, <1>4
<1>5. ASSUME NEW c \in Clients, CollectPid(c) PROVE MapType'
  <2>1. FilePid(c, Head(queue[c])) \in GroupPids
    BY <1>5, FilePidType DEF CollectPid
  <2> DEFINE pids == FilePid(c, Head(queue[c]))
  <2>2. CASE UNCHANGED <<tracked, hasMap>>
    BY <1>4, <2>2
  <2>3. CASE /\ hasMap[c] /\ UNCHANGED hasMap
             /\ tracked' = [tracked EXCEPT ![c] = HashMap_Insert(@, proc[c].group, pids)]
             /\ proc[c].group \in Groups
    <3> HIDE DEF pids
    <3>1. HashMap_Insert(tracked[c], proc[c].group, pids) \in Maps
      BY <1>0, <2>1, <2>3, MapOperations DEF pids
    <3> QED BY <1>0, <2>3, <3>1
  <2> QED BY <1>5, <2>2, <2>3 DEF CollectPid, Types, ProcType
<1>6. ASSUME NEW c \in Clients, NEW g \in Groups, GroupWindows_Open(c, g) \/ GroupWindows_Close(c, g)
      PROVE  MapType'
  BY <1>2, <1>6 DEF GroupWindows_Open, GroupWindows_Close
<1>7. ASSUME NEW c \in Clients, GroupWindows_CloseAll(c) \/ GroupWindows_Destroy(c) \/ Crash(c)
      PROVE  MapType'
  BY <1>3, <1>7, ZenonT(30), ZenonT(60) DEF GroupWindows_CloseAll, GroupWindows_Destroy, Crash
<1>8. ASSUME NEW c \in Clients, SpawnReceiver(c) \/ SpawnSender(c) \/ CollectTimeout(c)
      PROVE  MapType'
  BY <1>4, <1>8 DEF SpawnReceiver, SpawnSender, CollectTimeout
<1>9. ASSUME NEW p \in Pids, ChatIpc_ReportPid(p) \/ WindowEnds(p) PROVE MapType'
  BY <1>4, <1>9 DEF ChatIpc_ReportPid, WindowEnds
<1> QED BY <1>1, <1>5, <1>6, <1>7, <1>8, <1>9 DEF Next, OpenStep

\* What a step writes into the queues.
LEMMA QueueStep ==
  ASSUME Types, Next
  PROVE  QueueType'
<1> USE DEF QueueType
<1>0. QueueType
  BY DEF Types
<1>1. ASSUME NEW c \in Clients, queue' = [queue EXCEPT ![c] = << >>], name' \in Clients \cup {NoClient}
      PROVE  QueueType'
  BY <1>0, <1>1, GroupWindowsAssumption
<1>2. ASSUME UNCHANGED <<queue, name>> PROVE QueueType'
  BY <1>0, <1>2
<1>3. ASSUME NEW c \in Clients, CollectPid(c) PROVE QueueType'
  <2>1. Tail(queue[c]) \in Seq(Msg) /\ Len(Tail(queue[c])) <= QueueDepth
    BY <1>0, <1>3, GroupWindowsAssumption DEF CollectPid
  <2> QED BY <1>0, <1>3, <2>1 DEF CollectPid
<1>4. ASSUME NEW p \in Pids, ChatIpc_ReportPid(p) PROVE QueueType'
  <2>1. window[p].role \in ChatRole
    BY DEF Types, WindowType, Windows
  <2> DEFINE m == [role |-> window[p].role, pid |-> p]
  <2>2. m \in Msg
    BY <2>1 DEF Msg
  <2>3. CASE name # NoClient /\ Len(queue[name]) < QueueDepth
             /\ queue' = [queue EXCEPT ![name] = Append(@, m)] /\ UNCHANGED name
    <3> HIDE DEF m
    <3>1. Append(queue[name], m) \in Seq(Msg) /\ Len(Append(queue[name], m)) <= QueueDepth
      BY <1>0, <2>2, <2>3, GroupWindowsAssumption
    <3> QED BY <1>0, <2>3, <3>1
  <2> QED BY <1>2, <1>4, <2>3 DEF ChatIpc_ReportPid
<1>5. ASSUME NEW c \in Clients, GroupWindows_Create(c) \/ GroupWindows_Destroy(c) PROVE QueueType'
  BY <1>1, <1>5 DEF GroupWindows_Create, GroupWindows_Destroy
<1>6. ASSUME NEW c \in Clients, NEW g \in Groups, GroupWindows_Open(c, g) \/ GroupWindows_Close(c, g)
      PROVE  QueueType'
  BY <1>2, <1>6 DEF GroupWindows_Open, GroupWindows_Close
<1>7. ASSUME NEW c \in Clients, \/ SpawnReceiver(c) \/ SpawnSender(c) \/ CollectTimeout(c)
                                \/ GroupWindows_CloseAll(c) \/ Crash(c)
      PROVE  QueueType'
  BY <1>2, <1>7 DEF SpawnReceiver, SpawnSender, CollectTimeout, GroupWindows_CloseAll, Crash
<1>8. ASSUME NEW p \in Pids, WindowEnds(p) PROVE QueueType'
  BY <1>2, <1>8 DEF WindowEnds
<1> QED BY <1>3, <1>4, <1>5, <1>6, <1>7, <1>8 DEF Next, OpenStep

\* A spawn makes a window of a PID that nobody knows.
LEMMA SpawnEffect ==
  ASSUME Types, NEW c \in Clients, NEW role \in ChatRole, SpawnWindow(c, role)
  PROVE  /\ window' \in [Pids -> Windows]
         /\ \E p \in FreshPids : \A q \in Pids : q # p => window'[q] = window[q]
<1>1. PICK p \in FreshPids :
        window' = [window EXCEPT ![p] = [at |-> "starting", role |-> role,
                                         group |-> proc[c].group, owner |-> c]]
  BY ZenonT(30), ZenonT(60) DEF SpawnWindow
<1>2. proc[c].group \in Groups \cup {NoGroup} /\ window \in [Pids -> Windows]
  BY DEF Types, ProcType, WindowType
<1>3. [at |-> "starting", role |-> role, group |-> proc[c].group, owner |-> c] \in Windows
  BY <1>2 DEF Windows
<1> QED BY <1>1, <1>2, <1>3, ZenonT(30), ZenonT(60)

\* What a step writes into the table of processes.
LEMMA WindowStep ==
  ASSUME Types, Next
  PROVE  WindowType'
<1>0. WindowType /\ window \in [Pids -> Windows] /\ faults \in 0 .. MaxFaults
  BY DEF Types, WindowType
<1>1. ASSUME UNCHANGED window \/ (\E pairs : window' = KillPids(window, pairs)),
             Fault \/ UNCHANGED faults
      PROVE  WindowType'
  BY <1>0, <1>1, KillEffect, FaultCount DEF WindowType
<1>2. ASSUME NEW c \in Clients, NEW role \in ChatRole, SpawnWindow(c, role), Fault \/ UNCHANGED faults
      PROVE  WindowType'
  BY <1>0, <1>2, SpawnEffect, FaultCount DEF WindowType
<1>3. ASSUME NEW p \in Pids, ChatIpc_ReportPid(p) PROVE WindowType'
  BY <1>0, <1>3 DEF ChatIpc_ReportPid, WindowType, Windows
<1>4. ASSUME NEW p \in Pids, WindowEnds(p) PROVE WindowType'
  BY <1>0, <1>4, Constants, FaultCount DEF WindowEnds, WindowType
<1>5. ASSUME NEW c \in Clients, GroupWindows_Create(c) \/ Crash(c) PROVE WindowType'
  BY <1>1, <1>5 DEF GroupWindows_Create, Crash
<1>6. ASSUME NEW c \in Clients, NEW g \in Groups, GroupWindows_Open(c, g) \/ GroupWindows_Close(c, g)
      PROVE  WindowType'
  BY <1>1, <1>6 DEF GroupWindows_Open, GroupWindows_Close
<1>7. ASSUME NEW c \in Clients, GroupWindows_CloseAll(c) \/ GroupWindows_Destroy(c) \/ CollectTimeout(c)
      PROVE  WindowType'
  BY <1>1, <1>7 DEF GroupWindows_CloseAll, GroupWindows_Destroy, CollectTimeout
<1>8. ASSUME NEW c \in Clients, CollectPid(c) PROVE WindowType'
  BY <1>1, <1>8 DEF CollectPid
<1>9. ASSUME NEW c \in Clients, SpawnReceiver(c) \/ SpawnSender(c) PROVE WindowType'
  BY <1>1, <1>2, <1>9 DEF SpawnReceiver, SpawnSender, SpawnFails, ChatRole
<1> QED BY <1>3, <1>4, <1>5, <1>6, <1>7, <1>8, <1>9 DEF Next, OpenStep

\* The types are inductive.
LEMMA TypesInvariance == Spec => []Types
<1>1. Types /\ [Next]_vars => Types'
  <2>1. ASSUME Types, Next PROVE Types'
    BY <2>1, ProcStep, MapStep, QueueStep, WindowStep DEF Types
  <2>2. ASSUME Types, UNCHANGED vars PROVE Types'
    BY <2>2 DEF vars, Types, ProcType, MapType, QueueType, WindowType
  <2> QED BY <2>1, <2>2
<1> QED BY <1>1, InitTypes, PTL DEF Spec

\* The clients, their maps, the queues and the table of processes stay well formed
\* whatever fails, and no queue holds more than its depth (struct GroupWindows,
\* GroupWindows.c:22-32).
THEOREM TypeCorrect == Spec => []TypeOK
<1> DEFINE P == proc \in [Clients -> [at: {"off", "idle", "spawnReceiver", "spawnSender", "collectFirst",
                                           "collectSecond"},
                                      group: Groups \cup {NoGroup}, pids: GroupPids]]
           M == \A c \in Clients :
                  /\ DOMAIN tracked[c] \subseteq Groups
                  /\ tracked[c] \in [DOMAIN tracked[c] -> GroupPids]
                  /\ DOMAIN tracked[c] # {} => hasMap[c]
           Q == \A c \in Clients : /\ queue[c] \in Seq([role: ChatRole, pid: Pids])
                                   /\ Len(queue[c]) <= QueueDepth
           W == window \in [Pids -> [at: {"none", "starting", "running"}, role: ChatRole,
                                     group: Groups \cup {NoGroup}, owner: Clients \cup {NoClient}]]
<1>1. Types => P
  BY DEF Types, ProcType
<1>2. Types => M
  BY MapsAreFunctions DEF Types, MapType
<1>3. Types => Q /\ name \in Clients \cup {NoClient}
  BY ZenonT(30), ZenonT(60) DEF Types, QueueType, Msg
<1>4. Types => W /\ faults \in 0 .. MaxFaults
  BY DEF Types, WindowType, Windows
<1>5. P /\ M /\ Q /\ W /\ name \in Clients \cup {NoClient} /\ faults \in 0 .. MaxFaults => TypeOK
  BY ZenonT(30), ZenonT(60) DEF TypeOK
<1> HIDE DEF P, M, Q, W
<1>6. Types => TypeOK
  BY <1>1, <1>2, <1>3, <1>4, <1>5
<1> QED BY <1>6, TypesInvariance, PTL

-----------------------------------------------------------------------------
(* Where PIDs are filed: in the pair of an Open under way, in the map of a *)
(* client, or in a queue. Under which role is part of each.                *)

InPair(c, r, p) == proc[c].pids[r] = p

InMap(c, g, r, p) == g \in DOMAIN tracked[c] /\ tracked[c][g][r] = p

InQueue(c, i, r, p) == i \in 1 .. Len(queue[c]) /\ queue[c][i] = [role |-> r, pid |-> p]

Free(p) ==
  \A c \in Clients, r \in ChatRole :
    /\ ~InPair(c, r, p)
    /\ \A g \in Groups : ~InMap(c, g, r, p)
    /\ \A i \in Nat : ~InQueue(c, i, r, p)

\* One place per PID, pair by pair of kinds of places.
ApartAt(c, d, r, q, p) ==
  /\ InPair(c, r, p) /\ InPair(d, q, p) => c = d /\ r = q
  /\ \A g \in Groups :
       /\ InMap(c, g, r, p) => ~InPair(d, q, p)
       /\ \A h \in Groups : InMap(c, g, r, p) /\ InMap(d, h, q, p) => c = d /\ g = h /\ r = q
  /\ \A i \in Nat :
       /\ InQueue(c, i, r, p) => ~InPair(d, q, p)
       /\ \A g \in Groups : InQueue(c, i, r, p) => ~InMap(d, g, q, p)
       /\ \A j \in Nat : InQueue(c, i, r, p) /\ InQueue(d, j, q, p) => c = d /\ i = j /\ r = q

Apart == \A c, d \in Clients, r, q \in ChatRole, p \in Pids : ApartAt(c, d, r, q, p)

\* A window may still have role r.
Fits(p, r) == window[p] = NoWindow \/ window[p].role = r

\* A window that has still to report is filed nowhere, and a place is for the role of
\* the window it names.
InRole ==
  /\ \A p \in Pids : window[p].at = "starting" => Free(p)
  /\ \A c \in Clients, r \in ChatRole, p \in Pids :
       /\ InPair(c, r, p) => Fits(p, r)
       /\ \A g \in Groups : InMap(c, g, r, p) => Fits(p, r)
       /\ \A i \in Nat : InQueue(c, i, r, p) => Fits(p, r)

\* The inductive invariant.
Filed == Apart /\ InRole

\* Nothing is filed at first.
LEMMA InitFiled == Init => Filed
<1> SUFFICES ASSUME Init PROVE Filed
  OBVIOUS
<1>1. \A p \in Pids : Free(p)
  BY Constants DEF Init, Off, Free, InPair, InMap, InQueue
<1>2. \A p \in Pids : window[p].at # "starting"
  BY DEF Init, NoWindow
<1> QED BY <1>1, <1>2 DEF Free, Filed, Apart, ApartAt, InRole

\* A step that files nothing: places are emptied or, in a queue, move up, and windows
\* stay, end, or begin under a PID that is filed nowhere.
LEMMA Shrink ==
  ASSUME Filed, NEW k \in [Clients -> Nat],
         \A c \in Clients, r \in ChatRole, p \in Pids : InPair(c, r, p)' => InPair(c, r, p),
         \A c \in Clients, g \in Groups, r \in ChatRole, p \in Pids :
            InMap(c, g, r, p)' => InMap(c, g, r, p),
         \A c \in Clients, i \in Nat, r \in ChatRole, p \in Pids :
            InQueue(c, i, r, p)' => InQueue(c, i + k[c], r, p),
         \A p \in Pids : window'[p] \in {window[p], NoWindow} \/ Free(p)
  PROVE  Filed'
<1>1. \A c \in Clients, i \in Nat : i + k[c] \in Nat
  OBVIOUS
<1>2. Apart'
  <2> SUFFICES ASSUME NEW c \in Clients, NEW d \in Clients, NEW r \in ChatRole, NEW q \in ChatRole,
                      NEW p \in Pids
               PROVE  ApartAt(c, d, r, q, p)'
    BY DEF Apart
  <2> QED BY <1>1 DEF Filed, Apart, ApartAt
<1>3. \A p \in Pids : Free(p) => Free(p)'
  BY <1>1 DEF Free
<1>4. InRole'
  <2>1. \A p \in Pids : window'[p].at = "starting" => Free(p)'
    <3>1. \A p \in Pids : window[p].at = "starting" => Free(p)
      BY DEF Filed, InRole
    <3>2. NoWindow.at # "starting"
      BY DEF NoWindow
    <3> QED BY <1>3, <3>1, <3>2
  <2>2. \A p \in Pids, r \in ChatRole : Fits(p, r) /\ ~Free(p) => Fits(p, r)'
    BY DEF Fits
  <2>3. ASSUME NEW c \in Clients, NEW r \in ChatRole, NEW p \in Pids
        PROVE  /\ InPair(c, r, p)' => Fits(p, r)'
               /\ \A g \in Groups : InMap(c, g, r, p)' => Fits(p, r)'
               /\ \A i \in Nat : InQueue(c, i, r, p)' => Fits(p, r)'
    BY <1>1, <2>2 DEF Filed, InRole, Free
  <2> QED BY <2>1, <2>3 DEF InRole
<1> QED BY <1>2, <1>4 DEF Filed

\* A PID that can be given to a new process is filed nowhere.
LEMMA FreshIsFree ==
  ASSUME Types, NEW p \in FreshPids
  PROVE  p \in Pids /\ Free(p)
<1>1. p \in Pids /\ \A c \in Clients : p \notin Known(c)
  BY DEF FreshPids
<1> SUFFICES ASSUME NEW c \in Clients, NEW r \in ChatRole
             PROVE  /\ ~InPair(c, r, p)
                    /\ \A g \in Groups : ~InMap(c, g, r, p)
                    /\ \A i \in Nat : ~InQueue(c, i, r, p)
  BY <1>1 DEF Free
<1>2. p \notin Known(c)
  BY <1>1
<1>3. ~InPair(c, r, p)
  BY <1>2 DEF InPair, Known, PidsOf
<1>4. ASSUME NEW g \in Groups, InMap(c, g, r, p) PROVE FALSE
  <2>1. g \in DOMAIN tracked[c] /\ p \in PidsOf(tracked[c][g])
    BY <1>4 DEF InMap, PidsOf
  <2>2. p \in UNION {PidsOf(tracked[c][h]) : h \in DOMAIN tracked[c]}
    BY <2>1
  <2> QED BY <1>2, <2>2 DEF Known
<1>5. ASSUME NEW i \in Nat, InQueue(c, i, r, p) PROVE FALSE
  <2>1. i \in DOMAIN queue[c]
    BY <1>5 DEF InQueue, Types, QueueType
  <2>2. queue[c][i].pid = p
    BY <1>5 DEF InQueue
  <2>3. p \in {queue[c][j].pid : j \in DOMAIN queue[c]}
    BY <2>1, <2>2
  <2> QED BY <1>2, <2>3 DEF Known
<1> QED BY <1>3, <1>4, <1>5

\* CollectPid's first PID moves from the head of the queue into the pair.
LEMMA Moved ==
  ASSUME Filed, NEW c \in Clients, NEW r0 \in ChatRole, NEW p0 \in Pids, InQueue(c, 1, r0, p0),
         NEW k \in [Clients -> Nat], k[c] = 1,
         \A d \in Clients, r \in ChatRole, p \in Pids :
            InPair(d, r, p)' => InPair(d, r, p) \/ (d = c /\ r = r0 /\ p = p0),
         \A d \in Clients, g \in Groups, r \in ChatRole, p \in Pids :
            InMap(d, g, r, p)' => InMap(d, g, r, p),
         \A d \in Clients, i \in Nat, r \in ChatRole, p \in Pids :
            InQueue(d, i, r, p)' => i # 0 /\ InQueue(d, i + k[d], r, p),
         UNCHANGED window
  PROVE  Filed'
<1>1. \A d \in Clients, i \in Nat : i + k[d] \in Nat /\ (i # 0 => i + k[c] # 1)
  OBVIOUS
<1>2. \A d \in Clients, q \in ChatRole :
        /\ ~InPair(d, q, p0)
        /\ \A g \in Groups : ~InMap(d, g, q, p0)
        /\ \A i \in Nat : InQueue(d, i, q, p0) => d = c /\ i = 1
  BY DEF Filed, Apart, ApartAt
<1>3. \A d \in Clients, q \in ChatRole :
        /\ InPair(d, q, p0)' => d = c /\ q = r0
        /\ \A g \in Groups : ~InMap(d, g, q, p0)'
        /\ \A i \in Nat : ~InQueue(d, i, q, p0)'
  BY <1>1, <1>2
<1>4. Apart'
  <2> SUFFICES ASSUME NEW d \in Clients, NEW e \in Clients, NEW r \in ChatRole, NEW q \in ChatRole,
                      NEW p \in Pids
               PROVE  ApartAt(d, e, r, q, p)'
    BY DEF Apart
  <2>1. CASE p = p0
    BY <1>3, <2>1 DEF ApartAt
  <2>2. CASE p # p0
    <3>1. ApartAt(d, e, r, q, p)
      BY DEF Filed, Apart
    <3>2. (InPair(d, r, p)' => InPair(d, r, p)) /\ (InPair(e, q, p)' => InPair(e, q, p))
      BY <2>2
    <3>3. \A i, j \in Nat : i + k[d] = j + k[d] => i = j
      OBVIOUS
    <3> QED BY <1>1, <3>1, <3>2, <3>3, ZenonT(30), ZenonT(60) DEF ApartAt
  <2> QED BY <2>1, <2>2
<1>5. Fits(p0, r0) /\ ~Free(p0)
  BY DEF Filed, InRole, Free
<1>6. InRole'
  <2>1. \A p \in Pids : Free(p) => Free(p)'
    BY <1>1, <1>5 DEF Free
  <2>2. \A p \in Pids : window'[p].at = "starting" => Free(p)'
    BY <2>1 DEF Filed, InRole
  <2>3. \A p \in Pids, r \in ChatRole : Fits(p, r)' <=> Fits(p, r)
    BY DEF Fits
  <2>4. ASSUME NEW d \in Clients, NEW r \in ChatRole, NEW p \in Pids
        PROVE  /\ InPair(d, r, p)' => Fits(p, r)'
               /\ \A g \in Groups : InMap(d, g, r, p)' => Fits(p, r)'
               /\ \A i \in Nat : InQueue(d, i, r, p)' => Fits(p, r)'
    <3>1. /\ InPair(d, r, p) => Fits(p, r)
          /\ \A g \in Groups : InMap(d, g, r, p) => Fits(p, r)
          /\ \A i \in Nat : InQueue(d, i, r, p) => Fits(p, r)
          /\ InPair(c, r, p) => Fits(p, r)
      BY DEF Filed, InRole
    <3>2. Fits(p, r)' <=> Fits(p, r)
      BY <2>3
    <3>3. InPair(d, r, p)' => Fits(p, r)'
      BY <1>5, <3>1, <3>2
    <3>4. \A g \in Groups : InMap(d, g, r, p)' => Fits(p, r)'
      BY <1>5, <3>1, <3>2
    <3>5. \A i \in Nat : InQueue(d, i, r, p)' => Fits(p, r)'
      BY <1>1, <3>1, <3>2
    <3> QED BY <3>3, <3>4, <3>5
  <2> QED BY <2>2, <2>4 DEF InRole
<1> QED BY <1>4, <1>6 DEF Filed

\* CollectPid's second PID, with the pair, moves into the map of the client.
LEMMA Tracked ==
  ASSUME Filed, NEW c \in Clients, NEW g0 \in Groups, NEW r0 \in ChatRole, NEW p0 \in Pids,
         InQueue(c, 1, r0, p0), NEW k \in [Clients -> Nat], k[c] = 1,
         \A d \in Clients, r \in ChatRole, p \in Pids :
            InPair(d, r, p)' => d # c /\ InPair(d, r, p),
         \A d \in Clients, g \in Groups, r \in ChatRole, p \in Pids :
            InMap(d, g, r, p)' => \/ InMap(d, g, r, p)
                                  \/ /\ d = c /\ g = g0
                                     /\ InPair(c, r, p) \/ (r = r0 /\ p = p0),
         \A d \in Clients, i \in Nat, r \in ChatRole, p \in Pids :
            InQueue(d, i, r, p)' => i # 0 /\ InQueue(d, i + k[d], r, p),
         UNCHANGED window
  PROVE  Filed'
<1>1. \A d \in Clients, i \in Nat : i + k[d] \in Nat /\ (i # 0 => i + k[c] # 1)
  OBVIOUS
<1>2. \A d \in Clients, q \in ChatRole :
        /\ ~InPair(d, q, p0)
        /\ \A g \in Groups : ~InMap(d, g, q, p0)
        /\ \A i \in Nat : InQueue(d, i, q, p0) => d = c /\ i = 1
  BY DEF Filed, Apart, ApartAt
<1>3. \A d \in Clients, q \in ChatRole :
        /\ ~InPair(d, q, p0)'
        /\ \A g \in Groups : InMap(d, g, q, p0)' => d = c /\ g = g0 /\ q = r0
        /\ \A i \in Nat : ~InQueue(d, i, q, p0)'
  BY <1>1, <1>2
<1>4. Apart'
  <2> SUFFICES ASSUME NEW d \in Clients, NEW e \in Clients, NEW r \in ChatRole, NEW q \in ChatRole,
                      NEW p \in Pids
               PROVE  ApartAt(d, e, r, q, p)'
    BY DEF Apart
  <2>1. CASE p = p0
    BY <1>3, <2>1 DEF ApartAt
  <2>2. CASE p # p0
    <3>1. ApartAt(d, e, r, q, p) /\ ApartAt(e, d, q, r, p)
      BY DEF Filed, Apart
    <3>2. \A g \in Groups :
            /\ InMap(d, g, r, p)' => InMap(d, g, r, p) \/ (d = c /\ g = g0 /\ InPair(d, r, p))
            /\ InMap(e, g, q, p)' => InMap(e, g, q, p) \/ (e = c /\ g = g0 /\ InPair(e, q, p))
      BY <2>2
    <3>3. \A i, j \in Nat : i + k[d] = j + k[d] => i = j
      OBVIOUS
    <3>4. InPair(d, r, p)' /\ InPair(e, q, p)' => d = e /\ r = q
      BY <3>1 DEF ApartAt
    <3>5. \A g \in Groups : InMap(d, g, r, p)' => ~InPair(e, q, p)'
      BY <3>1, <3>2 DEF ApartAt
    <3>6. \A g, h \in Groups : InMap(d, g, r, p)' /\ InMap(e, h, q, p)' => d = e /\ g = h /\ r = q
      BY <3>1, <3>2 DEF ApartAt
    <3>7. \A i \in Nat : InQueue(d, i, r, p)' => ~InPair(e, q, p)'
      BY <1>1, <3>1 DEF ApartAt
    <3>8. \A i \in Nat, g \in Groups : InQueue(d, i, r, p)' => ~InMap(e, g, q, p)'
      BY <1>1, <3>1, <3>2 DEF ApartAt
    <3>9. \A i, j \in Nat : InQueue(d, i, r, p)' /\ InQueue(e, j, q, p)' => d = e /\ i = j /\ r = q
      BY <1>1, <3>1, <3>3 DEF ApartAt
    <3> QED BY <3>4, <3>5, <3>6, <3>7, <3>8, <3>9 DEF ApartAt
  <2> QED BY <2>1, <2>2
<1>5. Fits(p0, r0) /\ ~Free(p0)
  BY DEF Filed, InRole, Free
<1>6. InRole'
  <2>1. \A p \in Pids : Free(p) => Free(p)'
    BY <1>1, <1>5 DEF Free
  <2>2. \A p \in Pids : window'[p].at = "starting" => Free(p)'
    BY <2>1 DEF Filed, InRole
  <2>3. \A p \in Pids, r \in ChatRole : Fits(p, r)' <=> Fits(p, r)
    BY DEF Fits
  <2>4. ASSUME NEW d \in Clients, NEW r \in ChatRole, NEW p \in Pids
        PROVE  /\ InPair(d, r, p)' => Fits(p, r)'
               /\ \A g \in Groups : InMap(d, g, r, p)' => Fits(p, r)'
               /\ \A i \in Nat : InQueue(d, i, r, p)' => Fits(p, r)'
    <3>1. /\ InPair(d, r, p) => Fits(p, r)
          /\ \A g \in Groups : InMap(d, g, r, p) => Fits(p, r)
          /\ \A i \in Nat : InQueue(d, i, r, p) => Fits(p, r)
          /\ InPair(c, r, p) => Fits(p, r)
      BY DEF Filed, InRole
    <3>2. Fits(p, r)' <=> Fits(p, r)
      BY <2>3
    <3>3. InPair(d, r, p)' => Fits(p, r)'
      BY <1>5, <3>1, <3>2
    <3>4. \A g \in Groups : InMap(d, g, r, p)' => Fits(p, r)'
      BY <1>5, <3>1, <3>2
    <3>5. \A i \in Nat : InQueue(d, i, r, p)' => Fits(p, r)'
      BY <1>1, <3>1, <3>2
    <3> QED BY <3>3, <3>4, <3>5
  <2> QED BY <2>2, <2>4 DEF InRole
<1> QED BY <1>4, <1>6 DEF Filed

\* A step by which the window p0 leaves "starting" and its PID becomes message n of the queue
\* of client c.
Reports(c, n, p0) ==
  /\ window[p0].at = "starting"
  /\ \A d \in Clients, r \in ChatRole, p \in Pids : InPair(d, r, p)' => InPair(d, r, p)
  /\ \A d \in Clients, g \in Groups, r \in ChatRole, p \in Pids :
       InMap(d, g, r, p)' => InMap(d, g, r, p)
  /\ \A d \in Clients, i \in Nat, r \in ChatRole, p \in Pids :
       InQueue(d, i, r, p)' => \/ InQueue(d, i, r, p)
                               \/ d = c /\ i = n /\ r = window[p0].role /\ p = p0
  /\ \A p \in Pids : p # p0 => window'[p] = window[p]
  /\ window'[p0].at # "starting" /\ window'[p0].role = window[p0].role

\* ChatIpc_ReportPid: a PID that was filed nowhere enters a queue.
LEMMA Reported ==
  ASSUME Filed, NEW c \in Clients, NEW n \in Nat, NEW p0 \in Pids, Reports(c, n, p0)
  PROVE  Filed'
<1> USE DEF Reports
<1>1. Free(p0)
  BY DEF Filed, InRole
<1>2. Apart'
  <2> SUFFICES ASSUME NEW d \in Clients, NEW e \in Clients, NEW r \in ChatRole, NEW q \in ChatRole,
                      NEW p \in Pids
               PROVE  ApartAt(d, e, r, q, p)'
    BY DEF Apart
  <2>1. ApartAt(d, e, r, q, p)
    BY DEF Filed, Apart
  <2>2. CASE p = p0
    <3>1. /\ \A x \in Clients, y \in ChatRole : ~InPair(x, y, p0)' /\ \A g \in Groups : ~InMap(x, g, y, p0)'
          /\ \A x \in Clients, y \in ChatRole, i \in Nat :
               InQueue(x, i, y, p0)' => x = c /\ i = n /\ y = window[p0].role
      BY <1>1 DEF Free
    <3> QED BY <2>2, <3>1 DEF ApartAt
  <2>3. CASE p # p0
    BY <2>1, <2>3 DEF ApartAt
  <2> QED BY <2>2, <2>3
<1>3. InRole'
  <2>1. \A p \in Pids : Free(p) /\ p # p0 => Free(p)'
    BY DEF Free
  <2>2. \A p \in Pids : window'[p].at = "starting" => Free(p)'
    BY <2>1 DEF Filed, InRole
  <2>3. \A p \in Pids, r \in ChatRole : Fits(p, r) /\ p # p0 => Fits(p, r)'
    BY DEF Fits
  <2>4. ASSUME NEW d \in Clients, NEW r \in ChatRole, NEW p \in Pids
        PROVE  /\ InPair(d, r, p)' => Fits(p, r)'
               /\ \A g \in Groups : InMap(d, g, r, p)' => Fits(p, r)'
               /\ \A i \in Nat : InQueue(d, i, r, p)' => Fits(p, r)'
    <3>1. CASE p # p0
      <4>1. /\ InPair(d, r, p) => Fits(p, r)
            /\ \A g \in Groups : InMap(d, g, r, p) => Fits(p, r)
            /\ \A i \in Nat : InQueue(d, i, r, p) => Fits(p, r)
        BY DEF Filed, InRole
      <4>2. Fits(p, r) => Fits(p, r)'
        BY <2>3, <3>1
      <4> QED BY <3>1, <4>1, <4>2
    <3>2. CASE p = p0
      BY <1>1, <3>2 DEF Free, Fits
    <3> QED BY <3>1, <3>2
  <2> QED BY <2>2, <2>4 DEF InRole
<1> QED BY <1>2, <1>3 DEF Filed

-----------------------------------------------------------------------------
(* Every step keeps them.                                                  *)

\* Steps that keep or clear pairs, maps and queues.
LEMMA Kept ==
  ASSUME Types, Filed,
         \A c \in Clients : proc'[c].pids \in {proc[c].pids, NoPids},
         \A c \in Clients : \/ tracked'[c] \in {tracked[c], HashMap_Create}
                            \/ \E g \in Groups : tracked'[c] = HashMap_Remove(tracked[c], g),
         \A c \in Clients : queue'[c] \in {queue[c], << >>},
         \A p \in Pids : window'[p] \in {window[p], NoWindow} \/ Free(p)
  PROVE  Filed'
<1>1. \A c \in Clients, r \in ChatRole, p \in Pids : InPair(c, r, p)' => InPair(c, r, p)
  BY Constants DEF InPair
<1>2. \A c \in Clients, g \in Groups, r \in ChatRole, p \in Pids :
        InMap(c, g, r, p)' => InMap(c, g, r, p)
  BY Constants, ZenonT(30), ZenonT(60) DEF InMap, HashMap_Remove
<1> DEFINE k == [c \in Clients |-> 0]
<1>3. k \in [Clients -> Nat]
  OBVIOUS
<1>4. \A c \in Clients, i \in Nat, r \in ChatRole, p \in Pids :
        InQueue(c, i, r, p)' => InQueue(c, i + k[c], r, p)
  BY DEF InQueue
<1> HIDE DEF k
<1> QED BY <1>1, <1>2, <1>3, <1>4, Shrink

\* The message that CollectPid reads is the first of the queue, and the others move up.
LEMMA Dequeued ==
  ASSUME Types, NEW c \in Clients, queue[c] # << >>, queue' = [queue EXCEPT ![c] = Tail(@)]
  PROVE  /\ InQueue(c, 1, Head(queue[c]).role, Head(queue[c]).pid)
         /\ \E k \in [Clients -> Nat] :
              /\ k[c] = 1
              /\ \A d \in Clients, i \in Nat, r \in ChatRole, p \in Pids :
                   InQueue(d, i, r, p)' => i # 0 /\ InQueue(d, i + k[d], r, p)
<1>1. queue \in [Clients -> Seq(Msg)]
  BY DEF Types, QueueType
<1>2. InQueue(c, 1, Head(queue[c]).role, Head(queue[c]).pid)
  <2>1. Len(queue[c]) \in Nat /\ Len(queue[c]) >= 1 /\ queue[c][1] \in Msg /\ Head(queue[c]) = queue[c][1]
    BY <1>1
  <2> QED BY <2>1 DEF InQueue, Msg
<1> DEFINE k == [d \in Clients |-> IF d = c THEN 1 ELSE 0]
<1>3. k \in [Clients -> Nat] /\ k[c] = 1
  OBVIOUS
<1>4. ASSUME NEW d \in Clients, NEW i \in Nat, NEW r \in ChatRole, NEW p \in Pids, InQueue(d, i, r, p)'
      PROVE  i # 0 /\ InQueue(d, i + k[d], r, p)
  <2>1. CASE d = c
    <3>1. queue'[c] = Tail(queue[c]) /\ i \in 1 .. Len(queue'[c]) /\ queue'[c][i] = [role |-> r, pid |-> p]
      BY <1>1, <1>4, <2>1 DEF InQueue
    <3>2. Len(Tail(queue[c])) = Len(queue[c]) - 1 /\ Len(queue[c]) \in Nat
      BY <1>1
    <3>3. Tail(queue[c])[i] = queue[c][i + 1]
      BY <1>1, <3>1, <3>2
    <3>4. i # 0 /\ i + 1 \in 1 .. Len(queue[c])
      <4> DEFINE n == Len(queue[c])
      <4>1. i \in 1 .. Len(Tail(queue[c]))
        BY <3>1, ZenonT(30), ZenonT(60)
      <4>2. i \in 1 .. (n - 1) /\ n \in Nat
        BY <3>2, <4>1
      <4> HIDE DEF n
      <4>3. i # 0 /\ i + 1 \in 1 .. n
        BY <4>2
      <4> QED BY <4>3 DEF n
    <3>5. k[d] = 1
      BY <2>1
    <3> HIDE DEF k
    <3> QED BY <2>1, <3>1, <3>3, <3>4, <3>5, ZenonT(30), ZenonT(60) DEF InQueue
  <2>2. CASE d # c
    BY <1>1, <1>4, <2>2 DEF InQueue
  <2> QED BY <2>1, <2>2
<1> HIDE DEF k
<1> QED BY <1>2, <1>3, <1>4

\* CollectPid.
LEMMA CollectFiled ==
  ASSUME Types, Filed, NEW c \in Clients, CollectPid(c)
  PROVE  Filed'
<1> DEFINE m == Head(queue[c])
           pids == FilePid(c, m)
<1>1. queue[c] # << >> /\ queue' = [queue EXCEPT ![c] = Tail(@)]
  BY DEF CollectPid
<1>2. m \in Msg /\ m.role \in ChatRole /\ m.pid \in Pids
  BY <1>1, FilePidType DEF Msg
<1>3. InQueue(c, 1, m.role, m.pid)
  BY <1>1, Dequeued, ZenonT(30), ZenonT(60)
<1>4. PICK k \in [Clients -> Nat] :
        /\ k[c] = 1
        /\ \A d \in Clients, i \in Nat, r \in ChatRole, p \in Pids :
             InQueue(d, i, r, p)' => i # 0 /\ InQueue(d, i + k[d], r, p)
  BY <1>1, Dequeued, ZenonT(30), ZenonT(60)
<1>5. /\ proc \in [Clients -> [at: {"off", "idle", "spawnReceiver", "spawnSender", "collectFirst",
                                    "collectSecond"},
                               group: Groups \cup {NoGroup}, pids: GroupPids]]
      /\ tracked \in [Clients -> Maps]
  BY DEF Types, ProcType, MapType
<1>6. \A r \in ChatRole : pids[r] = IF r = m.role THEN m.pid ELSE proc[c].pids[r]
  BY <1>2, <1>5 DEF FilePid, GroupPids
<1> HIDE DEF m, pids
<1>7. CASE /\ proc' = [proc EXCEPT ![c].at = "collectSecond", ![c].pids = pids]
           /\ UNCHANGED <<tracked, window>>
  <2>1. \A d \in Clients : proc'[d].pids = IF d = c THEN pids ELSE proc[d].pids
    BY <1>5, <1>7
  <2>2. \A d \in Clients, r \in ChatRole, p \in Pids :
          InPair(d, r, p)' => InPair(d, r, p) \/ (d = c /\ r = m.role /\ p = m.pid)
    BY <1>6, <2>1 DEF InPair
  <2>3. \A d \in Clients, g \in Groups, r \in ChatRole, p \in Pids : InMap(d, g, r, p)' => InMap(d, g, r, p)
    BY <1>7 DEF InMap
  <2> QED BY <1>2, <1>3, <1>4, <1>7, <2>2, <2>3, Moved
<1>8. CASE /\ proc[c].at = "collectSecond" /\ proc[c].group \in Groups
           /\ proc' = [proc EXCEPT ![c] = [Off EXCEPT !.at = "idle"]]
  <2>1. \A d \in Clients : proc'[d].pids = IF d = c THEN NoPids ELSE proc[d].pids
    BY <1>5, <1>8 DEF Off
  <2>2. \A d \in Clients, r \in ChatRole, p \in Pids : InPair(d, r, p)' => d # c /\ InPair(d, r, p)
    BY <2>1, Constants DEF InPair
  <2>3. CASE /\ tracked' = [tracked EXCEPT ![c] = HashMap_Insert(@, proc[c].group, pids)]
             /\ UNCHANGED window
    <3>1. \A d \in Clients : tracked'[d] = IF d = c THEN HashMap_Insert(tracked[c], proc[c].group, pids)
                                                    ELSE tracked[d]
      BY <1>5, <2>3
    <3>2. \A d \in Clients, g \in Groups, r \in ChatRole, p \in Pids :
            InMap(d, g, r, p)' => \/ InMap(d, g, r, p)
                                  \/ /\ d = c /\ g = proc[c].group
                                     /\ InPair(c, r, p) \/ (r = m.role /\ p = m.pid)
      <4>1. \A g \in DOMAIN HashMap_Insert(tracked[c], proc[c].group, pids) :
              IF g = proc[c].group
                THEN HashMap_Insert(tracked[c], proc[c].group, pids)[g] = pids
                ELSE /\ g \in DOMAIN tracked[c]
                     /\ HashMap_Insert(tracked[c], proc[c].group, pids)[g] = tracked[c][g]
        BY DEF HashMap_Insert
      <4> QED BY <1>6, <3>1, <4>1 DEF InMap, InPair
    <3> QED BY <1>2, <1>3, <1>4, <1>8, <2>2, <2>3, <3>2, Tracked
  <2>4. CASE window' = KillPids(window, {pids}) /\ UNCHANGED tracked
    <3>1. \A d \in Clients, g \in Groups, r \in ChatRole, p \in Pids :
            InMap(d, g, r, p)' => InMap(d, g, r, p)
      BY <2>4 DEF InMap
    <3>2. \A p \in Pids : window'[p] \in {window[p], NoWindow}
      BY <2>4, KillEffect DEF Types
    <3> QED BY <1>4, <2>2, <3>1, <3>2, Shrink
  <2> QED BY <1>8, <2>3, <2>4 DEF CollectPid, pids, m
<1> QED BY <1>7, <1>8, ZenonT(30), ZenonT(60) DEF CollectPid, pids, m, Types, ProcType

\* ChatIpc_ReportPid.
LEMMA ReportFiled ==
  ASSUME Types, Filed, NEW p0 \in Pids, ChatIpc_ReportPid(p0)
  PROVE  Filed'
<1>1. window \in [Pids -> Windows] /\ queue \in [Clients -> Seq(Msg)] /\ name \in Clients \cup {NoClient}
  BY DEF Types, WindowType, QueueType
<1>2. /\ window[p0].at = "starting" /\ window[p0].role \in ChatRole
      /\ \A p \in Pids : p # p0 => window'[p] = window[p]
      /\ window'[p0].at # "starting" /\ window'[p0].role = window[p0].role
  BY <1>1 DEF ChatIpc_ReportPid, Windows
<1>3. \A d \in Clients, r \in ChatRole, p \in Pids : InPair(d, r, p)' => InPair(d, r, p)
  BY DEF ChatIpc_ReportPid, InPair
<1>4. \A d \in Clients, g \in Groups, r \in ChatRole, p \in Pids : InMap(d, g, r, p)' => InMap(d, g, r, p)
  BY DEF ChatIpc_ReportPid, InMap
<1>5. CASE UNCHANGED queue
  <2>1. \A p \in Pids : window'[p] \in {window[p], NoWindow} \/ Free(p)
    BY <1>2 DEF Filed, InRole
  <2> QED BY <1>5, <2>1, Kept DEF ChatIpc_ReportPid
<1> DEFINE m == [role |-> window[p0].role, pid |-> p0]
<1>6. CASE name # NoClient /\ queue' = [queue EXCEPT ![name] = Append(@, m)]
  <2>1. name \in Clients /\ Len(queue[name]) \in Nat /\ m \in Msg
    BY <1>1, <1>2, <1>6 DEF Msg
  <2> DEFINE n == Len(queue[name]) + 1
  <2>2. ASSUME NEW d \in Clients, NEW i \in Nat, NEW r \in ChatRole, NEW p \in Pids, InQueue(d, i, r, p)'
        PROVE  InQueue(d, i, r, p) \/ (d = name /\ i = n /\ r = window[p0].role /\ p = p0)
    <3>1. CASE d # name
      BY <1>1, <1>6, <2>2, <3>1 DEF InQueue
    <3>2. CASE d = name
      <4> HIDE DEF m
      <4>1. /\ i \in 1 .. Len(Append(queue[name], m))
            /\ Append(queue[name], m)[i] = [role |-> r, pid |-> p]
        BY <1>1, <1>6, <2>1, <2>2, <3>2 DEF InQueue
      <4>2. CASE i \in 1 .. Len(queue[name])
        BY <1>1, <2>1, <3>2, <4>1, <4>2 DEF InQueue
      <4>3. CASE i = n
        <5>1. m = [role |-> r, pid |-> p]
          BY <1>1, <2>1, <4>1, <4>3
        <5> QED BY <3>2, <4>3, <5>1 DEF m
      <4>4. Len(Append(queue[name], m)) = Len(queue[name]) + 1
        BY <1>1, <2>1
      <4>5. i \in 1 .. n
        BY <4>1, <4>4
      <4>6. i \in 1 .. Len(queue[name]) \/ i = n
        BY <2>1, <4>5
      <4> QED BY <4>2, <4>3, <4>6
    <3> QED BY <3>1, <3>2
  <2>3. n \in Nat
    BY <2>1
  <2> HIDE DEF n
  <2>4. name \in Clients
    BY <2>1
  <2>5. \A d \in Clients, i \in Nat, r \in ChatRole, p \in Pids :
           InQueue(d, i, r, p)' => \/ InQueue(d, i, r, p)
                                   \/ d = name /\ i = n /\ r = window[p0].role /\ p = p0
    BY <2>2
  <2>6. Reports(name, n, p0)
    BY ONLY <1>2, <1>3, <1>4, <2>5 DEF Reports
  <2> QED BY ONLY Filed, p0 \in Pids, <2>3, <2>4, <2>6, Reported
<1> QED BY <1>5, <1>6 DEF ChatIpc_ReportPid

\* The invariant of the PIDs is inductive, given the types.
LEMMA FiledStep ==
  ASSUME Types, Filed, Next
  PROVE  Filed'
<1>0. /\ proc \in [Clients -> [at: {"off", "idle", "spawnReceiver", "spawnSender", "collectFirst",
                                    "collectSecond"},
                               group: Groups \cup {NoGroup}, pids: GroupPids]]
      /\ tracked \in [Clients -> Maps] /\ queue \in [Clients -> Seq(Msg)] /\ window \in [Pids -> Windows]
  BY DEF Types, ProcType, MapType, QueueType, WindowType
<1>1. ASSUME \A c \in Clients : proc'[c].pids \in {proc[c].pids, NoPids},
             \A c \in Clients : \/ tracked'[c] \in {tracked[c], HashMap_Create}
                                \/ \E g \in Groups : tracked'[c] = HashMap_Remove(tracked[c], g),
             \A c \in Clients : queue'[c] \in {queue[c], << >>},
             UNCHANGED window \/ (\E pairs : window' = KillPids(window, pairs))
      PROVE  Filed'
  <2>1. \A p \in Pids : window'[p] \in {window[p], NoWindow}
    BY <1>1, KillEffect DEF Types
  <2> QED BY <1>1, <2>1, Kept
<1>2. ASSUME NEW c \in Clients, GroupWindows_Create(c) PROVE Filed'
  BY <1>0, <1>1, <1>2 DEF GroupWindows_Create
<1>3. ASSUME NEW c \in Clients, NEW g \in Groups, GroupWindows_Open(c, g) PROVE Filed'
  BY <1>0, <1>1, <1>3, ZenonT(30), ZenonT(60) DEF GroupWindows_Open
<1>4. ASSUME NEW c \in Clients, NEW g \in Groups, GroupWindows_Close(c, g) PROVE Filed'
  BY <1>0, <1>1, <1>4 DEF GroupWindows_Close
<1>5. ASSUME NEW c \in Clients, GroupWindows_CloseAll(c) PROVE Filed'
  BY <1>0, <1>1, <1>5 DEF GroupWindows_CloseAll
<1>6. ASSUME NEW c \in Clients, GroupWindows_Destroy(c) PROVE Filed'
  BY <1>0, <1>1, <1>6 DEF GroupWindows_Destroy, Off
<1>7. ASSUME NEW c \in Clients, Crash(c) PROVE Filed'
  BY <1>0, <1>1, <1>7 DEF Crash, Off
<1>8. ASSUME NEW c \in Clients, CollectTimeout(c) PROVE Filed'
  BY <1>0, <1>1, <1>8 DEF CollectTimeout, Off
<1>9. ASSUME NEW c \in Clients, SpawnReceiver(c) \/ SpawnSender(c) PROVE Filed'
  <2>1. \A d \in Clients : proc'[d].pids \in {proc[d].pids, NoPids}
    <3>1. \/ \E at : proc' = [proc EXCEPT ![c].at = at]
          \/ proc' = [proc EXCEPT ![c] = [Off EXCEPT !.at = "idle"]]
      BY <1>9 DEF SpawnReceiver, SpawnSender
    <3>2. ASSUME NEW at, proc' = [proc EXCEPT ![c].at = at]
          PROVE  \A d \in Clients : proc'[d].pids = proc[d].pids
      BY <1>0, <3>2
    <3>3. ASSUME proc' = [proc EXCEPT ![c] = [Off EXCEPT !.at = "idle"]]
          PROVE  \A d \in Clients : proc'[d].pids \in {proc[d].pids, NoPids}
      BY <1>0, <3>3 DEF Off
    <3> QED BY <3>1, <3>2, <3>3
  <2>2. UNCHANGED <<tracked, queue>>
    BY <1>9 DEF SpawnReceiver, SpawnSender
  <2>3. UNCHANGED window \/ (\E role \in ChatRole : SpawnWindow(c, role))
    BY <1>9 DEF SpawnReceiver, SpawnSender, ChatRole
  <2>4. CASE UNCHANGED window
    <3>1. \A q \in Pids : window'[q] \in {window[q], NoWindow} \/ Free(q)
      BY <2>4
    <3> QED BY <2>1, <2>2, <3>1, Kept
  <2>5. CASE \E role \in ChatRole : SpawnWindow(c, role)
    <3>1. PICK p \in FreshPids : \A q \in Pids : q # p => window'[q] = window[q]
      BY <2>5, SpawnEffect
    <3>2. \A q \in Pids : window'[q] \in {window[q], NoWindow} \/ Free(q)
      BY <3>1, FreshIsFree
    <3> QED BY <2>1, <2>2, <3>2, Kept
  <2> QED BY <2>3, <2>4, <2>5
<1>10. ASSUME NEW p \in Pids, WindowEnds(p) PROVE Filed'
  BY <1>0, <1>10, Kept DEF WindowEnds
<1> QED
  BY <1>2, <1>3, <1>4, <1>5, <1>6, <1>7, <1>8, <1>9, <1>10, CollectFiled, ReportFiled DEF Next, OpenStep

\* No PID is in two places.
LEMMA FiledInvariance == Spec => []Filed
<1>1. Types /\ Filed /\ [Next]_vars => Filed'
  <2>1. ASSUME Types, Filed, UNCHANGED vars PROVE Filed'
    <3>1. UNCHANGED <<proc, tracked, queue, window>>
      BY <2>1 DEF vars
    <3> QED BY <2>1, <3>1, Kept
  <2> QED BY <2>1, FiledStep
<1> QED BY <1>1, InitFiled, TypesInvariance, PTL DEF Spec

\* A slot with a PID is one of the places.
LEMMA SlotForm ==
  ASSUME Types, NEW s \in Slots, s[4] # NoPid
  PROVE  /\ s[4] \in Pids
         /\ \/ \E c \in Clients, r \in ChatRole : s = <<c, "pids", r, s[4]>> /\ InPair(c, r, s[4])
            \/ \E c \in Clients, g \in Groups, r \in ChatRole :
                  s = <<c, g, r, s[4]>> /\ InMap(c, g, r, s[4])
            \/ \E c \in Clients, i \in Nat, r \in ChatRole :
                  s = <<c, "queue", i, s[4]>> /\ InQueue(c, i, r, s[4])
<1>0. /\ \A c \in Clients : proc[c].pids \in GroupPids
      /\ \A c \in Clients : /\ DOMAIN tracked[c] \subseteq Groups
                            /\ tracked[c] \in [DOMAIN tracked[c] -> GroupPids]
      /\ \A c \in Clients : queue[c] \in Seq(Msg)
  BY MapsAreFunctions DEF Types, ProcType, MapType, QueueType
<1>1. CASE \E c \in Clients, r \in ChatRole : s = <<c, "pids", r, proc[c].pids[r]>>
  BY <1>0, <1>1 DEF InPair, GroupPids
<1>2. CASE \E c \in Clients : \E g \in DOMAIN tracked[c], r \in ChatRole :
             s = <<c, g, r, tracked[c][g][r]>>
  BY <1>0, <1>2 DEF InMap, GroupPids
<1>3. CASE \E c \in Clients : \E i \in DOMAIN queue[c] : s = <<c, "queue", i, queue[c][i].pid>>
  <2>0. PICK c \in Clients : \E i \in DOMAIN queue[c] : s = <<c, "queue", i, queue[c][i].pid>>
    BY <1>3
  <2>1. PICK i \in DOMAIN queue[c] : s = <<c, "queue", i, queue[c][i].pid>>
    BY <2>0
  <2>2. i \in 1 .. Len(queue[c]) /\ i \in Nat /\ queue[c][i] \in Msg
    BY <1>0
  <2>3. queue[c][i].role \in ChatRole /\ queue[c][i].pid \in Pids
        /\ queue[c][i] = [role |-> queue[c][i].role, pid |-> queue[c][i].pid]
    BY <2>2 DEF Msg
  <2> QED BY <2>1, <2>2, <2>3 DEF InQueue
<1> DEFINE A == {<<c, "pids", role, proc[c].pids[role]>> : c \in Clients, role \in ChatRole}
           B == UNION {{<<c, g, role, tracked[c][g][role]>> : g \in DOMAIN tracked[c], role \in ChatRole}
                      : c \in Clients}
           C == UNION {{<<c, "queue", i, queue[c][i].pid>> : i \in DOMAIN queue[c]} : c \in Clients}
<1>4. Slots = (A \cup B) \cup C
  BY DEF Slots
<1>5. s \in A => \E c \in Clients, r \in ChatRole : s = <<c, "pids", r, proc[c].pids[r]>>
  OBVIOUS
<1>6. s \in B => \E c \in Clients : \E g \in DOMAIN tracked[c], r \in ChatRole :
                   s = <<c, g, r, tracked[c][g][r]>>
  OBVIOUS
<1>7. s \in C => \E c \in Clients : \E i \in DOMAIN queue[c] : s = <<c, "queue", i, queue[c][i].pid>>
  OBVIOUS
<1> HIDE DEF A, B, C
<1>8. s \in A \/ s \in B \/ s \in C
  BY <1>4
<1> QED BY <1>1, <1>2, <1>3, <1>5, <1>6, <1>7, <1>8

\* For any number of clients on the host, groups, windows and faults: a PID is filed
\* in at most one slot of one client, under the role of its window, however late a
\* window reports and into whichever client's queue (CollectPid, KillPids).
THEOREM FiledOnceCorrect == Spec => []FiledOnce
<1>1. ASSUME Types, Filed PROVE FiledOnce
  <2>1. ASSUME NEW s \in Slots, NEW t \in Slots, s[4] = t[4], s[4] # NoPid PROVE s = t
    <3> DEFINE p == s[4]
    <3>1. /\ p \in Pids
          /\ \/ \E c \in Clients, r \in ChatRole : s = <<c, "pids", r, p>> /\ InPair(c, r, p)
             \/ \E c \in Clients, g \in Groups, r \in ChatRole : s = <<c, g, r, p>> /\ InMap(c, g, r, p)
             \/ \E c \in Clients, i \in Nat, r \in ChatRole :
                   s = <<c, "queue", i, p>> /\ InQueue(c, i, r, p)
      BY <1>1, <2>1, SlotForm
    <3>2. \/ \E c \in Clients, r \in ChatRole : t = <<c, "pids", r, p>> /\ InPair(c, r, p)
          \/ \E c \in Clients, g \in Groups, r \in ChatRole : t = <<c, g, r, p>> /\ InMap(c, g, r, p)
          \/ \E c \in Clients, i \in Nat, r \in ChatRole :
                t = <<c, "queue", i, p>> /\ InQueue(c, i, r, p)
      BY <1>1, <2>1, SlotForm
    <3> HIDE DEF p
    <3>3. \A c, d \in Clients, r, q \in ChatRole : ApartAt(c, d, r, q, p)
      BY <1>1, <3>1 DEF Filed, Apart
    <3> QED BY <3>1, <3>2, <3>3 DEF ApartAt
  <2>2. ASSUME NEW c \in Clients, NEW g \in DOMAIN tracked[c], NEW r \in ChatRole, tracked[c][g][r] # NoPid
        PROVE  window[tracked[c][g][r]] = NoWindow \/ window[tracked[c][g][r]].role = r
    <3>1. g \in Groups /\ tracked[c][g][r] \in Pids
      BY <1>1, <2>2, MapsAreFunctions DEF Types, MapType, GroupPids
    <3>2. InMap(c, g, r, tracked[c][g][r])
      BY DEF InMap
    <3> QED BY <1>1, <3>1, <3>2 DEF Filed, InRole, Fits
  <2> QED BY <2>1, <2>2 DEF FiledOnce
<1> QED BY <1>1, TypesInvariance, FiledInvariance, PTL

=============================================================================
