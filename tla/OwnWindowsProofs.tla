-------------------------- MODULE OwnWindowsProofs ---------------------------
(***************************************************************************)
(* For one client on the host, as long as nothing fails, and any number of *)
(* groups and PIDs: the windows a client tracks are its own, none is lost, *)
(* and a report never waits for a place in the queue.                      *)
(***************************************************************************)
EXTENDS GroupWindowsProofs

\* The provers of a leaf that names none, in the order they are tried.
USE SMT, ZenonT(30), SMTT(30), ZenonT(60)

-----------------------------------------------------------------------------
(* One client on the host, and nothing has failed.                         *)

\* The messages in a queue, and that no two come from windows of one role.
Msgs(q) == {q[i] : i \in DOMAIN q}

UniqueRoles(q) == \A i, j \in DOMAIN q : q[i].role = q[j].role => i = j

Running(c, g, role) == [at |-> "running", role |-> role, group |-> g, owner |-> c]

\* The windows the Open under way has started, and those it has not heard of.
Spawned(c) ==
  {role \in ChatRole : \/ proc[c].at \in {"collectFirst", "collectSecond"}
                       \/ proc[c].at = "spawnSender" /\ role = "CHAT_ROLE_RECEIVER"}

Awaited(c) == {role \in Spawned(c) : proc[c].pids[role] = NoPid}

\* The name is the client's as long as it runs, and an Open is at the point where
\* its pair says it is.
InOrder(c) ==
  /\ name = IF proc[c].at = "off" THEN NoClient ELSE c
  /\ hasMap[c] = (proc[c].at # "off")
  /\ proc[c].at # "collectSecond" => proc[c].pids = NoPids
  /\ proc[c].at = "collectSecond" =>
       (proc[c].pids["CHAT_ROLE_SENDER"] = NoPid <=> proc[c].pids["CHAT_ROLE_RECEIVER"] # NoPid)
  /\ proc[c].at \notin {"off", "idle"} => proc[c].group \notin DOMAIN tracked[c]

\* A PID in the map, in the pair or in the queue is of the group and role it is
\* filed under, unless its window was closed.
MapRight(c) ==
  \A g \in DOMAIN tracked[c], role \in ChatRole :
    /\ tracked[c][g][role] \in Pids
    /\ window[tracked[c][g][role]] \in {NoWindow, Running(c, g, role)}

PairRight(c) ==
  \A role \in ChatRole :
    proc[c].pids[role] # NoPid =>
      window[proc[c].pids[role]] \in {NoWindow, Running(c, proc[c].group, role)}

QueueRight(c) ==
  /\ UniqueRoles(queue[c])
  /\ \A m \in Msgs(queue[c]) :
       m.role \in Awaited(c) /\ window[m.pid] \in {NoWindow, Running(c, proc[c].group, m.role)}

Starting(p, role) == window[p].at = "starting" /\ window[p].role = role

\* A PID the client waits for is in the queue, or its window has still to report.
Coming(c) ==
  \A role \in Awaited(c) :
    (\E m \in Msgs(queue[c]) : m.role = role) \/ (\E p \in Pids : Starting(p, role))

\* A window has still to report and is waited for, or the client tracks it or will.
Accounted(c, p) ==
  \/ /\ window[p].at = "starting"
     /\ window[p].role \in Awaited(c)
     /\ window[p].group = proc[c].group
     /\ \A m \in Msgs(queue[c]) : m.role # window[p].role
     /\ \A q \in Pids : Starting(q, window[p].role) => q = p
  \/ /\ window[p].at = "running"
     /\ \/ /\ window[p].group \in DOMAIN tracked[c]
           /\ tracked[c][window[p].group][window[p].role] = p
        \/ /\ window[p].group = proc[c].group
           /\ \/ proc[c].pids[window[p].role] = p
              \/ [role |-> window[p].role, pid |-> p] \in Msgs(queue[c])

WindowsRight(c) ==
  \A p \in Pids : window[p] # NoWindow => window[p].owner = c /\ Accounted(c, p)

\* Inductive for a client that is alone, as long as nothing fails.
Faultless(c) ==
  InOrder(c) /\ MapRight(c) /\ PairRight(c) /\ QueueRight(c) /\ Coming(c) /\ WindowsRight(c)

-----------------------------------------------------------------------------
(* Faultless is inductive.                                                 *)

\* A fault is counted.
LEMMA FaultSeen ==
  ASSUME Types, Fault
  PROVE  faults' # 0
  BY DEF Types, WindowType, Fault

\* Removing the head of a queue, and adding to its end.
LEMMA TailMsgs ==
  ASSUME NEW q \in Seq(Msg), q # << >>, UniqueRoles(q)
  PROVE  /\ Head(q) \in Msgs(q)
         /\ UniqueRoles(Tail(q))
         /\ Msgs(Tail(q)) = {m \in Msgs(q) : m.role # Head(q).role}
<1>1. /\ Len(q) \in Nat /\ Len(q) >= 1 /\ DOMAIN q = 1 .. Len(q) /\ Head(q) = q[1]
      /\ DOMAIN Tail(q) = 1 .. Len(q) - 1
      /\ \A i \in 1 .. Len(q) - 1 : Tail(q)[i] = q[i + 1]
  BY HeadTailProperties, LenProperties
<1>2. Head(q) \in Msgs(q)
  BY <1>1 DEF Msgs
<1>3. UniqueRoles(Tail(q))
  <2> SUFFICES ASSUME NEW i \in 1 .. Len(q) - 1, NEW j \in 1 .. Len(q) - 1,
                      Tail(q)[i].role = Tail(q)[j].role
               PROVE  i = j
    BY <1>1 DEF UniqueRoles
  <2>1. i + 1 \in 1 .. Len(q) /\ j + 1 \in 1 .. Len(q) /\ q[i + 1].role = q[j + 1].role
    BY <1>1
  <2>2. i + 1 = j + 1
    BY <1>1, <2>1 DEF UniqueRoles
  <2> QED BY <2>2
<1>4. ASSUME NEW m, m \in Msgs(Tail(q)) PROVE m \in Msgs(q) /\ m.role # Head(q).role
  <2>1. PICK i \in 1 .. Len(q) - 1 : m = q[i + 1]
    BY <1>1, <1>4 DEF Msgs
  <2>2. i + 1 \in 1 .. Len(q) /\ i + 1 # 1 /\ 1 \in 1 .. Len(q)
    BY <1>1
  <2> QED BY <1>1, <2>1, <2>2 DEF Msgs, UniqueRoles
<1>5. ASSUME NEW m \in Msgs(q), m.role # Head(q).role PROVE m \in Msgs(Tail(q))
  <2>1. PICK i \in 1 .. Len(q) : m = q[i]
    BY <1>1, <1>5 DEF Msgs
  <2>2. i # 1
    BY <1>1, <1>5, <2>1
  <2>3. i - 1 \in 1 .. Len(q) - 1 /\ Tail(q)[i - 1] = q[(i - 1) + 1] /\ (i - 1) + 1 = i
    BY <1>1, <2>2
  <2> QED BY <1>1, <2>1, <2>3 DEF Msgs
<1> QED BY <1>2, <1>3, <1>4, <1>5

\* A message of a new role at the end of a queue.
LEMMA AppendMsgs ==
  ASSUME NEW q \in Seq(Msg), UniqueRoles(q), NEW m \in Msg, \A x \in Msgs(q) : x.role # m.role
  PROVE  UniqueRoles(Append(q, m)) /\ Msgs(Append(q, m)) = Msgs(q) \cup {m}
<1>1. /\ Len(q) \in Nat /\ DOMAIN q = 1 .. Len(q) /\ DOMAIN Append(q, m) = 1 .. Len(q) + 1
      /\ \A i \in 1 .. Len(q) : Append(q, m)[i] = q[i]
      /\ Append(q, m)[Len(q) + 1] = m
  BY AppendProperties, LenProperties
<1>2. \A i \in 1 .. Len(q) + 1 : i \in 1 .. Len(q) \/ i = Len(q) + 1
  BY <1>1
<1>3. 1 .. Len(q) \subseteq 1 .. Len(q) + 1 /\ Len(q) + 1 \in 1 .. Len(q) + 1
  BY <1>1
<1>4. \A i \in 1 .. Len(q) : q[i].role # m.role
  BY <1>1 DEF Msgs
<1>5. UniqueRoles(Append(q, m))
  BY <1>1, <1>2, <1>4 DEF UniqueRoles
<1>6. Msgs(Append(q, m)) = Msgs(q) \cup {m}
  BY <1>1, <1>2, <1>3 DEF Msgs
<1> QED BY <1>5, <1>6

\* An empty queue.
LEMMA NoMsgs == Msgs(<< >>) = {} /\ UniqueRoles(<< >>)
  BY DEF Msgs, UniqueRoles

\* The types of what a client holds.
LEMMA HeldTypes ==
  ASSUME Types, NEW c \in Clients
  PROVE  /\ \A p \in Pids : window[p] \in Windows /\ window[p].role \in ChatRole
         /\ \A role \in ChatRole : proc[c].pids[role] \in Pids \cup {NoPid}
         /\ \A g \in DOMAIN tracked[c], role \in ChatRole : tracked[c][g][role] \in Pids \cup {NoPid}
         /\ \A m \in Msgs(queue[c]) : m \in Msg /\ m.pid \in Pids /\ m.role \in ChatRole
         /\ Awaited(c) \subseteq ChatRole
<1>1. \A p \in Pids : window[p] \in Windows /\ window[p].role \in ChatRole
  BY DEF Types, WindowType, Windows
<1>2. \A role \in ChatRole : proc[c].pids[role] \in Pids \cup {NoPid}
  BY DEF Types, ProcType, GroupPids
<1>3. tracked[c] \in Maps
  BY DEF Types, MapType
<1>4. \A g \in DOMAIN tracked[c], role \in ChatRole : tracked[c][g][role] \in Pids \cup {NoPid}
  BY <1>3, MapsAreFunctions DEF GroupPids
<1>5. queue[c] \in Seq(Msg)
  BY DEF Types, QueueType
<1>6. \A m \in Msgs(queue[c]) : m \in Msg
  BY <1>5, LenProperties, ElementOfSeq DEF Msgs
<1>7. \A m \in Msg : m.pid \in Pids /\ m.role \in ChatRole
  BY DEF Msg
<1>8. Awaited(c) \subseteq ChatRole
  BY DEF Awaited, Spawned
<1> QED BY <1>1, <1>2, <1>4, <1>6, <1>7, <1>8

\* What holds of the map, the pair, the queue and the windows of a client.
Held(c) == MapRight(c) /\ PairRight(c) /\ QueueRight(c) /\ Coming(c) /\ WindowsRight(c)

\* A step that ends windows, none of them one that has still to report, and forgets
\* pairs whose windows it ended.
LEMMA SomeEnd ==
  ASSUME Types, NEW c \in Clients, Held(c),
         proc'[c].pids = proc[c].pids, Awaited(c)' = Awaited(c),
         proc'[c].group = proc[c].group \/ (Awaited(c) = {} /\ proc[c].pids = NoPids),
         Msgs(queue[c])' = Msgs(queue[c]), UniqueRoles(queue[c])',
         \A p \in Pids : window'[p] = window[p] \/ (window'[p] = NoWindow /\ window[p].at # "starting"),
         DOMAIN tracked'[c] \subseteq DOMAIN tracked[c],
         \A g \in DOMAIN tracked'[c] : tracked'[c][g] = tracked[c][g],
         \A g \in DOMAIN tracked[c] \ DOMAIN tracked'[c], role \in ChatRole :
           tracked[c][g][role] \in Pids => window'[tracked[c][g][role]] = NoWindow
  PROVE  Held(c)'
<1> USE DEF Held
<1>0. NoWindow.at = "none" /\ \A role \in ChatRole : NoPids[role] = NoPid
  BY DEF NoWindow, NoPids
<1>1. MapRight(c)'
  BY DEF MapRight, Running
<1>2. PairRight(c)'
  BY <1>0, HeldTypes DEF PairRight, Running
<1>3. QueueRight(c)'
  BY HeldTypes, ZenonT(30), ZenonT(60) DEF QueueRight, Running
<1>4. Coming(c)'
  BY DEF Coming, Starting
<1>5. WindowsRight(c)'
  <2> SUFFICES ASSUME NEW p \in Pids, window'[p] # NoWindow
               PROVE  window'[p].owner = c /\ Accounted(c, p)'
    BY DEF WindowsRight
  <2>1. window'[p] = window[p] /\ window[p].owner = c /\ Accounted(c, p)
    BY DEF WindowsRight
  <2>2. window[p].role \in ChatRole
    BY HeldTypes
  <2>3. CASE window[p].at = "starting"
    <3>1. /\ window[p].role \in Awaited(c) /\ window[p].group = proc[c].group
          /\ \A m \in Msgs(queue[c]) : m.role # window[p].role
          /\ \A q \in Pids : Starting(q, window[p].role) => q = p
      BY <2>1, <2>3 DEF Accounted
    <3>2. \A q \in Pids : Starting(q, window[p].role)' => Starting(q, window[p].role)
      BY <1>0, <2>1 DEF Starting
    <3> QED BY <2>1, <2>3, <3>1, <3>2 DEF Accounted, Starting
  <2>4. CASE window[p].at = "running"
    <3>1. CASE window[p].group \in DOMAIN tracked[c] /\ tracked[c][window[p].group][window[p].role] = p
      <4>1. window[p].group \in DOMAIN tracked'[c]
        <5>1. NoWindow # window'[p] /\ tracked[c][window[p].group][window[p].role] \in Pids
          BY ONLY <3>1, p \in Pids, window'[p] # NoWindow
        <5> QED BY <2>2, <3>1, <5>1, ZenonT(30), ZenonT(60)
      <4>2. tracked'[c][window[p].group] = tracked[c][window[p].group]
        BY <4>1, ZenonT(30), ZenonT(60)
      <4> QED BY ONLY <2>1, <2>4, <3>1, <4>1, <4>2 DEF Accounted
    <3>2. CASE /\ window[p].group = proc[c].group
               /\ \/ proc[c].pids[window[p].role] = p
                  \/ [role |-> window[p].role, pid |-> p] \in Msgs(queue[c])
      <4>1. proc'[c].group = proc[c].group
        BY <1>0, <2>2, <3>2, GroupWindowsAssumption DEF QueueRight
      <4> QED BY <2>1, <2>4, <3>2, <4>1 DEF Accounted
    <3> QED BY <2>1, <2>4, <3>1, <3>2 DEF Accounted
  <2> QED BY <2>1, <2>3, <2>4 DEF Accounted
<1> QED BY <1>1, <1>2, <1>3, <1>4, <1>5

\* Between two calls the client waits for nothing, and no window has still to report.
LEMMA NothingComing ==
  ASSUME Types, NEW c \in Clients, Faultless(c),
         proc[c].at \in {"off", "idle", "spawnReceiver"}
  PROVE  /\ Awaited(c) = {} /\ proc[c].pids = NoPids
         /\ Msgs(queue[c]) = {} /\ UniqueRoles(queue[c])
         /\ \A p \in Pids : window[p].at # "starting"
<1>1. Awaited(c) = {} /\ proc[c].pids = NoPids
  BY DEF Awaited, Spawned, Faultless, InOrder
<1>2. Msgs(queue[c]) = {} /\ UniqueRoles(queue[c])
  BY <1>1 DEF Faultless, QueueRight
<1>3. ASSUME NEW p \in Pids, window[p].at = "starting" PROVE FALSE
  <2>1. window[p] # NoWindow
    BY <1>3 DEF NoWindow
  <2>2. Accounted(c, p)
    BY <2>1 DEF Faultless, WindowsRight
  <2> QED BY <1>1, <1>3, <2>2 DEF Accounted
<1> QED BY <1>1, <1>2, <1>3

\* Every PID of a pair that is killed has no window.
LEMMA Killed ==
  ASSUME NEW pairs, NEW pair \in pairs, NEW role \in ChatRole, pair[role] \in Pids
  PROVE  KillPids(window, pairs)[pair[role]] = NoWindow
  BY DEF KillPids, PidsOf

\* A client that starts has a new queue under the name.
LEMMA CreateFaultless ==
  ASSUME Types, NEW c \in Clients, Faultless(c), GroupWindows_Create(c)
  PROVE  Faultless(c)'
<1> USE DEF GroupWindows_Create
<1>1. /\ Awaited(c) = {} /\ proc[c].pids = NoPids
      /\ Msgs(queue[c]) = {} /\ UniqueRoles(queue[c])
  BY NothingComing, ZenonT(30), ZenonT(60)
<1>2. proc'[c] = [proc[c] EXCEPT !.at = "idle"] /\ queue'[c] = << >> /\ hasMap'[c] = TRUE
  BY DEF Types, ProcType, QueueType, MapType
<1>3. proc'[c].at = "idle" /\ proc'[c].pids = proc[c].pids /\ proc'[c].group = proc[c].group
  BY <1>2 DEF Types, ProcType
<1>4. Awaited(c)' = {}
  BY <1>3 DEF Awaited, Spawned
<1>5. Msgs(queue[c])' = {} /\ UniqueRoles(queue[c])'
  BY <1>2, NoMsgs
<1>6. InOrder(c)'
  BY <1>1, <1>2, <1>3, ZenonT(30), ZenonT(60) DEF InOrder, Faultless
<1>7. Held(c)'
  BY <1>1, <1>3, <1>4, <1>5, SomeEnd, ZenonT(30), ZenonT(60) DEF Held, Faultless
<1> QED BY <1>6, <1>7 DEF Held, Faultless

\* An Open closes the group's old pair before anything is started.
LEMMA OpenFaultless ==
  ASSUME Types, NEW c \in Clients, NEW g \in Groups, Faultless(c), GroupWindows_Open(c, g)
  PROVE  Faultless(c)'
<1> USE DEF GroupWindows_Open
<1>1. /\ Awaited(c) = {} /\ proc[c].pids = NoPids
      /\ Msgs(queue[c]) = {} /\ UniqueRoles(queue[c])
      /\ \A p \in Pids : window[p].at # "starting"
  BY NothingComing
<1>2. /\ proc'[c] = [at |-> "spawnReceiver", group |-> g, pids |-> NoPids]
      /\ tracked'[c] = HashMap_Remove(tracked[c], g)
  BY DEF Types, ProcType, MapType
<1>3. /\ DOMAIN tracked'[c] = DOMAIN tracked[c] \ {g}
      /\ \A h \in DOMAIN tracked'[c] : tracked'[c][h] = tracked[c][h]
  BY <1>2 DEF HashMap_Remove
<1>4. Awaited(c)' = {} /\ Msgs(queue[c])' = Msgs(queue[c]) /\ UniqueRoles(queue[c])'
  BY <1>1, <1>2 DEF Awaited, Spawned
<1>5. \A p \in Pids : window'[p] = window[p] \/ (window'[p] = NoWindow /\ window[p].at # "starting")
  BY <1>1, KillEffect DEF Types
<1>6. \A h \in DOMAIN tracked[c] \ DOMAIN tracked'[c], role \in ChatRole :
        tracked[c][h][role] \in Pids => window'[tracked[c][h][role]] = NoWindow
  <2> SUFFICES ASSUME NEW h \in DOMAIN tracked[c] \ DOMAIN tracked'[c], NEW role \in ChatRole,
                      tracked[c][h][role] \in Pids
               PROVE  window'[tracked[c][h][role]] = NoWindow
    BY ZenonT(30), ZenonT(60)
  <2> DEFINE pairs == {tracked[c][x] : x \in DOMAIN tracked[c] \cap {g}}
  <2>1. window' = KillPids(window, pairs) /\ tracked[c][h] \in pairs
    BY <1>3
  <2> HIDE DEF pairs
  <2>2. KillPids(window, pairs)[tracked[c][h][role]] = NoWindow
    BY <2>1, Killed
  <2> QED BY <2>1, <2>2, ZenonT(30), ZenonT(60)
<1>7. InOrder(c)'
  BY <1>2, <1>3 DEF InOrder, Faultless
<1>8. proc'[c].pids = proc[c].pids
  BY <1>1, <1>2
<1>9. Held(c)'
  BY <1>1, <1>3, <1>4, <1>5, <1>6, <1>8, SomeEnd, ZenonT(30), ZenonT(60) DEF Held, Faultless
<1> QED BY <1>7, <1>9 DEF Held, Faultless

\* A Close ends the pair it forgets.
LEMMA CloseFaultless ==
  ASSUME Types, NEW c \in Clients, NEW g \in Groups, Faultless(c), GroupWindows_Close(c, g)
  PROVE  Faultless(c)'
<1> USE DEF GroupWindows_Close
<1>1. /\ Msgs(queue[c]) = {} /\ UniqueRoles(queue[c])
      /\ \A p \in Pids : window[p].at # "starting"
  BY NothingComing
<1>2. tracked'[c] = HashMap_Remove(tracked[c], g)
  BY DEF Types, MapType
<1>3. /\ DOMAIN tracked'[c] = DOMAIN tracked[c] \ {g}
      /\ \A h \in DOMAIN tracked'[c] : tracked'[c][h] = tracked[c][h]
  BY <1>2 DEF HashMap_Remove
<1>4. Awaited(c)' = Awaited(c) /\ Msgs(queue[c])' = Msgs(queue[c]) /\ UniqueRoles(queue[c])'
  BY <1>1 DEF Awaited, Spawned
<1>5. \A p \in Pids : window'[p] = window[p] \/ (window'[p] = NoWindow /\ window[p].at # "starting")
  BY <1>1, KillEffect DEF Types
<1>6. \A h \in DOMAIN tracked[c] \ DOMAIN tracked'[c], role \in ChatRole :
        tracked[c][h][role] \in Pids => window'[tracked[c][h][role]] = NoWindow
  <2> SUFFICES ASSUME NEW h \in DOMAIN tracked[c] \ DOMAIN tracked'[c], NEW role \in ChatRole,
                      tracked[c][h][role] \in Pids
               PROVE  window'[tracked[c][h][role]] = NoWindow
    BY ZenonT(30), ZenonT(60)
  <2> DEFINE pairs == {tracked[c][g]}
  <2>1. window' = KillPids(window, pairs) /\ tracked[c][h] \in pairs
    BY <1>3
  <2> HIDE DEF pairs
  <2>2. KillPids(window, pairs)[tracked[c][h][role]] = NoWindow
    BY <2>1, Killed
  <2> QED BY <2>1, <2>2, ZenonT(30), ZenonT(60)
<1>7. InOrder(c)'
  BY <1>3 DEF InOrder, Faultless
<1>8. Held(c)'
  BY <1>3, <1>4, <1>5, <1>6, SomeEnd, ZenonT(30), ZenonT(60) DEF Held, Faultless
<1> QED BY <1>7, <1>8 DEF Held, Faultless

\* CloseAll and Destroy end every pair they forget.
LEMMA CloseAllFaultless ==
  ASSUME Types, NEW c \in Clients, Faultless(c), faults' = 0,
         GroupWindows_CloseAll(c) \/ GroupWindows_Destroy(c)
  PROVE  Faultless(c)'
<1> USE DEF GroupWindows_CloseAll, GroupWindows_Destroy
<1>1. /\ Awaited(c) = {} /\ proc[c].pids = NoPids
      /\ Msgs(queue[c]) = {} /\ UniqueRoles(queue[c])
      /\ \A p \in Pids : window[p].at # "starting"
  BY NothingComing
<1>2. tracked'[c] = HashMap_Create /\ window' = KillPids(window, PairsOf(c))
  BY DEF Types, MapType
<1>3. DOMAIN tracked'[c] = {}
  BY <1>2, Constants
<1>4. \A p \in Pids : window'[p] = window[p] \/ (window'[p] = NoWindow /\ window[p].at # "starting")
  BY <1>1, <1>2, KillEffect DEF Types
<1>5. \A h \in DOMAIN tracked[c], role \in ChatRole :
        tracked[c][h][role] \in Pids => window'[tracked[c][h][role]] = NoWindow
  <2> SUFFICES ASSUME NEW h \in DOMAIN tracked[c], NEW role \in ChatRole,
                      tracked[c][h][role] \in Pids
               PROVE  window'[tracked[c][h][role]] = NoWindow
    OBVIOUS
  <2>1. tracked[c][h] \in PairsOf(c)
    BY DEF PairsOf
  <2> QED BY <1>2, <2>1, Killed
<1>6. CASE GroupWindows_CloseAll(c)
  <2>1. hasMap'[c] = TRUE
    BY <1>6, FaultSeen DEF Types, MapType
  <2>2. Awaited(c)' = Awaited(c) /\ Msgs(queue[c])' = Msgs(queue[c]) /\ UniqueRoles(queue[c])'
    BY <1>1, <1>6 DEF Awaited, Spawned
  <2>3. InOrder(c)'
    BY <1>3, <1>6, <2>1, ZenonT(30), ZenonT(60) DEF InOrder, Faultless
  <2>4. Held(c)'
    BY <1>3, <1>4, <1>5, <1>6, <2>2, SomeEnd, ZenonT(30), ZenonT(60) DEF Held, Faultless
  <2> QED BY <2>3, <2>4 DEF Held, Faultless
<1>7. CASE GroupWindows_Destroy(c)
  <2>1. proc'[c] = Off /\ hasMap'[c] = FALSE /\ queue'[c] = << >>
    BY <1>7 DEF Types, MapType, ProcType, QueueType
  <2>2. proc'[c].at = "off" /\ proc'[c].pids = NoPids /\ proc'[c].group = NoGroup
    BY <2>1 DEF Off
  <2>3. Awaited(c)' = {} /\ Msgs(queue[c])' = {} /\ UniqueRoles(queue[c])'
    BY <2>1, <2>2, NoMsgs DEF Awaited, Spawned
  <2>4. InOrder(c)'
    BY <1>3, <1>7, <2>1, <2>2, ZenonT(30), ZenonT(60) DEF InOrder, Faultless
  <2>5. Held(c)'
    BY <1>1, <1>3, <1>4, <1>5, <2>2, <2>3, SomeEnd, ZenonT(30), ZenonT(60) DEF Held, Faultless
  <2> QED BY <2>4, <2>5 DEF Held, Faultless
<1> QED BY <1>6, <1>7

\* A window that ends without having reported is a fault; another may end at any time.
LEMMA EndFaultless ==
  ASSUME Types, NEW c \in Clients, NEW p \in Pids, Faultless(c), faults' = 0, WindowEnds(p)
  PROVE  Faultless(c)'
<1>1. window[p].at # "starting" /\ window' = [window EXCEPT ![p] = NoWindow]
  BY FaultSeen DEF WindowEnds
<1>2. UNCHANGED <<proc, tracked, hasMap, queue, name>>
  BY DEF WindowEnds
<1>3. \A q \in Pids : window'[q] = window[q] \/ (window'[q] = NoWindow /\ window[q].at # "starting")
  BY <1>1 DEF Types, WindowType
<1>4. Awaited(c)' = Awaited(c) /\ Msgs(queue[c])' = Msgs(queue[c]) /\ UniqueRoles(queue[c])'
  BY <1>2 DEF Awaited, Spawned, Faultless, QueueRight
<1>5. InOrder(c)'
  BY <1>2 DEF InOrder, Faultless
<1>6. Held(c)'
  BY <1>2, <1>3, <1>4, SomeEnd DEF Held, Faultless
<1> QED BY <1>5, <1>6 DEF Held, Faultless

\* A window that is started is one more to wait for.
LEMMA SpawnFiled ==
  ASSUME Types, NEW c \in Clients, Held(c), NEW role \in ChatRole, SpawnWindow(c, role),
         proc'[c].pids = proc[c].pids, proc'[c].group = proc[c].group,
         role \notin Awaited(c), Awaited(c)' = Awaited(c) \cup {role},
         UNCHANGED <<tracked, queue>>
  PROVE  Held(c)'
<1> USE DEF Held
<1>0. NoWindow.at = "none"
  BY DEF NoWindow
<1>1. PICK p \in FreshPids :
        window' = [window EXCEPT ![p] = [at |-> "starting", role |-> role,
                                         group |-> proc[c].group, owner |-> c]]
  BY ZenonT(30), ZenonT(60) DEF SpawnWindow
<1>2. p \in Pids /\ window[p] = NoWindow /\ p \notin Known(c)
  BY <1>1 DEF FreshPids
<1>3. /\ window'[p] = [at |-> "starting", role |-> role, group |-> proc[c].group, owner |-> c]
      /\ \A q \in Pids : q # p => window'[q] = window[q]
  BY <1>1, <1>2 DEF Types, WindowType
<1>4. /\ \A r \in ChatRole : proc[c].pids[r] # p
      /\ \A g \in DOMAIN tracked[c], r \in ChatRole : tracked[c][g][r] # p
      /\ \A m \in Msgs(queue[c]) : m.pid # p
  BY <1>2 DEF Known, PidsOf, Msgs
<1>5. MapRight(c)'
  BY <1>3, <1>4 DEF MapRight, Running
<1>6. PairRight(c)'
  <2> SUFFICES ASSUME NEW r \in ChatRole, proc[c].pids[r] # NoPid
               PROVE  window'[proc[c].pids[r]] \in {NoWindow, Running(c, proc[c].group, r)}
    BY DEF PairRight, Running
  <2>1. proc[c].pids[r] \in Pids /\ proc[c].pids[r] # p
    BY <1>4, HeldTypes
  <2> QED BY <1>3, <2>1 DEF PairRight
<1>7. QueueRight(c)'
  BY <1>3, <1>4, HeldTypes DEF QueueRight, Running
<1>8. \A q \in Pids, r \in ChatRole : Starting(q, r)' <=> Starting(q, r) \/ (q = p /\ r = role)
  <2> SUFFICES ASSUME NEW q \in Pids, NEW r \in ChatRole
               PROVE  Starting(q, r)' <=> Starting(q, r) \/ (q = p /\ r = role)
    OBVIOUS
  <2>1. ~Starting(p, r)
    BY <1>0, <1>2 DEF Starting
  <2>2. Starting(p, r)' <=> r = role
    BY <1>3 DEF Starting
  <2>3. q # p => (Starting(q, r)' <=> Starting(q, r))
    BY <1>3 DEF Starting
  <2> QED BY <2>1, <2>2, <2>3
<1>9. Coming(c)'
  BY <1>2, <1>8, HeldTypes DEF Coming
<1>10. WindowsRight(c)'
  <2> SUFFICES ASSUME NEW q \in Pids, window'[q] # NoWindow
               PROVE  window'[q].owner = c /\ Accounted(c, q)'
    BY DEF WindowsRight
  <2>1. CASE q = p
    <3>1. \A x \in Pids : ~Starting(x, role)
      BY <1>0, ZenonT(30), ZenonT(60) DEF WindowsRight, Accounted, Starting
    <3>2. \A m \in Msgs(queue[c]) : m.role # role
      BY DEF QueueRight
    <3>3. /\ window'[p].at = "starting" /\ window'[p].role = role /\ window'[p].owner = c
          /\ window'[p].group = proc'[c].group
      BY ONLY <1>3, proc'[c].group = proc[c].group
    <3>4. role \in Awaited(c)' /\ \A m \in Msgs(queue'[c]) : m.role # role
      BY <3>2, ZenonT(30), ZenonT(60)
    <3>5. \A x \in Pids : Starting(x, role)' => x = p
      BY <1>8, <3>1, ZenonT(30), ZenonT(60)
    <3> QED BY ONLY <2>1, <3>3, <3>4, <3>5, ZenonT(30), ZenonT(60) DEF Accounted
  <2>2. CASE q # p
    <3>1. window'[q] = window[q] /\ window[q].owner = c /\ Accounted(c, q) /\ window[q].role \in ChatRole
      BY <1>3, <2>2, HeldTypes DEF WindowsRight
    <3>2. CASE window[q].at = "starting"
      <4>1. window[q].role \in Awaited(c) /\ window[q].role # role
        BY <3>1, <3>2, ZenonT(30), ZenonT(60) DEF Accounted
      <4> QED BY <1>8, <3>1, <3>2, <4>1 DEF Accounted
    <3>3. CASE window[q].at = "running"
      BY <3>1, <3>3 DEF Accounted
    <3> QED BY <3>1, <3>2, <3>3, ZenonT(30), ZenonT(60) DEF Accounted
  <2> QED BY <2>1, <2>2
<1> QED BY <1>5, <1>6, <1>7, <1>9, <1>10

\* A spawn that does not count as a fault starts the window.
LEMMA NoSpawnFailure ==
  ASSUME Types, faults' = 0
  PROVE  ~SpawnFails
  BY FaultSeen, GroupWindowsAssumption DEF SpawnFails

\* The receiver is the first window to wait for.
LEMMA ReceiverFaultless ==
  ASSUME Types, NEW c \in Clients, Faultless(c), faults' = 0, SpawnReceiver(c)
  PROVE  Faultless(c)'
<1>1. /\ SpawnWindow(c, "CHAT_ROLE_RECEIVER") /\ proc' = [proc EXCEPT ![c].at = "spawnSender"]
      /\ proc[c].at = "spawnReceiver" /\ UNCHANGED <<tracked, hasMap, queue, name>>
  BY NoSpawnFailure DEF SpawnReceiver
<1>2. /\ proc'[c].at = "spawnSender" /\ proc'[c].pids = proc[c].pids /\ proc'[c].group = proc[c].group
  BY <1>1 DEF Types, ProcType
<1>3. proc[c].pids = NoPids
  BY <1>1 DEF Faultless, InOrder
<1>4. Awaited(c) = {} /\ Awaited(c)' = {"CHAT_ROLE_RECEIVER"}
  BY <1>1, <1>2, <1>3 DEF Awaited, Spawned, ChatRole, NoPids
<1>5. InOrder(c)'
  BY <1>1, <1>2 DEF InOrder, Faultless
<1>6. Held(c)'
  BY <1>1, <1>2, <1>4, SpawnFiled DEF Held, Faultless, ChatRole
<1> QED BY <1>5, <1>6 DEF Held, Faultless

\* The sender is the second; the receiver may have reported by then.
LEMMA SenderFaultless ==
  ASSUME Types, NEW c \in Clients, Faultless(c), faults' = 0, SpawnSender(c)
  PROVE  Faultless(c)'
<1>1. /\ SpawnWindow(c, "CHAT_ROLE_SENDER") /\ proc' = [proc EXCEPT ![c].at = "collectFirst"]
      /\ proc[c].at = "spawnSender" /\ UNCHANGED <<tracked, hasMap, queue, name>>
  BY NoSpawnFailure, FaultSeen DEF SpawnSender
<1>2. /\ proc'[c].at = "collectFirst" /\ proc'[c].pids = proc[c].pids /\ proc'[c].group = proc[c].group
  BY <1>1 DEF Types, ProcType
<1>3. proc[c].pids = NoPids
  BY <1>1 DEF Faultless, InOrder
<1>4. Awaited(c) = {"CHAT_ROLE_RECEIVER"} /\ Awaited(c)' = {"CHAT_ROLE_RECEIVER", "CHAT_ROLE_SENDER"}
  BY <1>1, <1>2, <1>3 DEF Awaited, Spawned, ChatRole, NoPids
<1>5. InOrder(c)'
  BY <1>1, <1>2 DEF InOrder, Faultless
<1>6. Held(c)'
  BY <1>1, <1>2, <1>4, SpawnFiled DEF Held, Faultless, ChatRole
<1> QED BY <1>5, <1>6 DEF Held, Faultless

\* A window that has still to report finds the client's queue under the name, and no
\* report of its role in it.
LEMMA ReportFaultless ==
  ASSUME Types, NEW c \in Clients, Faultless(c), NEW p \in Pids, ChatIpc_ReportPid(p)
  PROVE  Faultless(c)'
<1> USE DEF Held
<1> DEFINE m == [role |-> window[p].role, pid |-> p]
<1>0. NoWindow.at = "none"
  BY DEF NoWindow
<1>1. /\ window[p].at = "starting" /\ window' = [window EXCEPT ![p].at = "running"]
      /\ UNCHANGED <<proc, tracked, hasMap, name>>
  BY DEF ChatIpc_ReportPid
<1>2. /\ window[p].owner = c /\ window[p].role \in Awaited(c) /\ window[p].group = proc[c].group
      /\ \A x \in Msgs(queue[c]) : x.role # window[p].role
      /\ \A q \in Pids : Starting(q, window[p].role) => q = p
  BY <1>0, <1>1, ZenonT(30), ZenonT(60) DEF Faultless, WindowsRight, Accounted
<1>3. name = c
  BY <1>2 DEF Faultless, InOrder, Awaited, Spawned
<1>4. queue'[c] = Append(queue[c], m)
  BY <1>3, GroupWindowsAssumption DEF ChatIpc_ReportPid, Types, QueueType
<1>5. m \in Msg /\ queue[c] \in Seq(Msg) /\ m.role = window[p].role /\ m.pid = p
  BY HeldTypes, ZenonT(30), ZenonT(60) DEF Msg, Types, QueueType
<1>6. UniqueRoles(queue[c])' /\ Msgs(queue[c])' = Msgs(queue[c]) \cup {m}
  <2> HIDE DEF m
  <2>1. UniqueRoles(queue[c]) /\ \A x \in Msgs(queue[c]) : x.role # m.role
    BY <1>2, <1>5 DEF Faultless, QueueRight
  <2> QED BY <1>4, <1>5, <2>1, AppendMsgs
<1>7. /\ window'[p] = [window[p] EXCEPT !.at = "running"]
      /\ \A q \in Pids : q # p => window'[q] = window[q]
  BY <1>1 DEF Types, WindowType
<1>8. window'[p] = Running(c, proc[c].group, window[p].role)
  BY <1>2, <1>7, HeldTypes DEF Running, Windows
<1>9. window'[p].at = "running" /\ window'[p].role = window[p].role /\ window'[p].group = proc[c].group
      /\ window'[p].owner = c
  BY <1>8 DEF Running
<1>10. Awaited(c)' = Awaited(c)
  BY <1>1 DEF Awaited, Spawned
<1> HIDE DEF m
<1>11. InOrder(c)'
  BY <1>1 DEF InOrder, Faultless
<1>12. \A g, r : window[p] \notin {NoWindow, Running(c, g, r)}
  BY <1>0, <1>1 DEF Running
<1>13. MapRight(c)'
  BY <1>1, <1>7, <1>12 DEF MapRight, Faultless, Running
<1>14. PairRight(c)'
  <2> SUFFICES ASSUME NEW r \in ChatRole, proc[c].pids[r] # NoPid
               PROVE  window'[proc[c].pids[r]] \in {NoWindow, Running(c, proc[c].group, r)}
    BY <1>1 DEF PairRight, Running
  <2>1. proc[c].pids[r] \in Pids
    BY HeldTypes
  <2>2. window[proc[c].pids[r]] \in {NoWindow, Running(c, proc[c].group, r)}
    BY DEF Faultless, PairRight
  <2> QED BY <1>7, <1>12, <2>1, <2>2
<1>15. QueueRight(c)'
  <2> SUFFICES ASSUME NEW x \in Msgs(queue[c])'
               PROVE  /\ x.role \in Awaited(c)
                      /\ window'[x.pid] \in {NoWindow, Running(c, proc[c].group, x.role)}
    BY <1>1, <1>6, <1>10 DEF QueueRight, Running
  <2>1. CASE x = m
    BY <1>2, <1>5, <1>8, <2>1
  <2>2. CASE x \in Msgs(queue[c])
    BY <1>7, <1>12, <2>2, HeldTypes DEF Faultless, QueueRight
  <2> QED BY <1>6, <2>1, <2>2
<1>16. \A q \in Pids, r \in ChatRole : Starting(q, r)' <=> Starting(q, r) /\ q # p
  <2> SUFFICES ASSUME NEW q \in Pids, NEW r \in ChatRole PROVE Starting(q, r)' <=> Starting(q, r) /\ q # p
    OBVIOUS
  <2> QED BY <1>7, <1>9, ZenonT(30), ZenonT(60) DEF Starting
<1>17. Coming(c)'
  <2> SUFFICES ASSUME NEW r \in Awaited(c)
               PROVE  (\E x \in Msgs(queue[c])' : x.role = r) \/ (\E q \in Pids : Starting(q, r)')
    BY <1>10 DEF Coming
  <2>1. CASE r = window[p].role
    BY <1>5, <1>6, <2>1
  <2>2. CASE r # window[p].role
    <3>1. r \in ChatRole /\ ~Starting(p, r)
      BY <2>2, HeldTypes DEF Starting
    <3>2. (\E x \in Msgs(queue[c]) : x.role = r) \/ (\E q \in Pids : Starting(q, r))
      BY DEF Faultless, Coming
    <3> QED BY <1>6, <1>16, <3>1, <3>2
  <2> QED BY <2>1, <2>2
<1>18. WindowsRight(c)'
  <2> SUFFICES ASSUME NEW q \in Pids, window'[q] # NoWindow
               PROVE  window'[q].owner = c /\ Accounted(c, q)'
    BY DEF WindowsRight
  <2>1. CASE q = p
    BY <1>1, <1>6, <1>9, <2>1 DEF Accounted, m
  <2>2. CASE q # p
    <3>1. /\ window'[q] = window[q] /\ window[q].owner = c
          /\ Accounted(c, q) /\ window[q].role \in ChatRole
      BY <1>7, <2>2, HeldTypes DEF Faultless, WindowsRight
    <3>2. CASE window[q].at = "starting"
      <4>1. window[q].role # window[p].role
        BY <1>2, <2>2, <3>2 DEF Starting
      <4> QED BY <1>1, <1>5, <1>6, <1>10, <1>16, <3>1, <3>2, <4>1 DEF Accounted
    <3>3. CASE window[q].at = "running"
      BY <1>1, <1>6, <3>1, <3>3 DEF Accounted
    <3> QED BY <3>1, <3>2, <3>3, ZenonT(30), ZenonT(60) DEF Accounted
  <2> QED BY <2>1, <2>2
<1> QED BY <1>11, <1>13, <1>14, <1>15, <1>17, <1>18 DEF Faultless

\* What CollectPid knows of the PID it reads.
LEMMA HeadRight ==
  ASSUME Types, NEW c \in Clients, Faultless(c), queue[c] # << >>,
         NEW m, m = Head(queue[c])
  PROVE  /\ m \in Msg /\ m \in Msgs(queue[c]) /\ m.role \in Awaited(c)
         /\ m.role \in ChatRole /\ m.pid \in Pids
         /\ window[m.pid] \in {NoWindow, Running(c, proc[c].group, m.role)}
         /\ UniqueRoles(Tail(queue[c]))
         /\ Msgs(Tail(queue[c])) = {x \in Msgs(queue[c]) : x.role # m.role}
         /\ \A x \in Msgs(queue[c]) : x.role = m.role => x = m
<1>1. queue[c] \in Seq(Msg) /\ UniqueRoles(queue[c])
  BY DEF Types, QueueType, Faultless, QueueRight
<1>2. /\ m \in Msgs(queue[c]) /\ UniqueRoles(Tail(queue[c]))
      /\ Msgs(Tail(queue[c])) = {x \in Msgs(queue[c]) : x.role # m.role}
  BY <1>1, TailMsgs
<1>3. \A x \in Msgs(queue[c]) : x.role = m.role => x = m
  BY <1>1, <1>2 DEF Msgs, UniqueRoles
<1> QED BY <1>2, <1>3, HeldTypes DEF Faultless, QueueRight

\* The first PID goes into the pair.
LEMMA FirstFaultless ==
  ASSUME Types, NEW c \in Clients, Faultless(c), CollectPid(c), proc[c].at = "collectFirst"
  PROVE  Faultless(c)'
<1> USE DEF Held
<1>0. NoWindow.at = "none" /\ NoPid \notin Pids
  BY GroupWindowsAssumption DEF NoWindow
<1>1. PICK m : m = Head(queue[c])
  OBVIOUS
<1>2. /\ m \in Msg /\ m \in Msgs(queue[c]) /\ m.role \in Awaited(c)
      /\ m.role \in ChatRole /\ m.pid \in Pids
      /\ window[m.pid] \in {NoWindow, Running(c, proc[c].group, m.role)}
      /\ UniqueRoles(Tail(queue[c]))
      /\ Msgs(Tail(queue[c])) = {x \in Msgs(queue[c]) : x.role # m.role}
      /\ \A x \in Msgs(queue[c]) : x.role = m.role => x = m
  <2>1. queue[c] # << >>
    BY DEF CollectPid
  <2> QED BY <1>1, <2>1, HeadRight
<1>3. /\ proc' = [proc EXCEPT ![c].at = "collectSecond",
                            ![c].pids = [proc[c].pids EXCEPT ![m.role] = m.pid]]
      /\ queue' = [queue EXCEPT ![c] = Tail(@)]
      /\ UNCHANGED <<tracked, window, hasMap, name>>
  BY <1>1 DEF CollectPid, FilePid
<1>4. /\ proc'[c].at = "collectSecond" /\ proc'[c].group = proc[c].group
      /\ proc'[c].pids = [proc[c].pids EXCEPT ![m.role] = m.pid]
      /\ queue'[c] = Tail(queue[c])
  BY <1>3 DEF Types, ProcType, QueueType
<1>5. window' = window /\ tracked' = tracked
  BY <1>3
<1>6. proc[c].pids = NoPids /\ \A r \in ChatRole : proc[c].pids[r] = NoPid
  BY DEF Faultless, InOrder, NoPids
<1>7. proc'[c].pids[m.role] = m.pid /\ \A r \in ChatRole : r # m.role => proc'[c].pids[r] = NoPid
  BY <1>2, <1>4, <1>6 DEF NoPids
<1>8. Awaited(c) = ChatRole /\ Awaited(c)' = ChatRole \ {m.role}
  BY <1>0, <1>2, <1>4, <1>6, <1>7 DEF Awaited, Spawned
<1>9. Msgs(queue[c])' = {x \in Msgs(queue[c]) : x.role # m.role} /\ UniqueRoles(queue[c])'
  BY <1>2, <1>4
<1>10. InOrder(c)'
  <2>1. \/ m.role = "CHAT_ROLE_SENDER" /\ proc'[c].pids["CHAT_ROLE_RECEIVER"] = NoPid
        \/ m.role = "CHAT_ROLE_RECEIVER" /\ proc'[c].pids["CHAT_ROLE_SENDER"] = NoPid
    BY <1>2, <1>7 DEF ChatRole
  <2> QED BY <1>0, <1>2, <1>3, <1>4, <1>7, <2>1 DEF InOrder, Faultless
<1>11. MapRight(c)'
  BY <1>5 DEF MapRight, Faultless, Running
<1>12. PairRight(c)'
  BY <1>2, <1>4, <1>5, <1>7 DEF PairRight, Running
<1>13. QueueRight(c)'
  BY <1>4, <1>5, <1>8, <1>9, HeldTypes, ZenonT(30), ZenonT(60) DEF QueueRight, Faultless, Running
<1>14. Coming(c)'
  BY <1>5, <1>8, <1>9 DEF Coming, Faultless, Starting
<1>15. WindowsRight(c)'
  <2> SUFFICES ASSUME NEW q \in Pids, window[q] # NoWindow
               PROVE  window[q].owner = c /\ Accounted(c, q)'
    BY <1>5 DEF WindowsRight
  <2>1. window[q].owner = c /\ Accounted(c, q) /\ window[q].role \in ChatRole
    BY HeldTypes DEF Faultless, WindowsRight
  <2>2. CASE window[q].at = "starting"
    <3>1. window[q].role # m.role
      BY <1>2, <2>1, <2>2 DEF Accounted
    <3> QED BY <1>4, <1>5, <1>8, <1>9, <2>1, <2>2, <3>1, ZenonT(30), ZenonT(60) DEF Accounted, Starting
  <2>3. CASE window[q].at = "running"
    <3>1. CASE window[q].group \in DOMAIN tracked[c] /\ tracked[c][window[q].group][window[q].role] = q
      BY <1>5, <2>1, <2>3, <3>1, ZenonT(30), ZenonT(60) DEF Accounted
    <3>2. CASE window[q].group = proc[c].group /\ [role |-> window[q].role, pid |-> q] \in Msgs(queue[c])
      <4> DEFINE x == [role |-> window[q].role, pid |-> q]
      <4>1. x.role = window[q].role /\ x.pid = q /\ x \in Msgs(queue[c])
        BY <3>2
      <4>2. CASE window[q].role = m.role
        <5>1. x = m
          BY <1>2, <4>1, <4>2
        <5> QED BY <1>4, <1>5, <1>7, <2>1, <2>3, <3>2, <4>1, <4>2, <5>1 DEF Accounted
      <4>3. CASE window[q].role # m.role
        BY <1>4, <1>5, <1>9, <2>1, <2>3, <3>2, <4>1, <4>3, ZenonT(30), ZenonT(60) DEF Accounted
      <4> QED BY <4>2, <4>3
    <3> QED BY <1>0, <1>6, <2>1, <2>3, <3>1, <3>2, ZenonT(30), ZenonT(60) DEF Accounted
  <2> QED BY <2>1, <2>2, <2>3, ZenonT(30), ZenonT(60) DEF Accounted
<1> QED BY <1>10, <1>11, <1>12, <1>13, <1>14, <1>15 DEF Faultless

\* The second PID completes the pair, which is tracked; nothing is left to wait for.
LEMMA SecondFaultless ==
  ASSUME Types, NEW c \in Clients, Faultless(c), faults' = 0, CollectPid(c),
         proc[c].at = "collectSecond"
  PROVE  Faultless(c)'
<1> USE DEF Held
<1>0. NoWindow.at = "none" /\ NoPid \notin Pids
  BY GroupWindowsAssumption DEF NoWindow
<1>1. PICK m : m = Head(queue[c])
  OBVIOUS
<1>2. /\ m \in Msg /\ m \in Msgs(queue[c]) /\ m.role \in Awaited(c)
      /\ m.role \in ChatRole /\ m.pid \in Pids
      /\ window[m.pid] \in {NoWindow, Running(c, proc[c].group, m.role)}
      /\ UniqueRoles(Tail(queue[c]))
      /\ Msgs(Tail(queue[c])) = {x \in Msgs(queue[c]) : x.role # m.role}
      /\ \A x \in Msgs(queue[c]) : x.role = m.role => x = m
  <2>1. queue[c] # << >>
    BY DEF CollectPid
  <2> QED BY <1>1, <2>1, HeadRight
<1>3. PICK pair : pair = [proc[c].pids EXCEPT ![m.role] = m.pid]
  BY ZenonT(30), ZenonT(60)
<1>4. hasMap[c]
  BY ZenonT(30), ZenonT(60) DEF Faultless, InOrder
<1>5. /\ proc' = [proc EXCEPT ![c] = [Off EXCEPT !.at = "idle"]]
      /\ tracked' = [tracked EXCEPT ![c] = HashMap_Insert(@, proc[c].group, pair)]
      /\ queue' = [queue EXCEPT ![c] = Tail(@)]
      /\ UNCHANGED <<window, hasMap, name>>
  BY <1>1, <1>3, <1>4, FaultSeen DEF CollectPid, FilePid
<1>6. /\ proc'[c].at = "idle" /\ proc'[c].pids = NoPids /\ proc'[c].group = NoGroup
      /\ tracked'[c] = HashMap_Insert(tracked[c], proc[c].group, pair)
      /\ queue'[c] = Tail(queue[c])
  BY <1>5 DEF Types, ProcType, QueueType, MapType, Off
<1>7. /\ DOMAIN tracked'[c] = DOMAIN tracked[c] \cup {proc[c].group}
      /\ tracked'[c][proc[c].group] = pair
      /\ proc[c].group \notin DOMAIN tracked[c]
      /\ \A g \in DOMAIN tracked[c] : tracked'[c][g] = tracked[c][g]
  BY <1>6 DEF HashMap_Insert, Faultless, InOrder
<1>8. proc[c].pids[m.role] = NoPid
  BY <1>2 DEF Awaited
<1>9. /\ pair[m.role] = m.pid
      /\ \A r \in ChatRole : r # m.role => pair[r] = proc[c].pids[r] /\ proc[c].pids[r] # NoPid
      /\ \A r \in ChatRole : pair[r] \in Pids
  <2>1. /\ pair[m.role] = m.pid
        /\ \A r \in ChatRole : r # m.role => pair[r] = proc[c].pids[r]
    BY <1>2, <1>3 DEF Types, ProcType, GroupPids
  <2>2. \A r \in ChatRole : r # m.role => proc[c].pids[r] # NoPid
    BY <1>2, <1>8 DEF Faultless, InOrder, ChatRole
  <2> QED BY <1>2, <2>1, <2>2, HeldTypes
<1>10. Awaited(c) \subseteq {m.role} /\ Awaited(c)' = {}
  BY <1>6, <1>9 DEF Awaited, Spawned
<1>11. Msgs(queue[c]) = {m} /\ Msgs(queue[c])' = {} /\ UniqueRoles(queue[c])'
  BY <1>2, <1>6, <1>10, ZenonT(30), ZenonT(60) DEF Faultless, QueueRight
<1>12. ASSUME NEW q \in Pids, window[q] # NoWindow PROVE window[q].at = "running"
  BY <1>0, <1>2, <1>10, <1>12, ZenonT(30), ZenonT(60) DEF Faultless, WindowsRight, Accounted
<1>13. InOrder(c)'
  BY <1>5, <1>6 DEF InOrder, Faultless
<1>14. MapRight(c)'
  <2> SUFFICES ASSUME NEW g \in DOMAIN tracked'[c], NEW r \in ChatRole
               PROVE  /\ tracked'[c][g][r] \in Pids
                      /\ window[tracked'[c][g][r]] \in {NoWindow, Running(c, g, r)}
    BY <1>5 DEF MapRight, Running
  <2>1. CASE g \in DOMAIN tracked[c]
    BY <1>7, <2>1, ZenonT(30), ZenonT(60) DEF Faultless, MapRight
  <2>2. CASE g = proc[c].group
    BY <1>2, <1>7, <1>9, <2>2, ZenonT(30), ZenonT(60) DEF Faultless, PairRight
  <2> QED BY <1>7, <2>1, <2>2
<1>15. PairRight(c)'
  BY <1>6 DEF PairRight, NoPids
<1>16. QueueRight(c)'
  BY <1>11 DEF QueueRight
<1>17. Coming(c)'
  BY <1>10 DEF Coming
<1>18. WindowsRight(c)'
  <2> SUFFICES ASSUME NEW q \in Pids, window[q] # NoWindow
               PROVE  window[q].owner = c /\ Accounted(c, q)'
    BY <1>5 DEF WindowsRight
  <2>1. window[q].owner = c /\ Accounted(c, q) /\ window[q].role \in ChatRole /\ window[q].at = "running"
    BY <1>12, HeldTypes, ZenonT(30), ZenonT(60) DEF Faultless, WindowsRight
  <2>2. CASE window[q].group \in DOMAIN tracked[c] /\ tracked[c][window[q].group][window[q].role] = q
    BY <1>5, <1>7, <2>1, <2>2 DEF Accounted
  <2>3. CASE window[q].group = proc[c].group /\ proc[c].pids[window[q].role] = q
    <3>1. window[q].role # m.role
      BY <1>0, <1>8, <2>3, ZenonT(30), ZenonT(60)
    <3> QED BY <1>5, <1>7, <1>9, <2>1, <2>3, <3>1 DEF Accounted
  <2>4. CASE window[q].group = proc[c].group /\ [role |-> window[q].role, pid |-> q] \in Msgs(queue[c])
    <3>1. window[q].role = m.role /\ q = m.pid
      BY <1>11, <2>4
    <3> QED BY <1>5, <1>7, <1>9, <2>1, <2>4, <3>1 DEF Accounted
  <2> QED BY <2>1, <2>2, <2>3, <2>4, ZenonT(30), ZenonT(60) DEF Accounted
<1> QED BY <1>13, <1>14, <1>15, <1>16, <1>17, <1>18 DEF Faultless

\* Nobody waits in vain without a fault.
LEMMA TimeoutIsFault ==
  ASSUME Types, NEW c \in Clients, Faultless(c), CollectTimeout(c)
  PROVE  faults' # 0
<1>1. proc[c].at \in {"collectFirst", "collectSecond"} /\ queue[c] = << >>
  BY DEF CollectTimeout
<1>2. name = c
  BY <1>1 DEF Faultless, InOrder
<1>3. PICK role \in ChatRole : proc[c].pids[role] = NoPid
  BY <1>1 DEF Faultless, InOrder, NoPids, ChatRole
<1>4. role \in Awaited(c)
  BY <1>1, <1>3 DEF Awaited, Spawned
<1>5. \E p \in Pids : window[p].at = "starting"
  BY <1>1, <1>4, NoMsgs DEF Faultless, Coming, Starting
<1>6. Fault
  BY <1>2, <1>5 DEF CollectTimeout
<1> QED BY <1>6, FaultSeen

\* A client that is alone on its host keeps its windows in order until something fails.
Orderly == faults = 0 => \A c \in Clients : Faultless(c)

\* One client runs on the host.
Alone == \A c, d \in Clients : c = d

\* A step counts a fault or leaves the count alone.
LEMMA FaultsCount ==
  ASSUME Next
  PROVE  Fault \/ UNCHANGED faults
<1>1. ASSUME NEW c \in Clients, NEW g \in Groups, GroupWindows_Open(c, g) \/ GroupWindows_Close(c, g)
      PROVE  UNCHANGED faults
  BY <1>1 DEF GroupWindows_Open, GroupWindows_Close
<1>2. ASSUME NEW c \in Clients, SpawnReceiver(c) \/ SpawnSender(c) PROVE Fault \/ UNCHANGED faults
  BY <1>2 DEF SpawnReceiver, SpawnSender, SpawnFails
<1>3. ASSUME NEW c \in Clients, CollectPid(c) \/ CollectTimeout(c) PROVE Fault \/ UNCHANGED faults
  BY <1>3 DEF CollectPid, CollectTimeout
<1>4. ASSUME NEW c \in Clients, \/ GroupWindows_Create(c) \/ GroupWindows_CloseAll(c)
                                \/ GroupWindows_Destroy(c) \/ Crash(c)
      PROVE  Fault \/ UNCHANGED faults
  BY <1>4 DEF GroupWindows_Create, GroupWindows_CloseAll, GroupWindows_Destroy, Crash
<1>5. ASSUME NEW p \in Pids, ChatIpc_ReportPid(p) \/ WindowEnds(p) PROVE Fault \/ UNCHANGED faults
  BY <1>5 DEF ChatIpc_ReportPid, WindowEnds
<1> QED BY <1>1, <1>2, <1>3, <1>4, <1>5 DEF Next, OpenStep

\* Every step.
LEMMA OrderlyStep ==
  ASSUME Types, Alone, Orderly, Next
  PROVE  Orderly'
<1> SUFFICES ASSUME faults' = 0, NEW c \in Clients PROVE Faultless(c)'
  BY DEF Orderly
<1>1. Faultless(c)
  <2>1. faults \in Nat /\ (faults' = faults \/ faults' = faults + 1)
    BY FaultsCount, GroupWindowsAssumption DEF Types, WindowType, Fault
  <2>2. faults = 0
    BY <2>1
  <2> QED BY <2>2 DEF Orderly
<1>2. ASSUME GroupWindows_Create(c) PROVE Faultless(c)'
  BY <1>1, <1>2, CreateFaultless
<1>3. ASSUME NEW g \in Groups, GroupWindows_Open(c, g) PROVE Faultless(c)'
  BY <1>1, <1>3, OpenFaultless
<1>4. ASSUME NEW g \in Groups, GroupWindows_Close(c, g) PROVE Faultless(c)'
  BY <1>1, <1>4, CloseFaultless
<1>5. ASSUME SpawnReceiver(c) PROVE Faultless(c)'
  BY <1>1, <1>5, ReceiverFaultless
<1>6. ASSUME SpawnSender(c) PROVE Faultless(c)'
  BY <1>1, <1>6, SenderFaultless
<1>7. ASSUME CollectPid(c) PROVE Faultless(c)'
  <2>1. proc[c].at = "collectFirst" \/ proc[c].at = "collectSecond"
    BY <1>7 DEF CollectPid
  <2> QED BY <1>1, <1>7, <2>1, FirstFaultless, SecondFaultless
<1>8. ASSUME CollectTimeout(c) PROVE FALSE
  BY <1>1, <1>8, TimeoutIsFault
<1>9. ASSUME GroupWindows_CloseAll(c) \/ GroupWindows_Destroy(c) PROVE Faultless(c)'
  BY <1>1, <1>9, CloseAllFaultless
<1>10. ASSUME Crash(c) PROVE FALSE
  BY <1>10, FaultSeen DEF Crash
<1>11. ASSUME NEW p \in Pids, ChatIpc_ReportPid(p) PROVE Faultless(c)'
  BY <1>1, <1>11, ReportFaultless
<1>12. ASSUME NEW p \in Pids, WindowEnds(p) PROVE Faultless(c)'
  BY <1>1, <1>12, EndFaultless
<1>13. \A d \in Clients : d = c
  BY DEF Alone
<1> QED
  BY <1>2, <1>3, <1>4, <1>5, <1>6, <1>7, <1>8, <1>9, <1>10, <1>11, <1>12, <1>13 DEF Next, OpenStep

\* At first no client runs.
LEMMA InitOrderly ==
  ASSUME Init
  PROVE  Orderly
<1> SUFFICES ASSUME NEW c \in Clients PROVE Faultless(c)
  BY DEF Orderly
<1>1. /\ proc[c] = Off /\ tracked[c] = HashMap_Create /\ hasMap[c] = FALSE /\ queue[c] = << >>
      /\ name = NoClient /\ \A p \in Pids : window[p] = NoWindow
  BY DEF Init
<1>2. proc[c].at = "off" /\ proc[c].pids = NoPids /\ DOMAIN tracked[c] = {}
  BY <1>1, Constants DEF Off
<1>3. Awaited(c) = {}
  BY <1>2 DEF Awaited, Spawned
<1>4. InOrder(c) /\ MapRight(c)
  BY <1>1, <1>2, ZenonT(30), ZenonT(60) DEF InOrder, MapRight
<1>5. PairRight(c) /\ QueueRight(c) /\ Coming(c)
  BY <1>1, <1>2, <1>3, NoMsgs DEF PairRight, QueueRight, Coming, NoPids
<1>6. WindowsRight(c)
  BY <1>1 DEF WindowsRight
<1> QED BY <1>4, <1>5, <1>6 DEF Faultless

\* Orderly holds as long as the client is alone.
LEMMA OrderlyInvariance ==
  ASSUME Alone
  PROVE  Spec => [](Types /\ Orderly)
<1>1. Orderly /\ UNCHANGED vars => Orderly'
  <2> SUFFICES ASSUME Orderly, UNCHANGED vars PROVE Orderly'
    OBVIOUS
  <2>1. ASSUME NEW c \in Clients PROVE Faultless(c)' <=> Faultless(c)
    <3> USE DEF vars
    <3>1. Awaited(c)' = Awaited(c) /\ Msgs(queue[c])' = Msgs(queue[c])
      BY DEF Awaited, Spawned
    <3>2. InOrder(c)' <=> InOrder(c)
      BY DEF InOrder
    <3>3. (MapRight(c)' <=> MapRight(c)) /\ (PairRight(c)' <=> PairRight(c))
      BY DEF MapRight, PairRight, Running
    <3>4. (QueueRight(c)' <=> QueueRight(c)) /\ (Coming(c)' <=> Coming(c))
      BY <3>1 DEF QueueRight, Coming, UniqueRoles, Running, Starting
    <3>5. \A p \in Pids : Accounted(c, p)' <=> Accounted(c, p)
      BY <3>1 DEF Accounted, Starting
    <3>6. WindowsRight(c)' <=> WindowsRight(c)
      BY <3>5 DEF WindowsRight
    <3> QED BY <3>2, <3>3, <3>4, <3>6 DEF Faultless
  <2> QED BY <2>1 DEF vars, Orderly
<1>2. Types /\ Orderly /\ [Next]_vars => Orderly'
  BY <1>1, OrderlyStep
<1>3. Init => Orderly
  BY InitOrderly
<1> QED BY <1>2, <1>3, TypesInvariance, PTL DEF Spec

\* Two messages of different roles are all that fits: a window that has still to
\* report finds at most one.
LEMMA FewPending ==
  ASSUME Types, NEW c \in Clients, Faultless(c), NEW p \in Pids, window[p].at = "starting"
  PROVE  Len(queue[c]) < 2
<1>1. /\ \A m \in Msgs(queue[c]) : m.role \in ChatRole /\ m.role # window[p].role
      /\ window[p].role \in ChatRole
  <2>1. window[p] # NoWindow
    BY DEF NoWindow
  <2> QED BY <2>1, HeldTypes, ZenonT(30), ZenonT(60) DEF Faultless, WindowsRight, Accounted
<1>2. queue[c] \in Seq(Msg) /\ UniqueRoles(queue[c])
  BY DEF Types, QueueType, Faultless, QueueRight
<1>3. SUFFICES ASSUME Len(queue[c]) >= 2 PROVE FALSE
  BY <1>2
<1>4. 1 \in DOMAIN queue[c] /\ 2 \in DOMAIN queue[c]
  BY <1>2, <1>3
<1>5. queue[c][1].role = queue[c][2].role
  BY <1>1, <1>4 DEF Msgs, ChatRole
<1> QED BY <1>2, <1>4, <1>5 DEF UniqueRoles

\* OwnWindows for any number of groups and PIDs, any depth of the queue and any bound
\* on faults: in whichever order the two windows report, CollectPid files each PID
\* under its own group and role, or its window is gone.
THEOREM OwnWindowsCorrect == Alone => (Spec => []OwnWindows)
<1> SUFFICES ASSUME Alone PROVE Spec => []OwnWindows
  OBVIOUS
<1>1. Types /\ Orderly => OwnWindows
  <2> SUFFICES ASSUME Orderly, faults = 0, NEW c \in Clients,
                      NEW g \in DOMAIN tracked[c], NEW role \in ChatRole
               PROVE  /\ tracked[c][g][role] # NoPid
                      /\ window[tracked[c][g][role]] \in {NoWindow, Running(c, g, role)}
    BY ZenonT(30), ZenonT(60) DEF OwnWindows, Running
  <2> QED BY GroupWindowsAssumption DEF Orderly, Faultless, MapRight
<1> QED BY <1>1, OrderlyInvariance, PTL

\* NothingLeaks: between two calls every window of the client is in its map, so
\* GroupWindows_Close, _CloseAll and _Destroy reach it.
THEOREM NothingLeaksCorrect == Alone => (Spec => []NothingLeaks)
<1> SUFFICES ASSUME Alone PROVE Spec => []NothingLeaks
  OBVIOUS
<1>1. Types /\ Orderly => NothingLeaks
  <2> SUFFICES ASSUME Types, Orderly, faults = 0, NEW p \in Pids, NEW c \in Clients,
                      window[p].owner = c, proc[c].at \in {"idle", "off"}
               PROVE  \E g \in DOMAIN tracked[c] : p \in PidsOf(tracked[c][g])
    BY DEF NothingLeaks, Leaked
  <2>1. Faultless(c)
    BY DEF Orderly
  <2>2. /\ Awaited(c) = {} /\ proc[c].pids = NoPids /\ Msgs(queue[c]) = {}
    BY <2>1, NothingComing
  <2>3. window[p] # NoWindow
    BY GroupWindowsAssumption DEF NoWindow
  <2>4. Accounted(c, p) /\ window[p].role \in ChatRole
    BY <2>1, <2>3, HeldTypes DEF Faultless, WindowsRight
  <2>5. NoPids[window[p].role] # p
    BY <2>4, Constants
  <2>6. window[p].group \in DOMAIN tracked[c] /\ tracked[c][window[p].group][window[p].role] = p
    BY <2>2, <2>4, <2>5 DEF Accounted
  <2> QED BY <2>4, <2>6 DEF PidsOf
<1> QED BY <1>1, OrderlyInvariance, PTL

\* PendingAtMostTwo: a window about to report finds at most one PID in the queue, so
\* the two places of config.h are enough.
THEOREM PendingCorrect == Alone => (Spec => []PendingAtMostTwo)
<1> SUFFICES ASSUME Alone PROVE Spec => []PendingAtMostTwo
  OBVIOUS
<1>1. Types /\ Orderly => PendingAtMostTwo
  <2> SUFFICES ASSUME Types, Orderly, faults = 0, NEW p \in Pids,
                      window[p].at = "starting", name # NoClient
               PROVE  Len(queue[name]) < 2
    BY DEF PendingAtMostTwo
  <2>1. name \in Clients /\ Faultless(name)
    BY DEF Types, QueueType, Orderly
  <2> QED BY <2>1, FewPending
<1> QED BY <1>1, OrderlyInvariance, PTL

=============================================================================
