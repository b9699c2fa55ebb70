---------------------------- MODULE GroupWindows ----------------------------
(***************************************************************************)
(* Client/GroupWindows.c, ChatIpc.c and the start of ChatWindows/*.c: a    *)
(* client opens two windows for a group, a receiver and a sender. Each is  *)
(* a process of its own that first reports its PID over a POSIX message    *)
(* queue; the client reads two PIDs, files each by its role, and kills     *)
(* them when the group is left. A client is one thread and its windows run *)
(* beside it, so GroupWindows_Open is a step for every call that waits or  *)
(* starts a process. All clients of a host use one queue name.             *)
(*                                                                         *)
(* PIDs of live windows, and those some client still knows, are not given  *)
(* to new processes. What can go wrong is counted in "faults".             *)
(***************************************************************************)
EXTENDS HashMap, Naturals, Sequences

CONSTANTS
  Clients, NoClient,
  Groups, NoGroup,
  Pids, NoPid,      \* PIDs of windows, and the 0 of calloc()
  QueueDepth,       \* CONF_CHAT_PID_QUEUE_MAXMSG
  MaxFaults         \* bound: failed calls, late or dead windows, crashes

ASSUME GroupWindowsAssumption ==
  /\ NoClient \notin Clients /\ NoGroup \notin Groups /\ NoPid \notin Pids
  /\ QueueDepth \in Nat \ {0} /\ MaxFaults \in Nat \ {0}

VARIABLES
  proc,      \* proc[c]: where the client is, and the group and the pair of an Open under way
  tracked,   \* m_groups: group -> the PIDs of its windows
  hasMap,    \* m_groups is not NULL
  queue,     \* the queue each client created: the PIDs reported and not read
  name,      \* the client whose queue the name "/chat_pids" stands for
  window,    \* window[p]: the process with PID p
  faults

vars == <<proc, tracked, hasMap, queue, name, window, faults>>

ChatRole == {"CHAT_ROLE_SENDER", "CHAT_ROLE_RECEIVER"}

GroupPids == [ChatRole -> Pids \cup {NoPid}]

NoPids == [role \in ChatRole |-> NoPid]

Off == [at |-> "off", group |-> NoGroup, pids |-> NoPids]

NoWindow == [at |-> "none", role |-> "CHAT_ROLE_SENDER", group |-> NoGroup, owner |-> NoClient]

Init ==
  /\ proc = [c \in Clients |-> Off]
  /\ tracked = [c \in Clients |-> HashMap_Create]
  /\ hasMap = [c \in Clients |-> FALSE]
  /\ queue = [c \in Clients |-> << >>]
  /\ name = NoClient
  /\ window = [p \in Pids |-> NoWindow]
  /\ faults = 0

Fault == faults < MaxFaults /\ faults' = faults + 1

PidsOf(pair) == {pair[role] : role \in ChatRole}

\* The PIDs a client holds, or will read.
Known(c) ==
  PidsOf(proc[c].pids)
    \cup (UNION {PidsOf(tracked[c][g]) : g \in DOMAIN tracked[c]})
    \cup {queue[c][i].pid : i \in DOMAIN queue[c]}

\* Faulty: only the sender is killed.
KillSender(w, pairs) ==
  [p \in Pids |-> IF \E pair \in pairs : p = pair["CHAT_ROLE_SENDER"] THEN NoWindow ELSE w[p]]

\* KillPids for each of the pairs: SIGTERM to every PID that is set. A PID whose
\* window is gone is skipped (ESRCH).
KillPids(w, pairs) ==
  [p \in Pids |-> IF \E pair \in pairs : p \in PidsOf(pair) THEN NoWindow ELSE w[p]]

PairsOf(c) == {tracked[c][g] : g \in DOMAIN tracked[c]}

-----------------------------------------------------------------------------
(* The client.                                                             *)

\* The queue left by an earlier run is unlinked; the name is the new queue's.
GroupWindows_Create(c) ==
  /\ proc[c].at = "off"
  /\ proc' = [proc EXCEPT ![c].at = "idle"]
  /\ hasMap' = [hasMap EXCEPT ![c] = TRUE]
  /\ queue' = [queue EXCEPT ![c] = << >>]
  /\ name' = c
  /\ UNCHANGED <<tracked, window, faults>>

\* GroupWindows_Open up to the first spawn: an old pair of the group is closed.
GroupWindows_Open(c, g) ==
  /\ proc[c].at = "idle"
  /\ window' = KillPids(window, {tracked[c][h] : h \in DOMAIN tracked[c] \cap {g}})
  /\ tracked' = [tracked EXCEPT ![c] = HashMap_Remove(@, g)]
  /\ proc' = [proc EXCEPT ![c] = [at |-> "spawnReceiver", group |-> g, pids |-> NoPids]]
  /\ UNCHANGED <<hasMap, queue, name, faults>>

FreshPids == {p \in Pids : window[p] = NoWindow /\ \A d \in Clients : p \notin Known(d)}

SpawnWindow(c, role) ==
  \E p \in FreshPids :
    window' = [window EXCEPT ![p] = [at |-> "starting", role |-> role,
                                     group |-> proc[c].group, owner |-> c]]

\* system() reports a failure. Without a free PID it does so also when the bound on
\* faults is reached.
SpawnFails == Fault \/ (FreshPids = {} /\ faults = MaxFaults /\ UNCHANGED faults)

SpawnReceiver(c) ==
  /\ proc[c].at = "spawnReceiver"
  /\ \/ /\ SpawnWindow(c, "CHAT_ROLE_RECEIVER")
        /\ proc' = [proc EXCEPT ![c].at = "spawnSender"]
        /\ UNCHANGED faults
     \/ /\ SpawnFails                               \* GROUP_WINDOWS_SPAWN_FAILED
        /\ proc' = [proc EXCEPT ![c] = [Off EXCEPT !.at = "idle"]]
        /\ UNCHANGED window
  /\ UNCHANGED <<tracked, hasMap, queue, name>>

\* The sender's window and the calloc() of the pair: neither failure closes what
\* was opened so far.
SpawnSender(c) ==
  /\ proc[c].at = "spawnSender"
  /\ \/ /\ SpawnWindow(c, "CHAT_ROLE_SENDER")
        /\ proc' = [proc EXCEPT ![c].at = "collectFirst"]
        /\ UNCHANGED faults
     \/ /\ SpawnFails
        /\ proc' = [proc EXCEPT ![c] = [Off EXCEPT !.at = "idle"]]
        /\ UNCHANGED window
     \/ /\ Fault                                    \* GROUP_WINDOWS_ALLOC_FAILED
        /\ SpawnWindow(c, "CHAT_ROLE_SENDER")
        /\ proc' = [proc EXCEPT ![c] = [Off EXCEPT !.at = "idle"]]
  /\ UNCHANGED <<tracked, hasMap, queue, name>>

\* Faulty: the first PID is taken for the receiver's, the second for the sender's.
FileInOrder(c, msg) ==
  [proc[c].pids EXCEPT ![IF proc[c].at = "collectFirst" THEN "CHAT_ROLE_RECEIVER"
                                                         ELSE "CHAT_ROLE_SENDER"] = msg.pid]

\* CollectPid's filing of a PID, by the role in the message.
FilePid(c, msg) == [proc[c].pids EXCEPT ![msg.role] = msg.pid]

\* CollectPid when a PID is there. After the second the pair is tracked, or killed
\* when there is no memory for that.
CollectPid(c) ==
  LET pids == FilePid(c, Head(queue[c]))
  IN  /\ queue[c] # << >>
      /\ queue' = [queue EXCEPT ![c] = Tail(@)]
      /\ \/ /\ proc[c].at = "collectFirst"
            /\ proc' = [proc EXCEPT ![c].at = "collectSecond", ![c].pids = pids]
            /\ UNCHANGED <<tracked, window, faults>>
         \/ /\ proc[c].at = "collectSecond"
            /\ proc' = [proc EXCEPT ![c] = [Off EXCEPT !.at = "idle"]]
            /\ \/ /\ hasMap[c]
                  /\ tracked' = [tracked EXCEPT ![c] = HashMap_Insert(@, proc[c].group, pids)]
                  /\ UNCHANGED <<window, faults>>
               \/ /\ IF hasMap[c] THEN Fault ELSE UNCHANGED faults
                  /\ window' = KillPids(window, {pids})
                  /\ UNCHANGED tracked
      /\ UNCHANGED <<hasMap, name>>

\* Faulty: the second wait has no deadline.
TimeoutInFirst(c) ==
  /\ proc[c].at = "collectFirst"
  /\ queue[c] = << >>
  /\ IF name = c /\ \E p \in Pids : window[p].at = "starting" THEN Fault ELSE UNCHANGED faults
  /\ proc' = [proc EXCEPT ![c] = [Off EXCEPT !.at = "idle"]]
  /\ UNCHANGED <<tracked, hasMap, queue, name, window>>

\* CollectPid when five seconds pass with an empty queue: because no window is left
\* that could still report, or because one is slow. What did report is killed.
CollectTimeout(c) ==
  /\ proc[c].at \in {"collectFirst", "collectSecond"}
  /\ queue[c] = << >>
  /\ IF name = c /\ \E p \in Pids : window[p].at = "starting" THEN Fault ELSE UNCHANGED faults
  /\ window' = KillPids(window, {proc[c].pids})
  /\ proc' = [proc EXCEPT ![c] = [Off EXCEPT !.at = "idle"]]
  /\ UNCHANGED <<tracked, hasMap, queue, name>>

\* Of a group that has windows; another is GROUP_WINDOWS_NOT_FOUND.
GroupWindows_Close(c, g) ==
  /\ proc[c].at = "idle"
  /\ g \in DOMAIN tracked[c]
  /\ window' = KillPids(window, {tracked[c][g]})
  /\ tracked' = [tracked EXCEPT ![c] = HashMap_Remove(@, g)]
  /\ UNCHANGED <<proc, hasMap, queue, name, faults>>

\* The map is destroyed and created again, which may fail.
GroupWindows_CloseAll(c) ==
  /\ proc[c].at = "idle"
  /\ window' = KillPids(window, PairsOf(c))
  /\ tracked' = [tracked EXCEPT ![c] = HashMap_Create]
  /\ \/ hasMap' = [hasMap EXCEPT ![c] = TRUE] /\ UNCHANGED faults
     \/ hasMap' = [hasMap EXCEPT ![c] = FALSE] /\ Fault
  /\ UNCHANGED <<proc, queue, name>>

\* The name is unlinked, whosever queue it stands for by now.
GroupWindows_Destroy(c) ==
  /\ proc[c].at = "idle"
  /\ window' = KillPids(window, PairsOf(c))
  /\ tracked' = [tracked EXCEPT ![c] = HashMap_Create]
  /\ hasMap' = [hasMap EXCEPT ![c] = FALSE]
  /\ proc' = [proc EXCEPT ![c] = Off]
  /\ queue' = [queue EXCEPT ![c] = << >>]
  /\ name' = NoClient
  /\ UNCHANGED faults

\* The client is killed: its windows, and the queue with its name, stay.
Crash(c) ==
  /\ proc[c].at # "off"
  /\ Fault
  /\ proc' = [proc EXCEPT ![c] = Off]
  /\ tracked' = [tracked EXCEPT ![c] = HashMap_Create]
  /\ hasMap' = [hasMap EXCEPT ![c] = FALSE]
  /\ UNCHANGED <<queue, name, window>>

-----------------------------------------------------------------------------
(* The windows.                                                            *)

\* Faulty: the PID is reported again once the socket is open.
ReportTwice(p) ==
  LET msg == [role |-> window[p].role, pid |-> p]
  IN  /\ window[p].at = "starting"
      /\ window' = [window EXCEPT ![p].at = "running"]
      /\ name # NoClient
      /\ Len(queue[name]) < QueueDepth
      /\ queue' = [queue EXCEPT ![name] = @ \o <<msg, msg>>]
      /\ UNCHANGED <<proc, tracked, hasMap, name, faults>>

\* ChatIpc_ReportPid. Without a queue of that name the window goes on unreported;
\* in a full one the report waits.
ChatIpc_ReportPid(p) ==
  /\ window[p].at = "starting"
  /\ window' = [window EXCEPT ![p].at = "running"]
  /\ \/ /\ name = NoClient
        /\ UNCHANGED queue
     \/ /\ name # NoClient
        /\ Len(queue[name]) < QueueDepth
        /\ queue' = [queue EXCEPT ![name] = Append(@, [role |-> window[p].role, pid |-> p])]
  /\ UNCHANGED <<proc, tracked, hasMap, name, faults>>

\* The user closes a window, or it ends because it has no multicast socket.
WindowEnds(p) ==
  /\ window[p].at # "none"
  /\ IF window[p].at = "starting" THEN Fault ELSE UNCHANGED faults
  /\ window' = [window EXCEPT ![p] = NoWindow]
  /\ UNCHANGED <<proc, tracked, hasMap, queue, name>>

OpenStep(c) == SpawnReceiver(c) \/ SpawnSender(c) \/ CollectPid(c) \/ CollectTimeout(c)

Next ==
  \/ \E c \in Clients :
       \/ GroupWindows_Create(c)
       \/ \E g \in Groups : GroupWindows_Open(c, g) \/ GroupWindows_Close(c, g)
       \/ OpenStep(c)
       \/ GroupWindows_CloseAll(c)
       \/ GroupWindows_Destroy(c)
       \/ Crash(c)
  \/ \E p \in Pids : ChatIpc_ReportPid(p) \/ WindowEnds(p)

Spec == Init /\ [][Next]_vars

\* The client's thread goes on, and a window that was started reports in the end.
FairSpec ==
  /\ Spec
  /\ \A c \in Clients : WF_vars(OpenStep(c))
  /\ \A p \in Pids : WF_vars(ChatIpc_ReportPid(p))

-----------------------------------------------------------------------------
(* Properties.                                                             *)

TypeOK ==
  /\ proc \in [Clients -> [at: {"off", "idle", "spawnReceiver", "spawnSender", "collectFirst",
                                "collectSecond"},
                           group: Groups \cup {NoGroup}, pids: GroupPids]]
  /\ \A c \in Clients :
       /\ DOMAIN tracked[c] \subseteq Groups
       /\ tracked[c] \in [DOMAIN tracked[c] -> GroupPids]
       /\ DOMAIN tracked[c] # {} => hasMap[c]
  /\ \A c \in Clients : queue[c] \in Seq([role: ChatRole, pid: Pids]) /\ Len(queue[c]) <= QueueDepth
  /\ name \in Clients \cup {NoClient}
  /\ window \in [Pids -> [at: {"none", "starting", "running"}, role: ChatRole,
                          group: Groups \cup {NoGroup}, owner: Clients \cup {NoClient}]]
  /\ faults \in 0 .. MaxFaults

\* When no call fails and no window is late, and one client runs on the host, the
\* PIDs filed for a group are its own sender and its own receiver, unless their
\* window is closed by now ("Spawn a sender + receiver window for a group and record
\* their PIDs", GroupWindows.h:44): in whichever order the two report, leaving a
\* group closes that group's windows.
OwnWindows ==
  faults = 0 =>
    \A c \in Clients : \A g \in DOMAIN tracked[c], role \in ChatRole :
      /\ tracked[c][g][role] # NoPid
      /\ window[tracked[c][g][role]] \in
           {NoWindow, [at |-> "running", role |-> role, group |-> g, owner |-> c]}

\* A window whose client is between two calls and does not track it.
Leaked(p) ==
  \E c \in Clients :
    /\ window[p].owner = c /\ proc[c].at \in {"idle", "off"}
    /\ \A g \in DOMAIN tracked[c] : p \notin PidsOf(tracked[c][g])

\* Under the same conditions every window of a client between two calls is tracked,
\* so leave, logout and exit close it: also after a group was opened twice, and when
\* the user closed one window of a pair (GroupWindows_Open, _Close, _CloseAll).
NothingLeaks == faults = 0 => \A p \in Pids : ~Leaked(p)

\* Under the same conditions a window that is about to report finds at most one PID
\* in the queue, so with two places none waits: "at most 2 PID messages (sender +
\* receiver) are ever pending before the client drains them", config.h:33.
PendingAtMostTwo ==
  faults = 0 =>
    \A p \in Pids : window[p].at = "starting" /\ name # NoClient => Len(queue[name]) < 2

\* The PIDs that are filed, slot by slot; a PID that is still to be read is filed
\* under its place in the queue.
Slots ==
  {<<c, "pids", role, proc[c].pids[role]>> : c \in Clients, role \in ChatRole}
    \cup (UNION {{<<c, g, role, tracked[c][g][role]>> : g \in DOMAIN tracked[c], role \in ChatRole}
                : c \in Clients})
    \cup (UNION {{<<c, "queue", i, queue[c][i].pid>> : i \in DOMAIN queue[c]} : c \in Clients})

\* Whatever fails and however late a window reports, a PID is filed once, and
\* under its role: no window is killed on behalf of two groups, or by two clients,
\* and a window that is killed or replaced is not met again in a queue (CollectPid,
\* KillPids).
FiledOnce ==
  /\ \A s, t \in Slots : s[4] = t[4] /\ s[4] # NoPid => s = t
  /\ \A c \in Clients : \A g \in DOMAIN tracked[c], role \in ChatRole :
       LET p == tracked[c][g][role]
       IN  p # NoPid => window[p] = NoWindow \/ window[p].role = role

\* GroupWindows_Open comes back, whichever call fails and whichever window never
\* reports: the two waits are bounded, and a full queue blocks windows, never the
\* client (mq_timedreceive, GroupWindows.c:123).
OpenReturns == \A c \in Clients : proc[c].at # "idle" ~> proc[c].at \in {"idle", "off"}

=============================================================================
