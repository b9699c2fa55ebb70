-------------------------- MODULE ChatSystemProofs ---------------------------
(***************************************************************************)
(* Clients and server agree, for any number of clients, connections, names *)
(* and groups and any number of kills, reconnects and server restarts.     *)
(***************************************************************************)
EXTENDS ClientProofs, ServerManagerProofs

\* The provers of a leaf that names none, in the order they are tried.
USE SMT, ZenonT(30), SMTT(30), ZenonT(60)

-----------------------------------------------------------------------------
(* Steps that end connections.                                             *)

\* A connection whose client is gone is given up, and its session with it.
LEMMA DropStep ==
  ASSUME SysInv, NEW l \in Links, Drop(l), ServerSide'
  PROVE  SysInv'
<1>0. ServerSide /\ LogoutAssertHolds
  BY DEF SysInv
<1>1. PICK fd \in Fds : fd = link[l].fd /\ \A m \in Links \ {l} : link[m].fd # fd
  BY ServedLink DEF Drop
<1>2. /\ CallbackDisconnect(fd) /\ link' = [link EXCEPT ![l] = FreeLink]
      /\ UNCHANGED <<app, server>>
      /\ link[l].wire \in {"closed", "broken"}
  BY <1>1 DEF Drop
<1>4. /\ conns' = conns \ {fd} /\ reply' = reply /\ told' = [told EXCEPT ![fd] = {}]
      /\ CleanupSession(fd)
  BY <1>2 DEF CallbackDisconnect
<1>5. usersByFd' = usersByFd \/ usersByFd' = HashMap_Remove(usersByFd, fd)
  BY <1>4 DEF CleanupSession, Logout, umVars
<1>6. \A x : x # fd => KeepsSession(x)
  BY <1>0, <1>4, <1>5, ElsewhereKept, ZenonT(30), ZenonT(60)
<1>7. FreeLink \in LinkType /\ FreeLink.fd \in {fd, NoFd} /\ LinkOK(FreeLink)'
  BY FreeLinkFacts DEF LinkOK, FreeLink
<1>8. \A c \in Clients : app[c].link # l
  BY <1>2, ServedLink
<1>9. \A c \in Clients : app[c].running /\ app[c].link = l => Connected(app[c], FreeLink)'
  BY <1>8
<1>10. LogoutAssertHolds' /\ conns \ {fd} \subseteq conns'
  BY <1>0, <1>4 DEF LogoutAssertHolds
<1> QED BY <1>1, <1>2, <1>6, <1>7, <1>9, <1>10, ServerStep, ZenonT(30), ZenonT(60)

\* The server ends, and everything it knew with it: every connection loses its
\* other end, and what a client has not read yet it may still read.
LEMMA EndsStep ==
  ASSUME SysInv, ServerEnds, ServerSide'
  PROVE  SysInv'
<1>3. app' = app /\ reply' = NoReply
  BY ZenonT(30), ZenonT(60) DEF ServerEnds
<1>4. LogoutAssertHolds'
  BY <1>3 DEF LogoutAssertHolds, NoReply
<1>5. link \in [Links -> LinkType] /\ app \in [Clients -> Process]
  BY DEF SysInv, SysTypes
<1>6. ASSUME NEW l \in Links
      PROVE  /\ link'[l] \in LinkType /\ link'[l].fd = NoFd /\ link'[l].up = <<>>
             /\ link'[l].wire \notin {"open", "closed", "broken"}
             /\ link[l].wire \in {"open", "fin", "reset", "dead"} =>
                  link'[l].wire \in {"fin", "reset", "dead"} /\ link'[l].down = link[l].down
             /\ link'[l].wire = "free" => link'[l].down = <<>>
  <2>1. link[l] \in LinkType /\ LinkOK(link[l])
    BY <1>6, ServedLink
  <2>2. link'[l] = CASE link[l].wire \in {"closed", "broken"} -> FreeLink
                     [] link[l].wire = "open" ->
                          [link[l] EXCEPT !.fd = NoFd, !.up = <<>>,
                             !.wire = IF link[l].fd = NoFd \/ link[l].up # <<>> THEN "reset" ELSE "fin"]
                     [] OTHER -> link[l]
    BY <1>6, ZenonT(30), ZenonT(60) DEF ServerEnds
  <2>3. CASE link[l].wire \in {"closed", "broken"}
    <3>1. link'[l] = FreeLink
      BY <2>2, <2>3
    <3> QED BY <2>3, <3>1, FreeLinkFacts DEF FreeLink
  <2>4. CASE link[l].wire = "open"
    <3>1. PICK w \in {"reset", "fin"} : link'[l] = [link[l] EXCEPT !.fd = NoFd, !.up = <<>>, !.wire = w]
      BY <2>2, <2>4, ZenonT(30), ZenonT(60)
    <3>2. <<>> \in AtMostOne(Request)
      BY OneMessage
    <3>3. link'[l] \in LinkType
      BY <2>1, <3>1, <3>2, ZenonT(30), ZenonT(60) DEF LinkType, Wire
    <3>4. link'[l].fd = NoFd /\ link'[l].up = <<>> /\ link'[l].wire = w
          /\ link'[l].down = link[l].down
      BY <2>1, <3>1 DEF LinkType
    <3> QED BY <3>3, <3>4
  <2>5. CASE link[l].wire \in {"free", "fin", "reset", "dead"}
    <3>1. link'[l] = link[l]
      BY <2>2, <2>5
    <3> QED BY <2>1, <2>5, <3>1 DEF LinkOK
  <2> QED BY <2>1, <2>3, <2>4, <2>5 DEF LinkType, Wire
<1>7. SysTypes'
  <2>1. link' = [l \in Links |-> link'[l]]
    BY ZenonT(30), ZenonT(60) DEF ServerEnds
  <2>2. link' \in [Links -> LinkType]
    BY <1>6, <2>1
  <2>3. server' \in [up: BOOLEAN, starts: 1 .. MaxServerStarts]
    BY ZenonT(30), ZenonT(60) DEF SysInv, SysTypes, ServerEnds
  <2> QED BY <1>3, <1>5, <2>2, <2>3 DEF SysTypes
<1>8. Owners'
  BY <1>3, <1>6 DEF SysInv, Owners
<1>9. ASSUME NEW l \in Links PROVE LinkOK(link[l])'
  BY <1>6, <1>9 DEF LinkOK
<1>10. ASSUME NEW c \in Clients PROVE ClientOK(app[c], link)'
  <2>0. app'[c] = app[c] /\ app[c].running \in BOOLEAN
    BY <1>3, <1>5 DEF Process
  <2>1. CASE app[c].running
    <3>1. app[c].link \in Links /\ Connected(app[c], link[app[c].link])
      BY <1>10, <2>1, Owner
    <3>2. Connected(app[c], link[app[c].link])'
      BY <1>6, <2>0, <3>1 DEF Connected
    <3> QED BY <2>0, <2>1, <3>1, <3>2 DEF ClientOK
  <2>2. CASE ~app[c].running
    BY <1>10, <2>0, <2>2, Owner DEF ClientOK, Unconnected
  <2> QED BY <2>0, <2>1, <2>2
<1> QED BY <1>4, <1>7, <1>8, <1>9, <1>10, SysInvParts

\* A step that changes neither a process nor a connection nor what the server knows.
LEMMA QuietStep ==
  ASSUME SysInv, UNCHANGED <<serverVars, app, link>>,
         server' \in [up: BOOLEAN, starts: 1 .. MaxServerStarts]
  PROVE  SysInv'
<1>1. ServerSide' /\ conns' = conns /\ reply' = reply /\ \A fd : KeepsSession(fd)
  BY ServerUntouched DEF SysInv
<1>2. SysTypes' /\ Owners'
  BY DEF SysInv, SysTypes, Owners
<1>3. ASSUME NEW l \in Links PROVE LinkOK(link[l])'
  <2>1. LinkOK(link[l]) /\ KeepsSession(link[l].fd)
    BY <1>1, <1>3 DEF SysInv
  <2> QED BY <1>1, <2>1 DEF LinkOK, KeepsSession, IsFdLoggedIn
<1>4. ASSUME NEW c \in Clients PROVE ClientOK(app[c], link)'
  <2>1. ClientOK(app[c], link) /\ app' = app /\ link' = link
    BY <1>4 DEF SysInv
  <2>2. \A b, fd : Agrees(b, fd) => Agrees(b, fd)'
    BY <1>1, AgreementKept
  <2>3. Connected(app[c], link[app[c].link]) => Connected(app[c], link[app[c].link])'
    BY <2>1, <2>2 DEF Connected
  <2> QED BY <2>1, <2>3 DEF ClientOK, Unconnected
<1>5. LogoutAssertHolds'
  BY <1>1 DEF SysInv, LogoutAssertHolds
<1> QED BY <1>1, <1>2, <1>3, <1>4, <1>5, SysInvParts

-----------------------------------------------------------------------------
(* The theorems.                                                           *)

\* The invariant of the server gives the clients what they need.
LEMMA ServerGives == IInv => ServerSide
<1> SUFFICES ASSUME IInv PROVE ServerSide
  OBVIOUS
<1>1. told \in [Fds -> SUBSET (GroupNames \X Ports)] /\ DOMAIN usersByFd \subseteq conns
  BY DEF IInv, TypeOK, SessionsAreConnected
<1>2. DOMAIN usersByFd \subseteq Fds
  BY DEF IInv, UMInv, UserManagerTypeOK
<1>3. \A fd \in Fds : ~IsFdLoggedIn(fd) => told[fd] = {}
  BY DEF IInv, ToldEndpointsAreCurrent, GetUserGroups
<1>4. \A g \in DOMAIN groups : groups[g].port \in Ports
  BY DEF IInv, TypeOK, GroupManagerTypeOK, Group
<1> QED BY <1>1, <1>2, <1>3, <1>4 DEF ServerSide

\* Every step of the system is a step of the server, its end, or none of its own.
LEMMA ServerStepInv == IInv /\ [SysNext]_sysVars => IInv'
<1> SUFFICES ASSUME IInv, [SysNext]_sysVars PROVE IInv'
  OBVIOUS
<1>1. CASE UNCHANGED serverVars
  BY <1>1, StepInv DEF serverVars, vars
<1>2. CASE ServerEnds
  <2>1. Init'
    BY <1>2, ZenonT(30), ZenonT(60) DEF ServerEnds, Init, UserManager_Create, GroupManager_Create
  <2> QED BY <2>1, InitInv, PTL
<1>3. ASSUME NEW l \in Links, Accept(l) \/ Serve(l) \/ Drop(l) PROVE IInv'
  <2>1. ASSUME NEW fd, (CallbackNewConnection(fd) /\ fd \in Fds) \/ CallbackRecv(fd) \/ CallbackDisconnect(fd)
        PROVE  IInv'
    <3>1. fd \in Fds
      BY <2>1 DEF CallbackRecv, CallbackDisconnect, IInv, TypeOK
    <3> QED BY <2>1, <3>1, StepInv DEF Next
  <2> QED BY <1>3, <2>1 DEF Accept, Serve, Drop
<1> QED BY <1>1, <1>2, <1>3 DEF SysNext, sysVars, Client, ServerStarts

\* Every step keeps the invariant of the whole system.
LEMMA SysStepInv == IInv /\ SysInv /\ [SysNext]_sysVars => (IInv /\ SysInv)'
<1> SUFFICES ASSUME IInv, SysInv, [SysNext]_sysVars PROVE IInv' /\ SysInv'
  OBVIOUS
<1>1. IInv'
  BY ServerStepInv
<1>2. ServerSide'
  BY <1>1, ServerGives, PTL
<1>3. reply' \in Reply
  BY <1>1 DEF IInv, TypeOK
<1>4. CASE UNCHANGED sysVars
  <2>1. UNCHANGED <<serverVars, app, link>> /\ server' = server
    BY <1>4 DEF sysVars
  <2>2. server' \in [up: BOOLEAN, starts: 1 .. MaxServerStarts]
    BY <2>1 DEF SysInv, SysTypes
  <2> QED BY <1>1, <2>1, <2>2, QuietStep
<1>5. CASE ServerStarts
  <2>1. server' \in [up: BOOLEAN, starts: 1 .. MaxServerStarts]
    BY <1>5, ChatSystemAssumption DEF ServerStarts, SysInv, SysTypes
  <2> QED BY <1>1, <1>5, <2>1, QuietStep DEF ServerStarts
<1>6. ASSUME NEW c \in Clients, Client(c) PROVE SysInv'
  BY <1>4, <1>6, ClientInv
<1>7. ASSUME NEW l \in Links, Serve(l) PROVE SysInv'
  <2>1. ASSUME NEW fd \in Fds, CallbackRecv(fd)
        PROVE  /\ Effect(fd)
               /\ conns' = conns
               /\ (request' = <<"OPCODE_LOGOUT">> => IsFdLoggedIn(fd)) => LogoutAssertHolds'
    <3>1. UMInv /\ ServerSide
      BY DEF IInv, SysInv
    <3> QED BY <2>1, <3>1, RecvEffect
  <2> QED BY <1>2, <1>3, <1>7, <2>1, ServeStep
<1>8. ASSUME NEW l \in Links, Accept(l) \/ Drop(l) PROVE SysInv'
  BY <1>2, <1>8, AcceptStep, DropStep
<1>9. CASE ServerEnds
  BY <1>1, <1>2, <1>9, EndsStep
<1> QED BY <1>1, <1>4, <1>5, <1>6, <1>7, <1>8, <1>9 DEF SysNext

\* The system starts with clients at their first menu and a server without users.
LEMMA SysInitInv == SysInit => IInv /\ SysInv
<1> SUFFICES ASSUME SysInit PROVE IInv /\ SysInv
  OBVIOUS
<1>1. /\ Init /\ app = [c \in Clients |-> ClientApp_Create] /\ link = [l \in Links |-> FreeLink]
      /\ server = [up |-> TRUE, starts |-> 1]
  BY DEF SysInit
<1>2. IInv /\ ServerSide
  BY <1>1, InitInv, ServerGives
<1>3. LogoutAssertHolds
  BY <1>1 DEF Init, NoReply, LogoutAssertHolds
<1>4. SysTypes
  <2>1. server \in [up: BOOLEAN, starts: 1 .. MaxServerStarts]
    BY <1>1, ChatSystemAssumption
  <2> QED BY <1>1, <2>1, EndedFacts, FreeLinkFacts DEF SysTypes
<1>5. Owners
  BY <1>1, EndedFacts, FreeLinkFacts DEF Owners
<1>6. \A l \in Links : LinkOK(link[l])
  BY <1>1, FreeLinkFacts
<1>7. \A c \in Clients : ClientOK(app[c], link)
  BY <1>1, EndedFacts DEF ClientOK
<1> QED BY <1>2, <1>3, <1>4, <1>5, <1>6, <1>7 DEF SysInv

\* The invariant holds throughout.
LEMMA SysInvariance == SysSpec => [](IInv /\ SysInv)
  BY SysInitInv, SysStepInv, PTL DEF SysSpec

\* Every process and connection is well formed, no two processes hold one socket,
\* and a connection carries one message at a time.
THEOREM SysTypeCorrect == SysSpec => []SysTypeOK
<1>1. SysInv => SysTypeOK
  <2> SUFFICES ASSUME SysInv PROVE SysTypeOK
    OBVIOUS
  <2>0. \A m, n \in {0, 1} : m = 0 \/ n = 0 => m + n <= 1
    OBVIOUS
  <2>1. ASSUME NEW S, NEW s \in AtMostOne(S)
        PROVE  s \in Seq(S) /\ Len(s) \in {0, 1} /\ (s = <<>> => Len(s) = 0)
    <3>1. CASE s = <<>>
      BY <3>1
    <3>2. CASE \E x \in S : s = <<x>>
      BY <3>2
    <3> QED BY <2>1, <3>1, <3>2 DEF AtMostOne
  <2>2. ASSUME NEW l \in Links
        PROVE  /\ link[l] \in [wire: Wire, fd: Fds \cup {NoFd}, up: Seq(Request), down: Seq(Response)]
               /\ Len(link[l].up) + Len(link[l].down) <= 1
    <3>1. link[l] \in LinkType /\ LinkOK(link[l])
      BY <2>2, ServedLink
    <3>2. link[l].up \in AtMostOne(Request) /\ link[l].down \in AtMostOne(Response)
          /\ (link[l].up # <<>> => link[l].down = <<>>)
      BY <3>1 DEF LinkType, LinkOK
    <3>3. /\ link[l].up \in Seq(Request) /\ Len(link[l].up) \in {0, 1}
          /\ link[l].down \in Seq(Response) /\ Len(link[l].down) \in {0, 1}
          /\ link[l].up = <<>> => Len(link[l].up) = 0
          /\ link[l].down = <<>> => Len(link[l].down) = 0
      BY <2>1, <3>2
    <3>4. link[l] \in [wire: Wire, fd: Fds \cup {NoFd}, up: Seq(Request), down: Seq(Response)]
      BY <3>1, <3>3 DEF LinkType
    <3>5. Len(link[l].up) = 0 \/ Len(link[l].down) = 0
      BY <3>2, <3>3
    <3>6. Len(link[l].up) + Len(link[l].down) <= 1
      BY <2>0, <3>3, <3>5, ZenonT(30), ZenonT(60)
    <3> QED BY <3>4, <3>6, ZenonT(30), ZenonT(60)
  <2>3. link \in [Links -> [wire: Wire, fd: Fds \cup {NoFd}, up: Seq(Request), down: Seq(Response)]]
    BY <2>2, ZenonT(30), ZenonT(60) DEF SysInv, SysTypes
  <2> QED BY <2>2, <2>3, ZenonT(30), ZenonT(60) DEF SysInv, SysTypes, Owners, SysTypeOK
<1> QED BY <1>1, SysInvariance, PTL

\* A client at its menu with its connection up agrees with the server.
LEMMA IdleAgrees ==
  ASSUME SysInv, NEW c \in Clients, Idle(c)
  PROVE  Agrees(app[c], link[app[c].link].fd)
  BY Owner DEF Idle, Connected, Outcomes

\* The session a client's menu shows is the session the server has.
THEOREM SessionShown == SysSpec => []MenuShowsSession
<1>1. SysInv => MenuShowsSession
  <2> SUFFICES ASSUME SysInv, NEW c \in Clients, Idle(c)
               PROVE  LET fd == link[app[c].link].fd
                      IN  IF app[c].state = "SESSION_LOGGED_IN"
                          THEN IsFdLoggedIn(fd) /\ usersByFd[fd] = app[c].user
                          ELSE ~IsFdLoggedIn(fd)
    BY DEF MenuShowsSession
  <2>1. Agrees(app[c], link[app[c].link].fd) /\ app[c].state \in SessionState
    BY IdleAgrees, Owner DEF Process
  <2> QED BY <2>1 DEF Agrees, SessionState
<1> QED BY <1>1, SysInvariance, PTL

\* A client's windows are on the rooms its user is in, at their ports of now.
THEOREM WindowsCurrent == SysSpec => []WindowsFollowRooms
<1>1. IInv /\ SysInv => WindowsFollowRooms
  <2> SUFFICES ASSUME IInv, SysInv, NEW c \in Clients, Idle(c), NEW g \in DOMAIN app[c].windows
               PROVE  /\ g \in GetUserGroups(link[app[c].link].fd)
                      /\ app[c].windows[g] = groups[g].port
    BY DEF WindowsFollowRooms
  <2>1. <<g, app[c].windows[g]>> \in Told(link[app[c].link].fd)
    BY IdleAgrees DEF Agrees
  <2>2. link[app[c].link].fd \in Fds /\ <<g, app[c].windows[g]>> \in told[link[app[c].link].fd]
    BY <2>1 DEF Told
  <2>3. \E h \in GetUserGroups(link[app[c].link].fd) : <<g, app[c].windows[g]>> = <<h, groups[h].port>>
    BY <2>2 DEF IInv, ToldEndpointsAreCurrent
  <2> QED BY <2>3
<1> QED BY <1>1, SysInvariance, PTL

\* The server never writes to a connection that was already reset.
THEOREM ServerSurvives == SysSpec => []ServerSurvivesClients
<1>1. SysInv => ServerSurvivesClients
  BY DEF SysInv, LinkOK, ServerSurvivesClients
<1> QED BY <1>1, SysInvariance, PTL

\* With the bundled clients a LOGOUT always comes from a logged-in peer.
THEOREM LogoutAssertCorrect == SysSpec => []LogoutAssertHolds
<1>1. SysInv => LogoutAssertHolds
  BY DEF SysInv
<1> QED BY <1>1, SysInvariance, PTL

\* A client blocked in recv() waits for something that comes, for any number of
\* clients, kills and restarts: the safety half of RequestsAreAnswered.
THEOREM WaitsForAnswer == SysSpec => []NobodyWaitsForNothing
<1>1. SysInit => AwaitInv
  BY DEF SysInit, ClientApp_Create, Ended, FreeLink, AwaitInv, Served, Awaited
<1>2. SysInv /\ AwaitInv /\ [SysNext]_sysVars => AwaitInv'
  <2> SUFFICES ASSUME SysInv, AwaitInv, [SysNext]_sysVars PROVE AwaitInv'
    OBVIOUS
  <2>1. CASE UNCHANGED <<app, link>> /\ (server.up => server'.up)
    BY <2>1 DEF AwaitInv, Served, Awaited
  <2>2. CASE ServerStarts
    BY <2>1, <2>2 DEF ServerStarts
  <2>3. CASE UNCHANGED sysVars
    BY <2>1, <2>3 DEF sysVars
  <2> QED BY <2>2, <2>3, AwaitClients, AwaitServes, AwaitEnds DEF SysNext
<1>3. SysInv /\ AwaitInv => NobodyWaitsForNothing
  <2> SUFFICES ASSUME SysInv, AwaitInv, NEW c \in Clients, app[c].at = "recv",
                      link[app[c].link].wire = "open"
               PROVE  \/ link[app[c].link].up = <<app[c].request>>
                      \/ link[app[c].link].up = <<>> /\ Len(link[app[c].link].down) = 1
    BY Waiting DEF AwaitInv, Served, NobodyWaitsForNothing
  <2> DEFINE k == link[app[c].link]
  <2>1. app[c].running
    BY Waiting
  <2>2. k \in LinkType /\ Connected(app[c], k)
    BY <2>1, OwnLink, Owner
  <2>3. CASE k.up # <<>>
    BY <2>2, <2>3, OneMessage DEF LinkType, Connected
  <2>4. CASE k.up = <<>>
    <3>1. k.down # <<>> /\ k.down \in AtMostOne(Response)
      BY <2>2, <2>4 DEF AwaitInv, Awaited, LinkType
    <3>2. PICK x : k.down = <<x>>
      BY <3>1 DEF AtMostOne
    <3>3. Len(<<x>>) = 1
      OBVIOUS
    <3> QED BY <2>4, <3>2, <3>3
  <2> QED BY <2>3, <2>4
<1> QED BY <1>1, <1>2, <1>3, SysInvariance, PTL DEF SysSpec

=============================================================================
