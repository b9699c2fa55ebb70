---------------------------- MODULE ClientProofs ----------------------------
(***************************************************************************)
(* Clients and their connections, for any number of them: what every step  *)
(* of a client, and every step of a server that keeps its own invariant,   *)
(* preserves. ChatSystemProofs puts the server itself beside them.         *)
(***************************************************************************)
EXTENDS ChatSystem, SessionEffects, TLAPS

\* The provers of a leaf that names none, in the order they are tried.
USE SMT, ZenonT(30), SMTT(30), ZenonT(60)

-----------------------------------------------------------------------------
(* The invariant of the clients and their connections.                     *)

\* The endpoints the peer on fd was told of; a connection that was not accepted
\* yet was told of none.
Told(fd) == IF fd \in Fds THEN told[fd] ELSE {}

\* A client process in the state a, on a connection the server knows as fd, shows
\* the session the server has, and windows for endpoints it was told of.
Agrees(a, fd) ==
  /\ a.state # "SESSION_DISCONNECTED"
  /\ a.state = "SESSION_LOGGED_IN" => IsFdLoggedIn(fd) /\ usersByFd[fd] = a.user
  /\ a.state = "SESSION_CONNECTED" => ~IsFdLoggedIn(fd)
  /\ \A g \in DOMAIN a.windows : <<g, a.windows[g]>> \in Told(fd)

\* What a client in the state a becomes when it has read the messages in down.
Outcomes(a, down) == IF down = <<>> THEN {a} ELSE AfterReply(a, Head(down))

AtMostOne(S) == {<<>>} \cup {<<x>> : x \in S}

LinkType ==
  [wire: Wire, fd: Fds \cup {NoFd}, up: AtMostOne(Request), down: AtMostOne(Response)]

SysTypes ==
  /\ app \in [Clients -> Process]
  /\ link \in [Links -> LinkType]
  /\ server \in [up: BOOLEAN, starts: 1 .. MaxServerStarts]

\* A connection: what it may carry in each state of its two ends, and that a
\* LOGOUT on its way to the server finds a session there.
LinkOK(k) ==
  /\ k.up # <<>> => k.down = <<>>
  /\ k.wire \notin {"open", "closed", "broken"} => k.fd = NoFd /\ k.up = <<>>
  /\ k.wire \in {"free", "closed", "broken"} => k.down = <<>>
  /\ k.wire = "broken" => k.up = <<>>
  /\ k.fd # NoFd => k.fd \in conns
  /\ k.up = <<<<"OPCODE_LOGOUT">>>> => IsFdLoggedIn(k.fd)

\* A process that holds no socket has nothing to show.
Unconnected(a) ==
  /\ a.link = NoLink
  /\ a.at # "recv"
  /\ a.state = "SESSION_DISCONNECTED"
  /\ a.windows = HashMap_Create

\* A process and its connection: a client at its menu has nothing under way, one
\* in recv() waits for the answer to the request it sent, and when the connection
\* is up it will agree with the server whatever that answer is.
Connected(a, k) ==
  /\ k.wire \in {"open", "fin", "reset", "dead"}
  /\ a.at = "menu" => k.up = <<>> /\ k.down = <<>>
  /\ k.up # <<>> => Head(k.up) = a.request /\ a.request # <<"OPCODE_EXIT">>
  /\ \A b \in Outcomes(a, k.down) : b \in Process
  /\ k.wire = "open" => \A b \in Outcomes(a, k.down) : Agrees(b, k.fd)

\* No two connections have one fd at the server, no two processes one socket.
Owners ==
  /\ \A k, l \in Links : link[k].fd = link[l].fd /\ link[k].fd # NoFd => k = l
  /\ \A c, d \in Clients : app[c].link = app[d].link /\ app[c].link # NoLink => c = d

ClientOK(a, lk) ==
  IF a.running THEN a.link \in Links /\ Connected(a, lk[a.link]) ELSE Unconnected(a)

\* Inductive. The menu and the windows need what is under way on the connections
\* (a reply that was sent and not read), the sessions need that every fd has one
\* connection, and the messages on a connection need that its client waits.
SysInv ==
  /\ ServerSide
  /\ SysTypes
  /\ Owners
  /\ \A l \in Links : LinkOK(link[l])
  /\ \A c \in Clients : ClientOK(app[c], link)
  /\ LogoutAssertHolds

-----------------------------------------------------------------------------
(* How the agreement of a client with the server is kept.                  *)

\* Nothing that agreement on fd rests on changes.
KeepsSession(fd) ==
  /\ fd \in DOMAIN usersByFd' <=> fd \in DOMAIN usersByFd
  /\ fd \in DOMAIN usersByFd => usersByFd'[fd] = usersByFd[fd]
  /\ fd \in Fds => told'[fd] = told[fd]

\* A change of the maps at fd is felt on fd only.
LEMMA ElsewhereKept ==
  ASSUME ServerSide, NEW fd \in Fds, NEW x, x # fd,
         \/ usersByFd' = usersByFd
         \/ usersByFd' = HashMap_Remove(usersByFd, fd)
         \/ \E n : usersByFd' = HashMap_Insert(usersByFd, fd, n),
         told' = told \/ \E s : told' = [told EXCEPT ![fd] = s]
  PROVE  KeepsSession(x)
<1>1. told \in [Fds -> SUBSET (GroupNames \X Ports)]
  BY DEF ServerSide
<1>2. x \in Fds => told'[x] = told[x]
  BY <1>1
<1>3. x \in DOMAIN usersByFd' <=> x \in DOMAIN usersByFd
  BY DEF HashMap_Insert, HashMap_Remove
<1>4. x \in DOMAIN usersByFd => usersByFd'[x] = usersByFd[x]
  BY DEF HashMap_Insert, HashMap_Remove
<1> QED BY <1>2, <1>3, <1>4 DEF KeepsSession

\* A request touches only the session it arrived on.
LEMMA OthersKeepSession ==
  ASSUME ServerSide, NEW fd \in Fds, Effect(fd), NEW x, x # fd
  PROVE  KeepsSession(x)
<1>1. usersByFd' = usersByFd \/ usersByFd' = HashMap_Remove(usersByFd, fd)
        \/ \E n : usersByFd' = HashMap_Insert(usersByFd, fd, n)
  BY DEF Effect, NothingDone, SessionOpened, SessionClosed, RoomEntered, RoomLeft, Listed
<1>2. told' = told \/ \E s : told' = [told EXCEPT ![fd] = s]
  BY DEF Effect, NothingDone, SessionOpened, SessionClosed, RoomEntered, RoomLeft, Listed
<1> QED BY <1>1, <1>2, ElsewhereKept

\* Agreement lasts while the session does.
LEMMA AgreementKept ==
  ASSUME NEW a, NEW fd, Agrees(a, fd), KeepsSession(fd)
  PROVE  Agrees(a, fd)'
  BY DEF Agrees, KeepsSession, IsFdLoggedIn, Told

\* What a client makes of an answer, by its request (ClientApp.c).
LEMMA AfterReplyForms ==
  ASSUME NEW a \in Process, NEW resp, NEW b \in AfterReply(a, resp)
  PROVE  LET op == a.request[1]
             ok == resp.status = "CHAT_OK"
         IN  /\ b.at = "menu" /\ b.request = <<"OTHER">> /\ b.link = a.link /\ b.running = a.running
             /\ ~ok \/ op \notin {"OPCODE_REGISTER", "OPCODE_LOGIN"} => b.user = a.user
             /\ ok /\ op \in {"OPCODE_REGISTER", "OPCODE_LOGIN"} =>
                  b.user = a.request[2] /\ b.state = "SESSION_LOGGED_IN" /\ b.windows = a.windows
             /\ ok /\ op \in {"OPCODE_CREATE_GROUP", "OPCODE_JOIN_GROUP"} =>
                  /\ b.state = a.state
                  /\ \/ b.windows = HashMap_Insert(a.windows, a.request[2], resp.port)
                     \/ b.windows = HashMap_Remove(a.windows, a.request[2])
             /\ ok /\ op = "OPCODE_LEAVE_GROUP" =>
                  b.state = a.state /\ b.windows = HashMap_Remove(a.windows, a.request[2])
             /\ ok /\ op = "OPCODE_LOGOUT" =>
                  b.state = "SESSION_CONNECTED" /\ b.windows = HashMap_Create
             /\ \/ ~ok
                \/ op \notin {"OPCODE_REGISTER", "OPCODE_LOGIN", "OPCODE_CREATE_GROUP",
                              "OPCODE_JOIN_GROUP", "OPCODE_LEAVE_GROUP", "OPCODE_LOGOUT"}
                => b.state = a.state /\ b.windows = a.windows
             /\ b = [at |-> "menu", state |-> b.state, running |-> a.running, link |-> a.link,
                     user |-> b.user, request |-> <<"OTHER">>, windows |-> b.windows]
  BY ZenonT(30), ZenonT(60) DEF AfterReply, Process

\* A reply changes neither the socket nor the controller of a process.
LEMMA AfterReplyKeeps ==
  ASSUME NEW a \in Process, NEW resp, NEW b \in AfterReply(a, resp)
  PROVE  b.link = a.link /\ b.running = a.running
  BY AfterReplyForms

\* The windows of a process, before and after one is opened or closed.
LEMMA WindowsType ==
  ASSUME NEW w \in (UNION {[gs -> Ports] : gs \in SUBSET GroupNames}), NEW g \in GroupNames
  PROVE  /\ DOMAIN w \subseteq GroupNames
         /\ HashMap_Remove(w, g) \in (UNION {[gs -> Ports] : gs \in SUBSET GroupNames})
         /\ \A p \in Ports :
              HashMap_Insert(w, g, p) \in (UNION {[gs -> Ports] : gs \in SUBSET GroupNames})
<1>1. PICK gs \in SUBSET GroupNames : w \in [gs -> Ports]
  OBVIOUS
<1>2. HashMap_Remove(w, g) \in [gs \ {g} -> Ports]
  BY <1>1 DEF HashMap_Remove
<1>3. ASSUME NEW p \in Ports PROVE HashMap_Insert(w, g, p) \in [gs \cup {g} -> Ports]
  BY <1>1, <1>3 DEF HashMap_Insert
<1>4. gs \ {g} \in SUBSET GroupNames /\ gs \cup {g} \in SUBSET GroupNames
  OBVIOUS
<1> QED BY <1>1, <1>2, <1>3, <1>4

\* A process without windows.
LEMMA NoWindowsType == HashMap_Create \in (UNION {[gs -> Ports] : gs \in SUBSET GroupNames})
<1>1. HashMap_Create \in [{} -> Ports]
  BY DEF HashMap_Create
<1> QED BY <1>1

\* A process is well formed after the answer when its new user, state and windows are.
LEMMA AnswerType ==
  ASSUME NEW a \in Process, NEW resp, NEW b \in AfterReply(a, resp),
         b.user \in Names \cup {NoName}, b.state \in SessionState,
         b.windows \in (UNION {[gs -> Ports] : gs \in SUBSET GroupNames})
  PROVE  b \in Process
<1>1. b = [at |-> "menu", state |-> b.state, running |-> a.running, link |-> a.link,
           user |-> b.user, request |-> <<"OTHER">>, windows |-> b.windows]
  BY AfterReplyForms
<1>2. a.running \in BOOLEAN /\ a.link \in Links \cup {NoLink}
  BY DEF Process
<1>3. <<"OTHER">> \in Request
  BY DEF Request
<1> HIDE DEF Request, SessionState
<1> QED BY <1>1, <1>2, <1>3 DEF Process

\* An answer that changed nothing, and the ones to the listings, leave the client
\* and its session as they were.
LEMMA SameAgreement ==
  ASSUME NEW fd, NEW a \in Process, NEW resp, NEW b \in AfterReply(a, resp), Agrees(a, fd),
         usersByFd' = usersByFd, told' = told,
         b.user = a.user, b.state = a.state, b.windows = a.windows
  PROVE  b \in Process /\ Agrees(b, fd)'
<1>1. b \in Process
  BY AnswerType DEF Process
<1>2. KeepsSession(fd)
  BY DEF KeepsSession, IsFdLoggedIn, Told
<1>3. Agrees(a, fd)'
  BY <1>2, AgreementKept
<1> QED BY <1>1, <1>3 DEF Agrees

\* The answer to a REGISTER or LOGIN.
LEMMA OpenedAgreement ==
  ASSUME ServerSide, NEW fd \in Fds, SessionOpened(fd), NEW a \in Process, a.request = request',
         Agrees(a, fd), NEW resp, resp.status = "CHAT_OK", NEW b \in AfterReply(a, resp)
  PROVE  b \in Process /\ Agrees(b, fd)'
<1>1. PICK n \in Names, p \in Passwords :
        /\ request' \in {<<"OPCODE_REGISTER", n, p>>, <<"OPCODE_LOGIN", n, p>>}
        /\ usersByFd' = HashMap_Insert(usersByFd, fd, n)
  BY DEF SessionOpened
<1>2. a.request[1] \in {"OPCODE_REGISTER", "OPCODE_LOGIN"} /\ a.request[2] = n
  BY <1>1
<1>3. b.user = n /\ b.state = "SESSION_LOGGED_IN" /\ b.windows = a.windows
  BY <1>2, AfterReplyForms
<1>4. b \in Process
  BY <1>3, AnswerType DEF Process, SessionState
<1>5. DOMAIN a.windows = {}
  <2>1. told[fd] = {}
    BY DEF ServerSide, SessionOpened, IsFdLoggedIn
  <2> QED BY <2>1 DEF Agrees, Told
<1>6. fd \in DOMAIN usersByFd' /\ usersByFd'[fd] = n
  BY <1>1 DEF HashMap_Insert
<1> QED BY <1>3, <1>4, <1>5, <1>6 DEF Agrees, IsFdLoggedIn

\* The answer to a LOGOUT: the windows are gone with the session.
LEMMA ClosedAgreement ==
  ASSUME NEW fd \in Fds, SessionClosed(fd), NEW a \in Process, a.request = request',
         request' # <<"OPCODE_EXIT">>, NEW resp, resp.status = "CHAT_OK", NEW b \in AfterReply(a, resp)
  PROVE  b \in Process /\ Agrees(b, fd)'
<1>1. a.request[1] = "OPCODE_LOGOUT"
  BY DEF SessionClosed
<1>2. b.state = "SESSION_CONNECTED" /\ b.windows = HashMap_Create /\ b.user = a.user
  BY <1>1, AfterReplyForms
<1>3. b \in Process
  BY <1>2, AnswerType, NoWindowsType DEF Process, SessionState
<1>4. fd \notin DOMAIN usersByFd'
  BY DEF SessionClosed, HashMap_Remove
<1> QED BY <1>2, <1>3, <1>4 DEF Agrees, IsFdLoggedIn, HashMap_Create

\* The answer to a CREATE_GROUP or JOIN_GROUP carries the endpoint the server has
\* noted; the window may fail to open.
LEMMA EnteredAgreement ==
  ASSUME ServerSide, ServerSide', NEW fd \in Fds, RoomEntered(fd), NEW a \in Process, a.request = request',
         Agrees(a, fd), NEW resp, resp.status = "CHAT_OK",
         resp.port = EndpointFor(groups', request'), NEW b \in AfterReply(a, resp)
  PROVE  b \in Process /\ Agrees(b, fd)'
<1>1. PICK g \in GroupNames :
        /\ request' \in {<<"OPCODE_CREATE_GROUP", g>>, <<"OPCODE_JOIN_GROUP", g>>}
        /\ usersByFd' = usersByFd
        /\ g \in DOMAIN groups'
        /\ told' = [told EXCEPT ![fd] = @ \cup {<<g, groups'[g].port>>}]
  BY ZenonT(30), ZenonT(60) DEF RoomEntered
<1>2. a.request[1] \in {"OPCODE_CREATE_GROUP", "OPCODE_JOIN_GROUP"} /\ a.request[2] = g
  BY <1>1
<1>3. resp.port = groups'[g].port
  <2>1. Len(request') = 2 /\ request'[2] = g
    BY <1>1
  <2> QED BY <1>1, <2>1 DEF EndpointFor
<1>4. groups'[g].port \in Ports
  BY <1>1 DEF ServerSide
<1>5. /\ b.user = a.user /\ b.state = a.state
      /\ \/ b.windows = HashMap_Insert(a.windows, g, groups'[g].port)
         \/ b.windows = HashMap_Remove(a.windows, g)
  BY <1>2, <1>3, AfterReplyForms
<1>6. a.windows \in (UNION {[gs -> Ports] : gs \in SUBSET GroupNames})
  BY DEF Process
<1>7. b.windows \in (UNION {[gs -> Ports] : gs \in SUBSET GroupNames})
  <2>1. /\ HashMap_Insert(a.windows, g, groups'[g].port) \in (UNION {[gs -> Ports] : gs \in SUBSET GroupNames})
        /\ HashMap_Remove(a.windows, g) \in (UNION {[gs -> Ports] : gs \in SUBSET GroupNames})
    BY <1>4, <1>6, WindowsType
  <2> QED BY <1>5, <2>1
<1>8. b \in Process
  BY <1>5, <1>7, AnswerType DEF Process
<1>9. Told(fd)' = Told(fd) \cup {<<g, groups'[g].port>>}
  <2>1. told \in [Fds -> SUBSET (GroupNames \X Ports)]
    BY DEF ServerSide
  <2> QED BY <1>1, <2>1 DEF Told
<1>10. \A x \in DOMAIN b.windows : <<x, b.windows[x]>> \in Told(fd)'
  <2> HIDE DEF Told
  <2>1. \A x \in DOMAIN a.windows : <<x, a.windows[x]>> \in Told(fd)
    BY DEF Agrees
  <2> QED BY <1>5, <1>9, <2>1 DEF HashMap_Insert, HashMap_Remove
<1> QED BY <1>1, <1>5, <1>8, <1>10 DEF Agrees, IsFdLoggedIn

\* The answer to a LEAVE_GROUP.
LEMMA LeftAgreement ==
  ASSUME ServerSide, NEW fd \in Fds, RoomLeft(fd), NEW a \in Process, a.request = request',
         Agrees(a, fd), NEW resp, resp.status = "CHAT_OK", NEW b \in AfterReply(a, resp)
  PROVE  b \in Process /\ Agrees(b, fd)'
<1>1. PICK g \in GroupNames :
        /\ request' = <<"OPCODE_LEAVE_GROUP", g>>
        /\ usersByFd' = usersByFd
        /\ told' = [told EXCEPT ![fd] = {e \in @ : e[1] # g}]
  BY ZenonT(30), ZenonT(60) DEF RoomLeft
<1>2. a.request[1] = "OPCODE_LEAVE_GROUP" /\ a.request[2] = g
  BY <1>1
<1>3. b.user = a.user /\ b.state = a.state /\ b.windows = HashMap_Remove(a.windows, g)
  BY <1>2, AfterReplyForms
<1>4. b \in Process
  <2>1. a.windows \in (UNION {[gs -> Ports] : gs \in SUBSET GroupNames})
    BY DEF Process
  <2>2. b.windows \in (UNION {[gs -> Ports] : gs \in SUBSET GroupNames})
    BY <1>3, <2>1, WindowsType
  <2> QED BY <1>3, <2>2, AnswerType DEF Process
<1>5. Told(fd)' = {e \in Told(fd) : e[1] # g}
  <2>1. told \in [Fds -> SUBSET (GroupNames \X Ports)]
    BY DEF ServerSide
  <2> QED BY <1>1, <2>1 DEF Told
<1>6. \A x \in DOMAIN b.windows : <<x, b.windows[x]>> \in Told(fd)'
  <2>1. \A x \in DOMAIN a.windows : <<x, a.windows[x]>> \in Told(fd)
    BY DEF Agrees
  <2> QED BY <1>3, <1>5, <2>1 DEF HashMap_Remove
<1> QED BY <1>1, <1>3, <1>4, <1>6 DEF Agrees, IsFdLoggedIn

\* Whatever a request does, the client that reads the answer agrees with the server
\* as it was when it answered.
LEMMA AnswerAgrees ==
  ASSUME ServerSide, ServerSide', NEW fd \in Fds, Effect(fd), NEW a \in Process, a.request = request',
         request' # <<"OPCODE_EXIT">>, Agrees(a, fd), NEW resp, resp.status = reply'.status,
         resp.port = EndpointFor(groups', request'), NEW b \in AfterReply(a, resp)
  PROVE  b \in Process /\ Agrees(b, fd)'
<1>1. CASE NothingDone
  <2>1. b.user = a.user /\ b.state = a.state /\ b.windows = a.windows
    BY <1>1, AfterReplyForms DEF NothingDone
  <2> QED BY <1>1, <2>1, SameAgreement DEF NothingDone
<1>2. CASE reply'.status = "CHAT_OK" /\ Listed
  <2>1. a.request[1] \in {"OPCODE_LIST_USERS", "OPCODE_LIST_GROUPS"}
    BY <1>2 DEF Listed
  <2>2. b.user = a.user /\ b.state = a.state /\ b.windows = a.windows
    BY <2>1, AfterReplyForms
  <2> QED BY <1>2, <2>2, SameAgreement DEF Listed
<1>3. CASE reply'.status = "CHAT_OK" /\ SessionOpened(fd)
  BY <1>3, OpenedAgreement
<1>4. CASE reply'.status = "CHAT_OK" /\ SessionClosed(fd)
  BY <1>4, ClosedAgreement
<1>5. CASE reply'.status = "CHAT_OK" /\ RoomEntered(fd)
  BY <1>5, EnteredAgreement
<1>6. CASE reply'.status = "CHAT_OK" /\ RoomLeft(fd)
  BY <1>6, LeftAgreement
<1> QED BY <1>1, <1>2, <1>3, <1>4, <1>5, <1>6 DEF Effect

-----------------------------------------------------------------------------
(* Steps of a client, and of the server on one connection.                 *)

\* A process that holds a connection is connected to it.
LEMMA Owner ==
  ASSUME SysInv, NEW c \in Clients
  PROVE  /\ app[c] \in Process
         /\ app[c].running <=> app[c].link \in Links
         /\ app[c].running => Connected(app[c], link[app[c].link])
         /\ ~app[c].running => Unconnected(app[c])
<1>1. app[c] \in Process
  BY DEF SysInv, SysTypes
<1>2. app[c].running \in BOOLEAN
  BY <1>1 DEF Process
<1>3. ClientOK(app[c], link)
  BY DEF SysInv
<1> QED BY <1>1, <1>2, <1>3, ChatSystemAssumption DEF ClientOK, Unconnected

\* A step that leaves the server's variables alone leaves alone what is said of them.
LEMMA ServerUntouched ==
  ASSUME ServerSide, UNCHANGED serverVars
  PROVE  /\ ServerSide'
         /\ conns' = conns
         /\ \A fd : KeepsSession(fd)
         /\ reply' = reply
<1>1. usersByFd' = usersByFd /\ told' = told /\ conns' = conns /\ reply' = reply /\ groups' = groups
  BY DEF serverVars
<1>2. ServerSide'
  BY <1>1 DEF ServerSide, IsFdLoggedIn
<1>3. \A fd : KeepsSession(fd)
  BY <1>1 DEF KeepsSession, IsFdLoggedIn, Told
<1> QED BY <1>1, <1>2, <1>3

\* The parts of the invariant, put together.
LEMMA SysInvParts ==
  ASSUME ServerSide', SysTypes', Owners', \A l \in Links : LinkOK(link[l])',
         \A c \in Clients : ClientOK(app[c], link)', LogoutAssertHolds'
  PROVE  SysInv'
  BY DEF SysInv

\* A step of the client c, which becomes a: it changes no connection of another
\* client, and what it makes of its own is in order.
LEMMA ClientStep ==
  ASSUME SysInv, UNCHANGED <<serverVars, server>>, NEW c \in Clients, NEW a \in Process,
         app' = [app EXCEPT ![c] = a], link' \in [Links -> LinkType],
         \A l \in Links : \/ link'[l] = link[l]
                          \/ /\ \A d \in Clients \ {c} : app[d].link # l
                             /\ LinkOK(link'[l])
                             /\ link'[l].fd \in {link[l].fd, NoFd},
         a.link = NoLink \/ \A d \in Clients \ {c} : app[d].link # a.link,
         ClientOK(a, link')
  PROVE  SysInv'
<1>0. app \in [Clients -> Process] /\ app' \in [Clients -> Process] /\ app'[c] = a
      /\ \A d \in Clients \ {c} : app'[d] = app[d]
  BY DEF SysInv, SysTypes
<1>1. /\ ServerSide'
      /\ conns' = conns
      /\ \A fd : KeepsSession(fd)
      /\ reply' = reply
  BY ServerUntouched DEF SysInv
<1>2. SysTypes'
  BY <1>0 DEF SysInv, SysTypes
<1>3. Owners'
  <2>1. \A k, l \in Links : link'[k].fd = link'[l].fd /\ link'[k].fd # NoFd => k = l
    BY DEF SysInv, Owners
  <2>2. \A d, e \in Clients : app'[d].link = app'[e].link /\ app'[d].link # NoLink => d = e
    BY <1>0 DEF SysInv, Owners
  <2> QED BY <2>1, <2>2 DEF Owners
<1>4. ASSUME NEW l \in Links PROVE LinkOK(link[l])'
  <2>1. LinkOK(link'[l])
    BY <1>4 DEF SysInv
  <2>2. KeepsSession(link'[l].fd)
    BY <1>1
  <2> QED BY <1>1, <2>1, <2>2 DEF LinkOK, KeepsSession, IsFdLoggedIn
<1>5. ASSUME NEW d \in Clients PROVE ClientOK(app[d], link)'
  <2>1. ClientOK(app'[d], link')
    <3>1. CASE d = c
      BY <1>0, <3>1
    <3>2. CASE d # c
      <4>1. app'[d] = app[d] /\ ClientOK(app[d], link)
        BY <1>0, <3>2 DEF SysInv
      <4>2. app[d].link \in Links => link'[app[d].link] = link[app[d].link]
        BY <3>2
      <4> QED BY <4>1, <4>2 DEF ClientOK
    <3> QED BY <3>1, <3>2
  <2>2. \A k : Connected(app'[d], k) => Connected(app[d], k)'
    <3>1. \A b, fd : Agrees(b, fd) => Agrees(b, fd)'
      BY <1>1, AgreementKept
    <3> QED BY <3>1 DEF Connected
  <2> QED BY <2>1, <2>2 DEF ClientOK
<1>6. LogoutAssertHolds'
  BY <1>1 DEF SysInv, LogoutAssertHolds
<1> QED BY <1>1, <1>2, <1>3, <1>4, <1>5, <1>6, SysInvParts

-----------------------------------------------------------------------------
(* The client's steps.                                                     *)

\* A message, or none.
LEMMA OneMessage ==
  ASSUME NEW S
  PROVE  /\ <<>> \in AtMostOne(S)
         /\ \A x \in S : <<x>> \in AtMostOne(S)
         /\ \A s \in AtMostOne(S) : s # <<>> => Head(s) \in S /\ s = <<Head(s)>> /\ Tail(s) = <<>>
<1>1. \A x : Head(<<x>>) = x /\ Tail(<<x>>) = <<>>
  OBVIOUS
<1> QED BY <1>1, ZenonT(30), ZenonT(60) DEF AtMostOne

\* A process that has ended, or has just been started, holds nothing.
LEMMA EndedFacts ==
  /\ Ended \in Process /\ Unconnected(Ended) /\ Ended.link = NoLink /\ ~Ended.running
  /\ ClientApp_Create \in Process /\ Unconnected(ClientApp_Create)
  /\ ClientApp_Create.link = NoLink /\ ~ClientApp_Create.running
<1>1. <<"OTHER">> \in Request
  BY DEF Request
<1>2. Ended \in Process
  BY <1>1, NoWindowsType DEF Ended, Process, SessionState
<1>3. ClientApp_Create \in Process
  BY <1>2 DEF ClientApp_Create, Process
<1> QED BY <1>2, <1>3 DEF Ended, ClientApp_Create, Unconnected

\* A connection that nobody has made yet.
LEMMA FreeLinkFacts == FreeLink \in LinkType /\ LinkOK(FreeLink) /\ FreeLink.fd = NoFd
  BY OneMessage DEF FreeLink, LinkType, Wire, LinkOK

\* The connection of a client is nobody else's.
LEMMA OwnLink ==
  ASSUME SysInv, NEW c \in Clients, app[c].running
  PROVE  /\ app[c].link \in Links /\ app[c].link # NoLink
         /\ \A d \in Clients \ {c} : app[d].link # app[c].link
         /\ link[app[c].link] \in LinkType
         /\ LinkOK(link[app[c].link])
  BY Owner, ChatSystemAssumption DEF SysInv, SysTypes, Owners

\* A client c that changes its own connection to k, and becomes a.
LEMMA OwnStep ==
  ASSUME SysInv, UNCHANGED <<serverVars, server>>, NEW c \in Clients, app[c].running,
         NEW a \in Process, app' = [app EXCEPT ![c] = a],
         NEW k \in LinkType, link' = [link EXCEPT ![app[c].link] = k],
         LinkOK(k), k.fd \in {link[app[c].link].fd, NoFd},
         \/ a.running /\ a.link = app[c].link /\ Connected(a, k)
         \/ ~a.running /\ Unconnected(a)
  PROVE  SysInv'
<1>1. /\ app[c].link \in Links
      /\ \A d \in Clients \ {c} : app[d].link # app[c].link
  BY OwnLink
<1>2. link \in [Links -> LinkType]
  BY DEF SysInv, SysTypes
<1>3. link' \in [Links -> LinkType] /\ link'[app[c].link] = k
      /\ \A l \in Links : l # app[c].link => link'[l] = link[l]
  BY <1>1, <1>2
<1>4. ClientOK(a, link')
  BY <1>1, <1>3 DEF ClientOK
<1>5. a.link = NoLink \/ \A d \in Clients \ {c} : app[d].link # a.link
  BY <1>1 DEF Unconnected
<1>6. \A l \in Links : \/ link'[l] = link[l]
                       \/ /\ \A d \in Clients \ {c} : app[d].link # l
                          /\ LinkOK(link'[l])
                          /\ link'[l].fd \in {link[l].fd, NoFd}
  BY <1>1, <1>3
<1> QED BY <1>3, <1>4, <1>5, <1>6, ClientStep, ZenonT(30), ZenonT(60)

\* The process ends, by Kill or by SIGPIPE.
LEMMA EndStep ==
  ASSUME SysInv, UNCHANGED <<serverVars, server>>, NEW c \in Clients,
         app' = [app EXCEPT ![c] = Ended], link' = CloseSocket(link, app[c].link)
  PROVE  SysInv'
<1>1. CASE app[c].running
  <2> DEFINE l == app[c].link
             k == IF link[l].wire = "open" THEN [link[l] EXCEPT !.wire = "closed", !.down = <<>>]
                  ELSE FreeLink
  <2>1. l \in Links /\ l # NoLink /\ link[l] \in LinkType /\ LinkOK(link[l])
    BY <1>1, OwnLink
  <2>2. link' = [link EXCEPT ![l] = k]
    BY <2>1 DEF CloseSocket
  <2>3. k \in LinkType /\ LinkOK(k) /\ k.fd \in {link[l].fd, NoFd}
    <3>1. CASE link[l].wire = "open"
      BY <2>1, <3>1, OneMessage, ZenonT(30), ZenonT(60) DEF LinkType, LinkOK, Wire
    <3>2. CASE link[l].wire # "open"
      BY <3>2, FreeLinkFacts
    <3> QED BY <3>1, <3>2
  <2> HIDE DEF k, l
  <2> QED BY <1>1, <2>2, <2>3, EndedFacts, OwnStep, ZenonT(30), ZenonT(60) DEF l
<1>2. CASE ~app[c].running
  <2>1. link' = link
    BY <1>2, Owner DEF Unconnected, CloseSocket
  <2>2. link' \in [Links -> LinkType]
    BY <2>1 DEF SysInv, SysTypes
  <2>3. ClientOK(Ended, link')
    BY EndedFacts DEF ClientOK
  <2> QED BY <2>1, <2>2, <2>3, EndedFacts, ClientStep, ZenonT(30), ZenonT(60)
<1> QED BY <1>1, <1>2

\* send(), on a connection without a request under way.
LEMMA SendForms ==
  ASSUME NEW l, NEW req
  PROVE  /\ link[l].wire = "open" /\ link[l].up = <<>> =>
              SendOn(link, l, req) = [link EXCEPT ![l] = [link[l] EXCEPT !.up = <<req>>]]
         /\ link[l].wire # "open" =>
              SendOn(link, l, req) = [link EXCEPT ![l] = [link[l] EXCEPT !.wire = "dead"]]
<1>1. CASE link[l].wire = "open" /\ link[l].up = <<>>
  <2>1. Append(link[l].up, req) = <<req>>
    BY <1>1
  <2> QED BY <1>1, <2>1 DEF SendOn
<1>2. CASE link[l].wire # "open"
  BY <1>2 DEF SendOn
<1> QED BY <1>1, <1>2

\* HandleExit: the farewell is the one message under way.
LEMMA ExitStep ==
  ASSUME SysInv, UNCHANGED <<serverVars, server>>, NEW c \in Clients, app[c].at = "menu",
         HandleExit(c)
  PROVE  SysInv'
<1> DEFINE l == app[c].link
           bye == app[c].state # "SESSION_DISCONNECTED" /\ link[l].wire = "open"
<1>1. CASE ~bye
  BY <1>1, EndStep, ZenonT(30), ZenonT(60) DEF HandleExit
<1>2. CASE bye
  <2> DEFINE k == [link[l] EXCEPT !.wire = "closed", !.down = <<>>, !.up = <<<<"OPCODE_EXIT">>>>]
  <2>1. app[c].running
    BY <1>2, Owner DEF Unconnected
  <2>2. l \in Links /\ l # NoLink /\ link[l] \in LinkType /\ LinkOK(link[l])
    BY <2>1, OwnLink
  <2>3. link[l].up = <<>> /\ link[l].down = <<>>
    BY <2>1, Owner DEF Connected
  <2>4. SendOn(link, l, <<"OPCODE_EXIT">>) = [link EXCEPT ![l] = [link[l] EXCEPT !.up = <<<<"OPCODE_EXIT">>>>]]
    BY <1>2, <2>3, SendForms
  <2>5. link' = [link EXCEPT ![l] = k]
    <3>1. link \in [Links -> LinkType]
      BY DEF SysInv, SysTypes
    <3>2. link' = CloseSocket([link EXCEPT ![l] = [link[l] EXCEPT !.up = <<<<"OPCODE_EXIT">>>>]], l)
      BY <1>2, <2>4 DEF HandleExit
    <3> QED BY <1>2, <2>2, <3>1, <3>2, ZenonT(30), ZenonT(60) DEF CloseSocket, LinkType
  <2>6. k \in LinkType /\ LinkOK(k) /\ k.fd = link[l].fd
    <3>1. <<"OPCODE_EXIT">> \in Request
      BY DEF Request
    <3>2. <<<<"OPCODE_EXIT">>>> \in AtMostOne(Request) /\ <<>> \in AtMostOne(Response)
      BY <3>1, OneMessage
    <3>3. k \in LinkType
      BY <2>2, <3>2, ZenonT(30), ZenonT(60) DEF LinkType, Wire
    <3>4. /\ k.wire = "closed" /\ k.down = <<>> /\ k.up = <<<<"OPCODE_EXIT">>>> /\ k.fd = link[l].fd
      BY <2>2 DEF LinkType
    <3>5. LinkOK(k)
      BY <2>2, <3>4 DEF LinkOK
    <3> QED BY <3>3, <3>4, <3>5
  <2>7. app' = [app EXCEPT ![c] = Ended]
    BY DEF HandleExit
  <2> HIDE DEF k
  <2> QED BY <2>1, <2>5, <2>6, <2>7, EndedFacts, OwnStep, ZenonT(30), ZenonT(60)
<1> QED BY <1>1, <1>2

\* HandleConnect, with a new connection or on the one the controller still holds.
LEMMA ConnectStep ==
  ASSUME SysInv, UNCHANGED <<serverVars, server>>, NEW c \in Clients, app[c].at = "menu",
         HandleConnect(c)
  PROVE  SysInv' \/ UNCHANGED <<app, link>>
<1>0. app[c] \in Process /\ app[c].state = "SESSION_DISCONNECTED"
  <2>1. app[c] \in Process /\ "MENU_CONNECT" \in Menu_GetOptions(app[c].state)
    BY Owner DEF HandleConnect
  <2> QED BY <2>1 DEF Process, SessionState, Menu_GetOptions
<1>1. ASSUME NEW l \in ClientController_Start(c),
             app' = [app EXCEPT ![c].state = "SESSION_CONNECTED", ![c].running = TRUE, ![c].link = l],
             link' = IF app[c].running THEN link ELSE [link EXCEPT ![l].wire = "open"]
      PROVE  SysInv'
  <2> DEFINE a == [app[c] EXCEPT !.state = "SESSION_CONNECTED", !.running = TRUE, !.link = l]
  <2>1. app' = [app EXCEPT ![c] = a]
    BY <1>1, ZenonT(30), ZenonT(60) DEF SysInv, SysTypes
  <2>2. l \in Links
    BY <1>1, Owner DEF ClientController_Start
  <2>3. /\ a \in Process /\ a.running /\ a.link = l /\ a.at = "menu"
        /\ a.state = "SESSION_CONNECTED" /\ a.windows = app[c].windows
        /\ a.request = app[c].request
    BY <1>0, <2>2, ZenonT(30), ZenonT(60) DEF Process, SessionState
  <2> HIDE DEF a
  <2>4. CASE app[c].running
    <3>1. l = app[c].link /\ link' = link
      BY <1>1, <2>4 DEF ClientController_Start
    <3>2. /\ link[l] \in LinkType /\ LinkOK(link[l]) /\ Connected(app[c], link[l])
          /\ link' = [link EXCEPT ![l] = link[l]]
      BY <2>2, <2>4, <3>1, OwnLink, Owner DEF SysInv, SysTypes
    <3>3. link[l].up = <<>> /\ link[l].down = <<>>
      BY <3>2 DEF Connected
    <3>4. link[l].wire # "open"
      BY <1>0, <3>2, <3>3 DEF Connected, Outcomes, Agrees
    <3>5. Connected(a, link[l])
      BY <2>3, <3>2, <3>3, <3>4 DEF Connected, Outcomes
    <3> QED BY <2>1, <2>3, <2>4, <3>1, <3>2, <3>5, OwnStep, ZenonT(30), ZenonT(60)
  <2>5. CASE ~app[c].running
    <3> DEFINE k == [link[l] EXCEPT !.wire = "open"]
    <3>1. link[l].wire = "free" /\ link[l] \in LinkType /\ LinkOK(link[l])
      BY <1>1, <2>2, <2>5 DEF ClientController_Start, SysInv, SysTypes
    <3>2. /\ k.wire = "open" /\ k.fd = NoFd /\ k.up = <<>> /\ k.down = <<>> /\ k \in LinkType
          /\ link[l].fd = NoFd
      BY <3>1 DEF LinkType, LinkOK, Wire
    <3>3. LinkOK(k)
      BY <3>2 DEF LinkOK
    <3>4. /\ link' \in [Links -> LinkType] /\ link'[l] = k
          /\ \A m \in Links : m # l => link'[m] = link[m]
      <4>1. link \in [Links -> LinkType]
        BY DEF SysInv, SysTypes
      <4> QED BY <1>1, <2>2, <2>5, <3>2, <4>1
    <3> HIDE DEF k
    <3>5. \A d \in Clients : app[d].link # l
      BY <2>2, <3>1, Owner DEF Connected
    <3>6. Connected(a, k)
      <4>1. ~IsFdLoggedIn(NoFd)
        BY ChatTypesAssumption DEF SysInv, ServerSide, IsFdLoggedIn
      <4>2. a.windows = HashMap_Create
        BY <2>3, <2>5, Owner DEF Unconnected
      <4>3. Agrees(a, NoFd)
        BY <2>3, <4>1, <4>2 DEF Agrees, HashMap_Create
      <4> QED BY <2>3, <3>2, <4>3 DEF Connected, Outcomes
    <3>7. ClientOK(a, link')
      BY <2>2, <2>3, <3>4, <3>6 DEF ClientOK
    <3>8. \A m \in Links : \/ link'[m] = link[m]
                           \/ /\ \A d \in Clients \ {c} : app[d].link # m
                              /\ LinkOK(link'[m])
                              /\ link'[m].fd \in {link[m].fd, NoFd}
      BY <3>2, <3>3, <3>4, <3>5
    <3> QED BY <2>1, <2>3, <3>4, <3>5, <3>7, <3>8, ClientStep, ZenonT(30), ZenonT(60)
  <2> QED BY <2>4, <2>5
<1> QED BY <1>1 DEF HandleConnect

\* The menu has requests only for a connected client, and LOGOUT after the login.
LEMMA MenuRequests ==
  ASSUME NEW state \in SessionState, NEW choice \in Menu_GetOptions(state),
         NEW req \in RequestsFor(choice)
  PROVE  /\ state # "SESSION_DISCONNECTED"
         /\ req \in Request
         /\ req # <<"OPCODE_EXIT">>
         /\ req = <<"OPCODE_LOGOUT">> => state = "SESSION_LOGGED_IN"
<1>1. CASE state = "SESSION_DISCONNECTED"
  BY <1>1 DEF Menu_GetOptions, RequestsFor
<1>2. CASE state = "SESSION_CONNECTED"
  <2>1. req \in {"OPCODE_REGISTER", "OPCODE_LOGIN"} \X Names \X Passwords
    BY <1>2 DEF Menu_GetOptions, RequestsFor
  <2> QED BY <1>2, <2>1 DEF Request
<1>3. CASE state = "SESSION_LOGGED_IN"
  <2>1. \/ req \in {"OPCODE_CREATE_GROUP", "OPCODE_JOIN_GROUP", "OPCODE_LEAVE_GROUP"} \X GroupNames
        \/ req \in {<<"OPCODE_LOGOUT">>, <<"OPCODE_LIST_USERS">>, <<"OPCODE_LIST_GROUPS">>}
    BY <1>3 DEF Menu_GetOptions, RequestsFor
  <2> QED BY <1>3, <2>1 DEF Request
<1> QED BY <1>1, <1>2, <1>3 DEF SessionState

\* ExchangeMessage sends: the client waits, stays, or is ended by SIGPIPE.
LEMMA SendStep ==
  ASSUME SysInv, UNCHANGED <<serverVars, server>>, NEW c \in Clients, app[c].at = "menu",
         ExchangeSend(c)
  PROVE  SysInv'
<1> DEFINE l == app[c].link
<1>0. PICK choice \in Menu_GetOptions(app[c].state) : \E req \in RequestsFor(choice) :
        \/ /\ link[l].wire \in {"open", "fin"}
           /\ link' = SendOn(link, l, req)
           /\ app' = [app EXCEPT ![c].at = "recv", ![c].request = req]
        \/ /\ link[l].wire = "reset"
           /\ link' = SendOn(link, l, req)
           /\ UNCHANGED app
        \/ /\ link[l].wire = "dead"
           /\ link' = CloseSocket(link, l)
           /\ app' = [app EXCEPT ![c] = Ended]
  BY DEF ExchangeSend
<1>1. PICK req \in RequestsFor(choice) :
        \/ /\ link[l].wire \in {"open", "fin"}
           /\ link' = SendOn(link, l, req)
           /\ app' = [app EXCEPT ![c].at = "recv", ![c].request = req]
        \/ /\ link[l].wire = "reset"
           /\ link' = SendOn(link, l, req)
           /\ UNCHANGED app
        \/ /\ link[l].wire = "dead"
           /\ link' = CloseSocket(link, l)
           /\ app' = [app EXCEPT ![c] = Ended]
  BY <1>0
<1>2. app[c] \in Process /\ app[c].state \in SessionState
  BY Owner DEF Process
<1>3. /\ app[c].state # "SESSION_DISCONNECTED" /\ req \in Request /\ req # <<"OPCODE_EXIT">>
      /\ req = <<"OPCODE_LOGOUT">> => app[c].state = "SESSION_LOGGED_IN"
  BY <1>2, MenuRequests
<1>4. app[c].running /\ Connected(app[c], link[l])
  BY <1>3, Owner DEF Unconnected
<1>5. l \in Links /\ link[l] \in LinkType /\ LinkOK(link[l])
  BY <1>4, OwnLink
<1>6. link[l].up = <<>> /\ link[l].down = <<>>
  BY <1>4 DEF Connected
<1> DEFINE a == [app[c] EXCEPT !.at = "recv", !.request = req]
           sent == [link[l] EXCEPT !.up = <<req>>]
           dead == [link[l] EXCEPT !.wire = "dead"]
<1>7. /\ a \in Process /\ a.running /\ a.link = l /\ a.at = "recv" /\ a.request = req
      /\ a.state = app[c].state /\ a.user = app[c].user /\ a.windows = app[c].windows
  BY <1>2, <1>3, <1>4, ZenonT(30), ZenonT(60) DEF Process
<1>8. CASE link[l].wire \in {"fin", "reset"} /\ link' = SendOn(link, l, req)
  <2>1. link' = [link EXCEPT ![l] = dead]
    BY <1>8, SendForms
  <2>2. /\ dead \in LinkType /\ dead.wire = "dead" /\ dead.fd = link[l].fd
        /\ dead.up = <<>> /\ dead.down = <<>>
    BY <1>5, <1>6 DEF LinkType, Wire
  <2>3. LinkOK(dead)
    <3>1. link[l].fd = NoFd
      BY <1>4, <1>5, <1>8, ZenonT(30), ZenonT(60) DEF LinkOK, Connected
    <3> QED BY <2>2, <3>1 DEF LinkOK
  <2> HIDE DEF dead
  <2>4. Connected(app[c], dead) /\ Connected(a, dead)
    BY <1>2, <1>7, <2>2 DEF Connected, Outcomes
  <2>5. CASE UNCHANGED app
    <3>1. app' = [app EXCEPT ![c] = app[c]]
      BY <2>5 DEF SysInv, SysTypes
    <3> QED BY <1>2, <1>4, <2>1, <2>2, <2>3, <2>4, <3>1, OwnStep, ZenonT(30), ZenonT(60)
  <2>6. CASE app' = [app EXCEPT ![c].at = "recv", ![c].request = req]
    <3>1. app' = [app EXCEPT ![c] = a]
      BY <2>6, ZenonT(30), ZenonT(60) DEF SysInv, SysTypes
    <3> HIDE DEF a
    <3> QED BY <1>4, <1>7, <2>1, <2>2, <2>3, <2>4, <3>1, OwnStep, ZenonT(30), ZenonT(60)
  <2> QED BY <1>1, <1>8, <2>5, <2>6
<1>9. CASE /\ link[l].wire = "open" /\ link' = SendOn(link, l, req)
           /\ app' = [app EXCEPT ![c].at = "recv", ![c].request = req]
  <2>1. link' = [link EXCEPT ![l] = sent]
    BY <1>6, <1>9, SendForms
  <2>2. /\ sent \in LinkType /\ sent.wire = "open" /\ sent.fd = link[l].fd
        /\ sent.up = <<req>> /\ sent.down = <<>>
    <3>1. <<req>> \in AtMostOne(Request)
      BY <1>3, OneMessage
    <3> QED BY <1>5, <1>6, <1>9, <3>1 DEF LinkType
  <2>3. Agrees(app[c], link[l].fd)
    BY <1>4, <1>6, <1>9 DEF Connected, Outcomes
  <2>4. LinkOK(sent)
    <3>1. req = <<"OPCODE_LOGOUT">> => IsFdLoggedIn(link[l].fd)
      BY <1>3, <2>3 DEF Agrees
    <3>2. link[l].fd # NoFd => link[l].fd \in conns
      BY <1>5 DEF LinkOK
    <3>3. <<req>> = <<<<"OPCODE_LOGOUT">>>> => req = <<"OPCODE_LOGOUT">>
      BY ONLY SMT, SMTT(30)
    <3> HIDE DEF sent
    <3> QED BY ONLY <2>2, <3>1, <3>2, <3>3 DEF LinkOK
  <2>5. app' = [app EXCEPT ![c] = a]
    BY <1>9, ZenonT(30), ZenonT(60) DEF SysInv, SysTypes
  <2> HIDE DEF a, sent
  <2>6. Connected(a, sent)
    <3>1. Agrees(a, sent.fd)
      BY <1>7, <2>2, <2>3 DEF Agrees
    <3> QED BY <1>3, <1>7, <2>2, <3>1 DEF Connected, Outcomes
  <2> QED BY <1>4, <1>7, <2>1, <2>2, <2>4, <2>5, <2>6, OwnStep, ZenonT(30), ZenonT(60)
<1>10. CASE link' = CloseSocket(link, l) /\ app' = [app EXCEPT ![c] = Ended]
  BY <1>10, EndStep, ZenonT(30), ZenonT(60)
<1> QED BY <1>1, <1>8, <1>9, <1>10

\* ExchangeMessage receives: the answer, the end of the connection, or the reset.
LEMMA ReceiveStep ==
  ASSUME SysInv, UNCHANGED <<serverVars, server>>, NEW c \in Clients, ExchangeReceive(c)
  PROVE  SysInv'
<1> DEFINE l == app[c].link
<1>1. app[c].at = "recv" /\ app[c] \in Process
  BY Owner DEF ExchangeReceive
<1>2. app[c].running /\ Connected(app[c], link[l])
  BY <1>1, Owner DEF Unconnected
<1>3. l \in Links /\ link[l] \in LinkType /\ LinkOK(link[l])
  BY <1>2, OwnLink
<1>4. CASE /\ link[l].down # <<>>
           /\ \E a \in AfterReply(app[c], Head(link[l].down)) : app' = [app EXCEPT ![c] = a]
           /\ link' = [link EXCEPT ![l].down = Tail(@)]
  <2> DEFINE k == [link[l] EXCEPT !.down = <<>>]
  <2>1. PICK a \in AfterReply(app[c], Head(link[l].down)) : app' = [app EXCEPT ![c] = a]
    BY <1>4, ZenonT(30), ZenonT(60)
  <2>2. /\ a \in Process /\ a.running /\ a.link = l
        /\ link[l].wire = "open" => Agrees(a, link[l].fd)
    <3>1. a \in Outcomes(app[c], link[l].down)
      BY <1>4 DEF Outcomes
    <3>2. a \in Process /\ (link[l].wire = "open" => Agrees(a, link[l].fd))
      BY <1>2, <3>1 DEF Connected
    <3>3. a.link = app[c].link /\ a.running = app[c].running
      BY ONLY <1>1, a \in AfterReply(app[c], Head(link[l].down)), AfterReplyKeeps
    <3> QED BY <1>2, <3>2, <3>3
  <2>3. Tail(link[l].down) = <<>> /\ <<>> \in AtMostOne(Response)
    BY <1>3, <1>4, OneMessage DEF LinkType
  <2>4. link' = [link EXCEPT ![l] = k]
    BY <1>3, <1>4, <2>3, ZenonT(30), ZenonT(60) DEF SysInv, SysTypes
  <2>5. /\ k \in LinkType /\ k.wire = link[l].wire /\ k.fd = link[l].fd
        /\ k.up = link[l].up /\ k.down = <<>>
    BY <1>3, <2>3 DEF LinkType
  <2>6. link[l].up = <<>>
    BY <1>3, <1>4 DEF LinkOK
  <2> HIDE DEF k
  <2>7. LinkOK(k)
    BY <1>3, <2>5 DEF LinkOK
  <2>8. Connected(a, k)
    BY <1>2, <2>2, <2>5, <2>6 DEF Connected, Outcomes
  <2> QED BY <1>2, <2>1, <2>2, <2>4, <2>5, <2>7, <2>8, OwnStep, ZenonT(30), ZenonT(60)
<1>5. ASSUME link[l].down = <<>>, link[l].wire \in {"fin", "dead", "reset"},
             NEW state \in SessionState,
             app' = [app EXCEPT ![c] = [app[c] EXCEPT !.at = "menu", !.request = <<"OTHER">>,
                                                      !.state = state]],
             \/ link' = link
             \/ link' = [link EXCEPT ![l].wire = "dead"]
      PROVE  SysInv'
  <2> DEFINE a == [app[c] EXCEPT !.at = "menu", !.request = <<"OTHER">>, !.state = state]
  <2>1. link[l].up = <<>> /\ link[l].fd = NoFd
    BY <1>3, <1>5 DEF LinkOK
  <2>2. a \in Process /\ a.running /\ a.link = l
    <3>1. <<"OTHER">> \in Request
      BY DEF Request
    <3> QED BY <1>1, <1>2, <1>5, <3>1, ZenonT(30), ZenonT(60) DEF Process
  <2>3. PICK k \in LinkType :
          /\ link' = [link EXCEPT ![l] = k]
          /\ k.wire \in {"fin", "dead", "reset"} /\ k.fd = NoFd /\ k.up = <<>> /\ k.down = <<>>
    <3>1. CASE link' = link
      <4>1. link' = [link EXCEPT ![l] = link[l]]
        BY <1>3, <3>1 DEF SysInv, SysTypes
      <4> QED BY <1>3, <1>5, <2>1, <4>1, ZenonT(30), ZenonT(60)
    <3>2. CASE link' = [link EXCEPT ![l].wire = "dead"]
      <4> DEFINE d == [link[l] EXCEPT !.wire = "dead"]
      <4>1. link' = [link EXCEPT ![l] = d]
        BY <1>3, <3>2 DEF SysInv, SysTypes
      <4>2. /\ d \in LinkType /\ d.wire = "dead" /\ d.fd = NoFd /\ d.up = <<>> /\ d.down = <<>>
        BY <1>3, <1>5, <2>1 DEF LinkType, Wire
      <4> HIDE DEF d
      <4> QED BY <4>1, <4>2, ZenonT(30), ZenonT(60)
    <3> QED BY <1>5, <3>1, <3>2
  <2>4. LinkOK(k)
    BY <2>3 DEF LinkOK
  <2> HIDE DEF a
  <2>5. Connected(a, k)
    BY <2>2, <2>3 DEF Connected, Outcomes
  <2>6. app' = [app EXCEPT ![c] = a]
    BY <1>5 DEF a
  <2> QED BY <1>2, <2>2, <2>3, <2>4, <2>5, <2>6, OwnStep, ZenonT(30), ZenonT(60)
<1>6. CASE /\ link[l].down = <<>>
           /\ link[l].wire \in {"fin", "dead"}
           /\ app' = [app EXCEPT ![c].at = "menu", ![c].request = <<"OTHER">>,
                                 ![c].state = "SESSION_DISCONNECTED"]
           /\ UNCHANGED link
  <2>1. app' = [app EXCEPT ![c] = [app[c] EXCEPT !.at = "menu", !.request = <<"OTHER">>,
                                                 !.state = "SESSION_DISCONNECTED"]]
    BY <1>6, ZenonT(30), ZenonT(60) DEF SysInv, SysTypes
  <2>2. "SESSION_DISCONNECTED" \in SessionState
    BY DEF SessionState
  <2> QED BY <1>5, <1>6, <2>1, <2>2, ZenonT(30), ZenonT(60)
<1>7. CASE /\ link[l].down = <<>>
           /\ link[l].wire = "reset"
           /\ app' = [app EXCEPT ![c].at = "menu", ![c].request = <<"OTHER">>]
           /\ link' = [link EXCEPT ![l].wire = "dead"]
  <2>1. app' = [app EXCEPT ![c] = [app[c] EXCEPT !.at = "menu", !.request = <<"OTHER">>,
                                                 !.state = app[c].state]]
    BY <1>1, <1>7, ZenonT(30), ZenonT(60) DEF SysInv, SysTypes, Process
  <2>2. app[c].state \in SessionState
    BY <1>1 DEF Process
  <2> QED BY <1>5, <1>7, <2>1, <2>2, ZenonT(30), ZenonT(60)
<1> QED BY <1>4, <1>6, <1>7, ZenonT(30), ZenonT(60) DEF ExchangeReceive

\* Every step of a client.
LEMMA ClientInv ==
  ASSUME SysInv, NEW c \in Clients, Client(c)
  PROVE  SysInv' \/ UNCHANGED sysVars
<1>1. UNCHANGED <<serverVars, server>>
  BY DEF Client
<1>2. CASE app[c].at = "menu" /\ HandleConnect(c)
  BY <1>1, <1>2, ConnectStep DEF sysVars
<1>3. CASE app[c].at = "menu" /\ ExchangeSend(c)
  BY <1>1, <1>3, SendStep
<1>4. CASE app[c].at = "menu" /\ HandleExit(c)
  BY <1>1, <1>4, ExitStep
<1>5. CASE ExchangeReceive(c)
  BY <1>1, <1>5, ReceiveStep
<1>6. CASE Kill(c)
  BY <1>1, <1>6, EndStep, ZenonT(30), ZenonT(60) DEF Kill
<1>7. CASE /\ app[c].at = "ended"
           /\ app' = [app EXCEPT ![c] = ClientApp_Create]
           /\ UNCHANGED link
  <2>1. link' \in [Links -> LinkType]
    BY <1>7 DEF SysInv, SysTypes
  <2>2. ClientOK(ClientApp_Create, link')
    BY EndedFacts DEF ClientOK
  <2> QED BY <1>1, <1>7, <2>1, <2>2, EndedFacts, ClientStep, ZenonT(30), ZenonT(60)
<1> QED BY <1>2, <1>3, <1>4, <1>5, <1>6, <1>7 DEF Client

-----------------------------------------------------------------------------
(* The server's steps.                                                     *)

\* A step of the server on the connection l, which becomes k and whose fd is, was
\* or will be fd.
LEMMA ServerStep ==
  ASSUME SysInv, ServerSide', LogoutAssertHolds', UNCHANGED <<app, server>>,
         NEW l \in Links, NEW k \in LinkType, link' = [link EXCEPT ![l] = k],
         NEW fd \in Fds, k.fd \in {fd, NoFd}, \A m \in Links \ {l} : link[m].fd # fd,
         \A x : x # fd => KeepsSession(x), conns \ {fd} \subseteq conns',
         LinkOK(k)',
         \A c \in Clients : app[c].running /\ app[c].link = l => Connected(app[c], k)'
  PROVE  SysInv'
<1>1. link \in [Links -> LinkType] /\ app \in [Clients -> Process]
  BY DEF SysInv, SysTypes
<1>2. link' \in [Links -> LinkType] /\ link'[l] = k /\ \A m \in Links \ {l} : link'[m] = link[m]
  BY <1>1
<1>3. SysTypes'
  BY <1>1, <1>2 DEF SysInv, SysTypes
<1>4. Owners'
  <2>1. \A j, m \in Links : link'[j].fd = link'[m].fd /\ link'[j].fd # NoFd => j = m
    BY <1>2 DEF SysInv, Owners
  <2> QED BY <2>1 DEF SysInv, Owners
<1>5. ASSUME NEW m \in Links PROVE LinkOK(link[m])'
  <2>1. CASE m = l
    BY <1>2, <2>1
  <2>2. CASE m # l
    <3>1. LinkOK(link[m]) /\ link'[m] = link[m] /\ KeepsSession(link[m].fd)
      BY <1>2, <2>2 DEF SysInv
    <3>2. link[m].fd \in conns => link[m].fd \in conns'
      BY <2>2
    <3> QED BY <3>1, <3>2 DEF LinkOK, KeepsSession, IsFdLoggedIn
  <2> QED BY <2>1, <2>2
<1>6. ASSUME NEW c \in Clients PROVE ClientOK(app[c], link)'
  <2>0. app'[c] = app[c] /\ app[c].running \in BOOLEAN
    BY <1>1 DEF Process
  <2>1. CASE app[c].running /\ app[c].link = l
    BY <1>2, <1>6, <2>0, <2>1 DEF ClientOK
  <2>2. CASE app[c].running /\ app[c].link # l
    <3>1. app[c].link \in Links /\ Connected(app[c], link[app[c].link])
      BY <1>6, <2>2, Owner
    <3>2. link'[app[c].link] = link[app[c].link] /\ KeepsSession(link[app[c].link].fd)
      BY <1>2, <2>2, <3>1
    <3>3. \A b : Agrees(b, link[app[c].link].fd) => Agrees(b, link[app[c].link].fd)'
      BY <3>2, ZenonT(30), ZenonT(60) DEF Agrees, KeepsSession, IsFdLoggedIn, Told
    <3>4. Connected(app[c], link[app[c].link])'
      BY <2>0, <3>1, <3>2, <3>3, ZenonT(30), ZenonT(60) DEF Connected
    <3> QED BY <2>0, <2>2, <3>1, <3>4 DEF ClientOK
  <2>3. CASE ~app[c].running
    BY <1>6, <2>0, <2>3, Owner, ZenonT(30), ZenonT(60) DEF ClientOK, Unconnected
  <2> QED BY <2>0, <2>1, <2>2, <2>3
<1> QED BY <1>3, <1>4, <1>5, <1>6, SysInvParts, ZenonT(30), ZenonT(60)

\* The connection l, seen from the server.
LEMMA ServedLink ==
  ASSUME SysInv, NEW l \in Links
  PROVE  /\ link[l] \in LinkType /\ LinkOK(link[l])
         /\ link[l].fd # NoFd =>
              /\ link[l].fd \in Fds /\ link[l].fd \in conns
              /\ \A m \in Links \ {l} : link[m].fd # link[l].fd
         /\ link[l].wire \notin {"open", "fin", "reset", "dead"} =>
              \A c \in Clients : app[c].link # l
<1>1. link[l] \in LinkType /\ LinkOK(link[l])
  BY DEF SysInv, SysTypes
<1>2. link[l].fd # NoFd =>
        /\ link[l].fd \in Fds /\ link[l].fd \in conns
        /\ \A m \in Links \ {l} : link[m].fd # link[l].fd
  BY <1>1 DEF LinkType, LinkOK, SysInv, Owners
<1>3. link[l].wire \notin {"open", "fin", "reset", "dead"} => \A c \in Clients : app[c].link # l
  BY Owner DEF Connected
<1> QED BY <1>1, <1>2, <1>3

\* A connection is accepted: the server finds no session on the fd, and the client
\* has none to show.
LEMMA AcceptStep ==
  ASSUME SysInv, NEW l \in Links, Accept(l), ServerSide'
  PROVE  SysInv'
<1>0. ServerSide /\ LogoutAssertHolds
  BY DEF SysInv
<1>1. PICK fd \in Fds : CallbackNewConnection(fd) /\ link' = [link EXCEPT ![l].fd = fd]
  BY ZenonT(30), ZenonT(60) DEF Accept
<1>2. /\ link[l].wire \in {"open", "closed"} /\ link[l].fd = NoFd
      /\ UNCHANGED <<app, server>>
  BY DEF Accept
<1>3. /\ fd \notin conns /\ conns' = conns \cup {fd}
      /\ usersByFd' = usersByFd /\ told' = told /\ reply' = reply
  BY <1>1 DEF CallbackNewConnection, umVars
<1>4. LogoutAssertHolds'
  BY <1>0, <1>3 DEF LogoutAssertHolds
<1>5. \A x : KeepsSession(x)
  BY <1>3 DEF KeepsSession, IsFdLoggedIn, Told
<1>6. link[l] \in LinkType /\ LinkOK(link[l])
  BY ServedLink
<1>7. PICK k \in LinkType :
        /\ k.fd = fd /\ k.wire = link[l].wire /\ k.up = link[l].up /\ k.down = link[l].down
        /\ link' = [link EXCEPT ![l] = k]
  <2> DEFINE x == [link[l] EXCEPT !.fd = fd]
  <2>1. /\ x \in LinkType /\ x.fd = fd /\ x.wire = link[l].wire /\ x.up = link[l].up
        /\ x.down = link[l].down
    BY <1>6 DEF LinkType
  <2>2. link' = [link EXCEPT ![l] = x]
    BY <1>1 DEF SysInv, SysTypes
  <2> HIDE DEF x
  <2> QED BY <2>1, <2>2, ZenonT(30), ZenonT(60)
<1>9. ~IsFdLoggedIn(NoFd) /\ ~IsFdLoggedIn(fd)
  BY <1>0, <1>3, ChatTypesAssumption
     DEF ServerSide, IsFdLoggedIn
<1>10. LinkOK(k)'
  BY <1>2, <1>3, <1>6, <1>7, <1>9 DEF LinkOK
<1>11. \A m \in Links \ {l} : link[m].fd # fd
  BY <1>3, ChatTypesAssumption DEF SysInv, LinkOK
<1>12. ASSUME NEW b, Agrees(b, NoFd) PROVE Agrees(b, fd)'
  <2>1. Told(NoFd) = {}
    BY ChatTypesAssumption DEF Told
  <2>2. ~IsFdLoggedIn(fd)'
    BY <1>3, <1>9 DEF IsFdLoggedIn
  <2> QED BY <1>9, <1>12, <2>1, <2>2 DEF Agrees
<1>13. ASSUME NEW c \in Clients, app[c].running, app[c].link = l
       PROVE  Connected(app[c], k)'
  <2>1. Connected(app[c], link[l]) /\ app'[c] = app[c]
    BY <1>2, <1>13, Owner
  <2> QED BY <1>2, <1>7, <1>12, <2>1 DEF Connected
<1>14. \A x : x # fd => KeepsSession(x)
  BY <1>5
<1>15. conns \ {fd} \subseteq conns'
  BY <1>3
<1> QED BY <1>2, <1>4, <1>7, <1>10, <1>11, <1>13, <1>14, <1>15, ServerStep, ZenonT(30), ZenonT(60)

\* A reply that fits the request that is waiting.
LEMMA ReplyFits ==
  ASSUME ServerSide', reply' \in Reply
  PROVE  [status |-> reply'.status, port |-> EndpointFor(groups', request')] \in Response
<1>1. reply'.status \in ChatStatus
  BY DEF Reply
<1>2. EndpointFor(groups', request') \in Ports \cup {NoPort}
  <2>1. \A g \in DOMAIN groups' : groups'[g].port \in Ports
    BY DEF ServerSide
  <2> QED BY <2>1 DEF EndpointFor
<1> HIDE DEF Ports, ChatStatus
<1> QED BY <1>1, <1>2 DEF Response

\* A request is served: the client that waits for the answer will agree with the
\* server, and the others do as before.
LEMMA ServeStep ==
  ASSUME SysInv, NEW l \in Links, Serve(l), ServerSide', reply' \in Reply,
         \A fd \in Fds : CallbackRecv(fd) =>
           /\ Effect(fd)
           /\ conns' = conns
           /\ (request' = <<"OPCODE_LOGOUT">> => IsFdLoggedIn(fd)) => LogoutAssertHolds'
  PROVE  SysInv'
<1>0. ServerSide
  BY DEF SysInv
<1>1. PICK fd \in Fds :
        /\ fd = link[l].fd /\ fd # NoFd /\ fd \in conns
        /\ \A m \in Links \ {l} : link[m].fd # fd
  BY ServedLink DEF Serve
<1>2. /\ link[l].up # <<>> /\ request' = Head(link[l].up) /\ CallbackRecv(fd)
      /\ UNCHANGED <<app, server>>
      /\ link' = [link EXCEPT ![l] =
           SendReply([link[l] EXCEPT !.up = Tail(@)],
                     [status |-> reply'.status, port |-> EndpointFor(groups', request')])]
      /\ link[l] \in LinkType /\ LinkOK(link[l])
  BY <1>1, ServedLink DEF Serve
<1>4. request' \in Request /\ link[l].up = <<request'>> /\ Tail(link[l].up) = <<>>
  BY <1>1, <1>2, OneMessage DEF LinkType
<1>5. Effect(fd) /\ conns' = conns /\ LogoutAssertHolds'
  <2>1. request' = <<"OPCODE_LOGOUT">> => IsFdLoggedIn(fd)
    BY <1>1, <1>2, <1>4 DEF LinkOK
  <2> QED BY <1>1, <1>2, <2>1
<1>6. \A x : x # fd => KeepsSession(x)
  BY <1>0, <1>1, <1>2, <1>5, OthersKeepSession
<1>7. link[l].wire \in {"open", "closed"} /\ link[l].down = <<>>
  BY <1>1, <1>2 DEF LinkOK, LinkType, Wire
<1>8. PICK resp \in Response :
        /\ resp.status = reply'.status /\ resp.port = EndpointFor(groups', request')
        /\ link' = [link EXCEPT ![l] = SendReply([link[l] EXCEPT !.up = Tail(@)], resp)]
  BY <1>2, ReplyFits, ZenonT(30), ZenonT(60)
<1>9. PICK k \in LinkType :
        /\ k.fd = fd /\ k.up = <<>> /\ link' = [link EXCEPT ![l] = k]
        /\ IF link[l].wire = "open" THEN k.wire = "open" /\ k.down = <<resp>>
                                    ELSE k.wire = "broken" /\ k.down = <<>>
  <2> DEFINE open == [link[l] EXCEPT !.up = <<>>, !.down = <<resp>>]
             broken == [link[l] EXCEPT !.up = <<>>, !.wire = "broken"]
  <2>1. /\ <<>> \in AtMostOne(Request) /\ <<resp>> \in AtMostOne(Response)
        /\ Append(link[l].down, resp) = <<resp>>
    BY <1>7, OneMessage
  <2>2. /\ open \in LinkType /\ broken \in LinkType
        /\ open.fd = fd /\ open.up = <<>> /\ open.down = <<resp>> /\ open.wire = link[l].wire
        /\ broken.fd = fd /\ broken.up = <<>> /\ broken.down = <<>> /\ broken.wire = "broken"
    BY <1>1, <1>2, <1>7, <2>1, ZenonT(30), ZenonT(60) DEF LinkType, Wire
  <2>3. SendReply([link[l] EXCEPT !.up = Tail(@)], resp) =
          IF link[l].wire = "open" THEN open ELSE broken
    BY <1>1, <1>2, <1>4, <2>1, ZenonT(30), ZenonT(60) DEF SendReply, LinkType
  <2> HIDE DEF open, broken
  <2>4. CASE link[l].wire = "open"
    BY <1>8, <2>2, <2>3, <2>4, ZenonT(30), ZenonT(60)
  <2>5. CASE link[l].wire # "open"
    BY <1>8, <2>2, <2>3, <2>5, ZenonT(30), ZenonT(60)
  <2> QED BY <2>4, <2>5
<1>10. LinkOK(k)'
  <2>1. k.fd \in conns'
    BY <1>1, <1>2, <1>5, <1>9
  <2> QED BY <1>9, <2>1 DEF LinkOK
<1>11. ASSUME NEW c \in Clients, app[c].running, app[c].link = l
       PROVE  Connected(app[c], k)'
  <2>1. Connected(app[c], link[l]) /\ app'[c] = app[c] /\ app[c] \in Process
    BY <1>1, <1>2, <1>11, Owner
  <2>2. link[l].wire = "open"
    BY <1>7, <2>1 DEF Connected
  <2>3. /\ app[c].request = request' /\ request' # <<"OPCODE_EXIT">> /\ Agrees(app[c], fd)
        /\ app[c].at # "menu"
    BY <1>1, <1>2, <1>7, <2>1, <2>2 DEF Connected, Outcomes
  <2>4. ASSUME NEW b \in AfterReply(app[c], resp)
        PROVE  b \in Process /\ Agrees(b, fd)'
    BY <1>0, <1>1, <1>2, <1>5, <1>8, <2>1, <2>3, <2>4, AnswerAgrees
  <2>5. Outcomes(app[c], k.down) = AfterReply(app[c], resp)
    <3>1. <<resp>> # <<>> /\ Head(<<resp>>) = resp
      OBVIOUS
    <3> QED BY <1>9, <2>2, <3>1 DEF Outcomes
  <2> QED BY <1>9, <2>1, <2>2, <2>3, <2>4, <2>5, ZenonT(30), ZenonT(60) DEF Connected
<1>12. conns \ {fd} \subseteq conns'
  BY <1>5
<1>13. /\ UNCHANGED <<app, server>> /\ LogoutAssertHolds'
       /\ k.fd \in {fd, NoFd} /\ link' = [link EXCEPT ![l] = k]
       /\ \A m \in Links \ {l} : link[m].fd # fd
  BY <1>1, <1>2, <1>5, <1>9, ZenonT(30), ZenonT(60)
<1> QED BY ONLY SysInv, ServerSide', <1>6, <1>10, <1>11, <1>12, <1>13, ServerStep, ZenonT(30), ZenonT(60)

-----------------------------------------------------------------------------
(* A client in recv() waits for something that comes.                      *)

\* A connection the server still has an end of needs a server.
Served == \A l \in Links : link[l].wire \in {"open", "closed", "broken"} => server.up

\* The client a, in recv() on a connection k that is up, has a message under way.
Awaited(a, k) == a.at = "recv" /\ k.wire = "open" => k.up # <<>> \/ k.down # <<>>

\* Inductive beside SysInv, which has that the message is the client's own.
AwaitInv == Served /\ \A c \in Clients : Awaited(app[c], link[app[c].link])

\* A process that has sent a request.
LEMMA Sending ==
  ASSUME NEW a \in Process, NEW req \in Request
  PROVE  /\ [a EXCEPT !.at = "recv", !.request = req] \in Process
         /\ [a EXCEPT !.at = "recv", !.request = req].link = a.link
  BY ZenonT(30), ZenonT(60) DEF Process

\* A client in recv() has a connection, and nobody else has it.
LEMMA Waiting ==
  ASSUME SysInv, NEW c \in Clients, app[c].at = "recv"
  PROVE  /\ app[c].running /\ app[c].link \in Links
         /\ link[app[c].link].wire \in {"open", "fin", "reset", "dead"}
<1>1. app[c].running
  BY Owner DEF Unconnected
<1> QED BY <1>1, Owner DEF Connected

\* A client c that becomes a changes one connection, its own or a new one.
LEMMA AwaitClient ==
  ASSUME SysInv, AwaitInv, server' = server, NEW c \in Clients, NEW a \in Process,
         NEW l \in Links, NEW k \in LinkType, app' = [app EXCEPT ![c] = a], link' = [link EXCEPT ![l] = k],
         \A d \in Clients \ {c} : app[d].link # l,
         k.wire \in {"open", "closed", "broken"} => server.up,
         a.at # "recv" \/ (a.link = l /\ (k.wire = "open" => k.up # <<>> \/ k.down # <<>>))
  PROVE  AwaitInv'
<1>1. app \in [Clients -> Process] /\ link \in [Links -> LinkType]
  BY DEF SysInv, SysTypes
<1>2. /\ app'[c] = a /\ \A d \in Clients \ {c} : app'[d] = app[d]
      /\ link'[l] = k /\ \A m \in Links \ {l} : link'[m] = link[m]
  BY <1>1
<1>3. Served'
  BY <1>2 DEF AwaitInv, Served
<1>4. ASSUME NEW d \in Clients, app'[d].at = "recv", link'[app'[d].link].wire = "open"
      PROVE  link'[app'[d].link].up # <<>> \/ link'[app'[d].link].down # <<>>
  <2>1. CASE d = c
    <3>1. app'[d] = a /\ a.at = "recv"
      BY <1>2, <1>4, <2>1
    <3>2. link'[app'[d].link] = k
      BY <1>2, <3>1
    <3> QED BY <1>4, <3>1, <3>2 DEF Awaited
  <2>2. CASE d # c
    <3>1. app'[d] = app[d] /\ app[d].link \in Links \ {l}
      BY <1>2, <1>4, <2>2, Waiting
    <3>2. link'[app[d].link] = link[app[d].link]
      BY <1>2, <3>1
    <3> QED BY <1>4, <3>1, <3>2 DEF AwaitInv, Awaited
  <2> QED BY <2>1, <2>2
<1> QED BY <1>3, <1>4 DEF AwaitInv, Awaited

\* A client whose process ends leaves nobody waiting.
LEMMA AwaitEnd ==
  ASSUME SysInv, AwaitInv, server' = server, NEW c \in Clients, NEW lk \in [Links -> LinkType],
         \A l \in Links : l # app[c].link => lk[l] = link[l],
         \A l \in Links : lk[l].wire = link[l].wire,
         app' = [app EXCEPT ![c] = Ended], link' = CloseSocket(lk, app[c].link)
  PROVE  AwaitInv'
<1>1. Ended.at # "recv"
  BY DEF Ended
<1>2. link \in [Links -> LinkType]
  BY DEF SysInv, SysTypes
<1>3. CASE app[c].running
  <2> DEFINE l == app[c].link
             k == IF lk[l].wire = "open" THEN [lk[l] EXCEPT !.wire = "closed", !.down = <<>>]
                  ELSE FreeLink
  <2>1. l \in Links /\ l # NoLink /\ \A d \in Clients \ {c} : app[d].link # l
    BY <1>3, OwnLink
  <2>2. link' = [lk EXCEPT ![l] = k]
    BY <2>1 DEF CloseSocket
  <2>3. link' = [link EXCEPT ![l] = k]
    BY <1>2, <2>1, <2>2, ZenonT(30), ZenonT(60)
  <2>4. k \in LinkType /\ (k.wire \in {"open", "closed", "broken"} => server.up)
    <3>1. CASE lk[l].wire = "open"
      <4>1. server.up
        BY <2>1, <3>1 DEF AwaitInv, Served
      <4>2. lk[l] \in LinkType /\ <<>> \in AtMostOne(Response)
        BY <2>1, OneMessage
      <4> QED BY <3>1, <4>1, <4>2, ZenonT(30), ZenonT(60) DEF LinkType, Wire
    <3>2. CASE lk[l].wire # "open"
      BY <3>2, FreeLinkFacts DEF FreeLink
    <3> QED BY <3>1, <3>2
  <2> HIDE DEF k, l
  <2>5. PICK l0 \in Links, k0 \in LinkType : l0 = l /\ k0 = k
    BY <2>1, <2>4
  <2>6. /\ link' = [link EXCEPT ![l0] = k0] /\ (\A d \in Clients \ {c} : app[d].link # l0)
        /\ (k0.wire \in {"open", "closed", "broken"} => server.up)
    BY <2>1, <2>3, <2>4, <2>5
  <2>7. Ended \in Process
    BY EndedFacts
  <2> QED BY ONLY SysInv, AwaitInv, server' = server, app' = [app EXCEPT ![c] = Ended],
              <1>1, <2>6, <2>7, AwaitClient, ZenonT(30), ZenonT(60)
<1>4. CASE ~app[c].running
  <2>1. app[c].link = NoLink /\ link' = lk
    BY <1>4, Owner DEF Unconnected, CloseSocket
  <2>2. \A l \in Links : lk[l] = link[l]
    BY <2>1, ChatSystemAssumption
  <2>3. link' = link
    BY <1>2, <2>1, <2>2
  <2>4. \A d \in Clients : app'[d].at = "recv" => app'[d] = app[d]
    BY <1>1 DEF SysInv, SysTypes
  <2> QED BY <2>3, <2>4 DEF AwaitInv, Served, Awaited
<1> QED BY <1>3, <1>4

\* A connection is made, or found again.
LEMMA AwaitConnect ==
  ASSUME SysInv, AwaitInv, server' = server, NEW c \in Clients, app[c].at = "menu", HandleConnect(c)
  PROVE  AwaitInv'
<1>1. app \in [Clients -> Process] /\ link \in [Links -> LinkType]
  BY DEF SysInv, SysTypes
<1>2. ASSUME NEW l \in ClientController_Start(c),
             app' = [app EXCEPT ![c].state = "SESSION_CONNECTED", ![c].running = TRUE, ![c].link = l],
             link' = IF app[c].running THEN link ELSE [link EXCEPT ![l].wire = "open"]
      PROVE  AwaitInv'
  <2> DEFINE k == IF app[c].running THEN link[l] ELSE [link[l] EXCEPT !.wire = "open"]
             a == [app[c] EXCEPT !.state = "SESSION_CONNECTED", !.running = TRUE, !.link = l]
  <2>1. l \in Links /\ (\A d \in Clients \ {c} : app[d].link # l) /\ (~app[c].running => server.up)
    <3>1. CASE app[c].running
      BY <1>2, <3>1, OwnLink DEF ClientController_Start
    <3>2. CASE ~app[c].running
      <4>1. l \in Links /\ link[l].wire = "free" /\ server.up
        BY <1>2, <3>2 DEF ClientController_Start
      <4> QED BY <4>1, ServedLink
    <3> QED BY <3>1, <3>2
  <2>2. link' = [link EXCEPT ![l] = k] /\ app' = [app EXCEPT ![c] = a]
    <3>1. CASE app[c].running
      BY <1>1, <1>2, <2>1, <3>1, ZenonT(30), ZenonT(60)
    <3>2. CASE ~app[c].running
      BY <1>1, <1>2, <2>1, <3>2, ZenonT(30), ZenonT(60)
    <3> QED BY <3>1, <3>2
  <2>3. a \in Process /\ a.at # "recv"
    <3>1. app[c] \in Process
      BY <1>1
    <3> QED BY <2>1, <3>1, ZenonT(30), ZenonT(60) DEF Process, SessionState
  <2>4. k \in LinkType /\ (k.wire \in {"open", "closed", "broken"} => server.up)
    <3>1. link[l] \in LinkType
      BY <1>1, <2>1
    <3>2. CASE app[c].running
      BY <2>1, <3>1, <3>2 DEF AwaitInv, Served
    <3>3. CASE ~app[c].running
      BY <2>1, <3>1, <3>3 DEF LinkType, Wire
    <3> QED BY <3>2, <3>3
  <2> HIDE DEF k, a
  <2> QED BY <2>1, <2>2, <2>3, <2>4, AwaitClient, ZenonT(30), ZenonT(60)
<1>3. CASE UNCHANGED <<app, link>>
  BY <1>3 DEF AwaitInv, Served, Awaited
<1> QED BY <1>2, <1>3 DEF HandleConnect

\* A request is sent: now there is one under way.
LEMMA AwaitSend ==
  ASSUME SysInv, AwaitInv, server' = server, NEW c \in Clients, app[c].at = "menu", ExchangeSend(c)
  PROVE  AwaitInv'
<1> DEFINE l == app[c].link
           Sends(req) ==
             \/ /\ link[l].wire \in {"open", "fin"}
                /\ link' = SendOn(link, l, req)
                /\ app' = [app EXCEPT ![c].at = "recv", ![c].request = req]
             \/ /\ link[l].wire = "reset"
                /\ link' = SendOn(link, l, req)
                /\ UNCHANGED app
             \/ /\ link[l].wire = "dead"
                /\ link' = CloseSocket(link, l)
                /\ app' = [app EXCEPT ![c] = Ended]
<1>0. PICK choice \in Menu_GetOptions(app[c].state) : \E req \in RequestsFor(choice) : Sends(req)
  BY DEF ExchangeSend
<1>1. app \in [Clients -> Process] /\ link \in [Links -> LinkType] /\ app[c].state \in SessionState
  BY DEF SysInv, SysTypes, Process
<1>2. PICK req \in RequestsFor(choice) : Sends(req)
  BY <1>0
<1>3. app[c].state # "SESSION_DISCONNECTED" /\ req \in Request
  BY <1>1, MenuRequests
<1>4. app[c].running
  BY <1>3, Owner DEF Unconnected
<1>5. /\ l \in Links /\ link[l] \in LinkType /\ (\A d \in Clients \ {c} : app[d].link # l)
      /\ link[l].up = <<>>
  BY <1>4, OwnLink, Owner, ZenonT(30), ZenonT(60) DEF Connected
<1>6. CASE link[l].wire \in {"open", "fin", "reset"} /\ link' = SendOn(link, l, req)
  <2> DEFINE k == IF link[l].wire = "open" THEN [link[l] EXCEPT !.up = <<req>>]
                  ELSE [link[l] EXCEPT !.wire = "dead"]
             a == [app[c] EXCEPT !.at = "recv", !.request = req]
  <2>1. link' = [link EXCEPT ![l] = k]
    <3>1. CASE link[l].wire = "open"
      <4>1. k = [link[l] EXCEPT !.up = <<req>>]
        BY <3>1
      <4>2. link' = [link EXCEPT ![l] = [link[l] EXCEPT !.up = <<req>>]]
        BY <1>5, <1>6, <3>1, SendForms
      <4> QED BY ONLY <4>1, <4>2, ZenonT(30), ZenonT(60)
    <3>2. CASE link[l].wire # "open"
      <4>1. k = [link[l] EXCEPT !.wire = "dead"]
        BY <3>2
      <4>2. link' = [link EXCEPT ![l] = [link[l] EXCEPT !.wire = "dead"]]
        BY <1>6, <3>2, SendForms
      <4> QED BY ONLY <4>1, <4>2, ZenonT(30), ZenonT(60)
    <3> QED BY <3>1, <3>2
  <2>2. /\ k \in LinkType /\ (k.wire \in {"open", "closed", "broken"} => server.up)
        /\ k.wire = "open" => k.up # <<>>
    <3>1. CASE link[l].wire = "open"
      <4>1. <<req>> \in AtMostOne(Request) /\ <<req>> # <<>> /\ server.up
        BY <1>3, <1>5, <3>1, OneMessage DEF AwaitInv, Served
      <4> QED BY <1>5, <3>1, <4>1 DEF LinkType
    <3>2. CASE link[l].wire # "open"
      BY <1>5, <3>2 DEF LinkType, Wire
    <3> QED BY <3>1, <3>2
  <2>3. a \in Process /\ a.link = l
    <3>1. app[c] \in Process
      BY <1>1
    <3> QED BY <1>3, <3>1, Sending, ZenonT(30), ZenonT(60)
  <2>4. app' = [app EXCEPT ![c] = a] \/ app' = [app EXCEPT ![c] = app[c]]
    BY <1>1, <1>2, <1>6, ZenonT(30), ZenonT(60)
  <2>5. app[c] \in Process
    BY <1>1
  <2> HIDE DEF k, a, l
  <2>6. CASE app' = [app EXCEPT ![c] = a]
    <3>1. l \in Links /\ a \in Process /\ k \in LinkType /\ (\A d \in Clients \ {c} : app[d].link # l)
      BY <1>5, <2>2, <2>3
    <3>2. k.wire \in {"open", "closed", "broken"} => server.up
      BY <2>2
    <3>3. a.at # "recv" \/ (a.link = l /\ (k.wire = "open" => k.up # <<>> \/ k.down # <<>>))
      BY <2>2, <2>3
    <3> QED BY ONLY SysInv, AwaitInv, server' = server, c \in Clients, <2>1, <2>6, <3>1, <3>2, <3>3,
                    AwaitClient, ZenonT(30), ZenonT(60)
  <2>7. CASE app' = [app EXCEPT ![c] = app[c]]
    <3>1. app[c].at # "recv"
      OBVIOUS
    <3> QED BY <1>5, <2>1, <2>2, <2>5, <2>7, <3>1, AwaitClient, ZenonT(30), ZenonT(60)
  <2> QED BY <2>4, <2>6, <2>7
<1>7. CASE link' = CloseSocket(link, l) /\ app' = [app EXCEPT ![c] = Ended]
  BY <1>1, <1>7, AwaitEnd, ZenonT(30), ZenonT(60)
<1> QED BY <1>2, <1>6, <1>7

\* The answer is read, or the end: the client waits no longer.
LEMMA AwaitReceive ==
  ASSUME SysInv, AwaitInv, server' = server, NEW c \in Clients, ExchangeReceive(c)
  PROVE  AwaitInv'
<1> DEFINE l == app[c].link
<1>1. app \in [Clients -> Process] /\ link \in [Links -> LinkType] /\ app[c] \in Process
  BY DEF SysInv, SysTypes
<1>2. app[c].at = "recv" /\ app[c].running /\ l \in Links /\ link[l] \in LinkType
  BY <1>1, Waiting DEF ExchangeReceive
<1>3. \A d \in Clients \ {c} : app[d].link # l
  BY <1>2, OwnLink
<1>4. PICK a \in Process : a.at = "menu" /\ app' = [app EXCEPT ![c] = a]
  <2>1. \A a \in AfterReply(app[c], Head(link[l].down)) :
          link[l].down # <<>> => a \in Process /\ a.at = "menu"
    <3>1. \A a \in Outcomes(app[c], link[l].down) : a \in Process
      BY <1>2, Owner DEF Connected
    <3>2. \A a \in AfterReply(app[c], Head(link[l].down)) : a.at = "menu"
      BY <1>1, AfterReplyForms
    <3> QED BY <3>1, <3>2 DEF Outcomes
  <2>2. ASSUME NEW state \in SessionState
        PROVE  /\ [app[c] EXCEPT !.at = "menu", !.request = <<"OTHER">>, !.state = state] \in Process
               /\ [app[c] EXCEPT !.at = "menu", !.request = <<"OTHER">>, !.state = state].at = "menu"
    <3>1. <<"OTHER">> \in Request
      BY DEF Request
    <3> QED BY <1>1, <2>2, <3>1, ZenonT(30), ZenonT(60) DEF Process
  <2>3. \/ link[l].down # <<>> /\ \E a \in AfterReply(app[c], Head(link[l].down)) : app' = [app EXCEPT ![c] = a]
        \/ \E state \in SessionState :
             app' = [app EXCEPT ![c] = [app[c] EXCEPT !.at = "menu", !.request = <<"OTHER">>, !.state = state]]
    <3>1. CASE app' = [app EXCEPT ![c].at = "menu", ![c].request = <<"OTHER">>,
                                  ![c].state = "SESSION_DISCONNECTED"]
      BY <1>1, <3>1, ZenonT(30), ZenonT(60) DEF SessionState
    <3>2. CASE app' = [app EXCEPT ![c].at = "menu", ![c].request = <<"OTHER">>]
      <4>1. app[c].state \in SessionState
        BY <1>1 DEF Process
      <4>2. app' = [app EXCEPT ![c] = [app[c] EXCEPT !.at = "menu", !.request = <<"OTHER">>,
                                                     !.state = app[c].state]]
        BY <1>1, <3>2, ZenonT(30), ZenonT(60) DEF Process
      <4> QED BY <4>1, <4>2, ZenonT(30), ZenonT(60)
    <3> QED BY <3>1, <3>2, ZenonT(30), ZenonT(60) DEF ExchangeReceive
  <2> QED BY <2>1, <2>2, <2>3, ZenonT(30), ZenonT(60)
<1>5. PICK k \in LinkType : k.wire \in {link[l].wire, "dead"} /\ link' = [link EXCEPT ![l] = k]
  <2> DEFINE read == [link[l] EXCEPT !.down = Tail(@)]
             dead == [link[l] EXCEPT !.wire = "dead"]
  <2>1. CASE link[l].down # <<>> /\ link' = [link EXCEPT ![l].down = Tail(@)]
    <3>1. Tail(link[l].down) = <<>> /\ <<>> \in AtMostOne(Response)
      BY <1>2, <2>1, OneMessage DEF LinkType
    <3>2. read \in LinkType /\ read.wire = link[l].wire
      BY <1>2, <3>1, ZenonT(30), ZenonT(60) DEF LinkType
    <3>3. link' = [link EXCEPT ![l] = read]
      BY <1>1, <1>2, <2>1
    <3> HIDE DEF read
    <3> QED BY <3>2, <3>3, ZenonT(30), ZenonT(60)
  <2>2. CASE link' = [link EXCEPT ![l].wire = "dead"]
    <3>1. dead \in LinkType /\ dead.wire = "dead"
      BY <1>2 DEF LinkType, Wire
    <3>2. link' = [link EXCEPT ![l] = dead]
      BY <1>1, <1>2, <2>2
    <3> HIDE DEF dead
    <3> QED BY <3>1, <3>2, ZenonT(30), ZenonT(60)
  <2>3. CASE link' = link
    <3>1. link' = [link EXCEPT ![l] = link[l]]
      BY <1>1, <1>2, <2>3
    <3> QED BY <1>2, <3>1, ZenonT(30), ZenonT(60)
  <2> QED BY <2>1, <2>2, <2>3, ZenonT(30), ZenonT(60) DEF ExchangeReceive
<1>6. k.wire \in {"open", "closed", "broken"} => server.up
  BY <1>2, <1>5 DEF AwaitInv, Served
<1> HIDE DEF l
<1> QED BY <1>2, <1>3, <1>4, <1>5, <1>6, AwaitClient, ZenonT(30), ZenonT(60)

\* Every step of a client.
LEMMA AwaitClients ==
  ASSUME SysInv, AwaitInv, NEW c \in Clients, Client(c)
  PROVE  AwaitInv'
<1>0. server' = server /\ link \in [Links -> LinkType]
  BY DEF Client, SysInv, SysTypes
<1>1. CASE app[c].at = "menu" /\ HandleConnect(c)
  BY <1>0, <1>1, AwaitConnect
<1>2. CASE app[c].at = "menu" /\ ExchangeSend(c)
  BY <1>0, <1>2, AwaitSend
<1>3. CASE app[c].at = "menu" /\ HandleExit(c)
  <2> DEFINE bye == app[c].state # "SESSION_DISCONNECTED" /\ link[app[c].link].wire = "open"
  <2>1. CASE bye
    <3> DEFINE lk == SendOn(link, app[c].link, <<"OPCODE_EXIT">>)
    <3>1. app[c].running
      BY <2>1, Owner DEF Unconnected
    <3>2. app[c].link \in Links /\ link[app[c].link] \in LinkType /\ link[app[c].link].up = <<>>
      BY <1>3, <3>1, OwnLink, Owner, ZenonT(30), ZenonT(60) DEF Connected
    <3>3. lk = [link EXCEPT ![app[c].link] = [link[app[c].link] EXCEPT !.up = <<<<"OPCODE_EXIT">>>>]]
      BY <2>1, <3>2, SendForms
    <3>4. <<<<"OPCODE_EXIT">>>> \in AtMostOne(Request)
      <4>1. <<"OPCODE_EXIT">> \in Request
        BY DEF Request
      <4> QED BY <4>1, OneMessage
    <3>5. /\ [link[app[c].link] EXCEPT !.up = <<<<"OPCODE_EXIT">>>>] \in LinkType
          /\ [link[app[c].link] EXCEPT !.up = <<<<"OPCODE_EXIT">>>>].wire = link[app[c].link].wire
      BY <3>2, <3>4 DEF LinkType
    <3>6. /\ lk \in [Links -> LinkType]
          /\ \A l \in Links : l # app[c].link => lk[l] = link[l]
          /\ \A l \in Links : lk[l].wire = link[l].wire
      BY <1>0, <3>2, <3>3, <3>5, ZenonT(30), ZenonT(60)
    <3>7. link' = CloseSocket(lk, app[c].link) /\ app' = [app EXCEPT ![c] = Ended]
      BY <1>3, <2>1 DEF HandleExit
    <3> HIDE DEF lk
    <3> QED BY <1>0, <3>6, <3>7, AwaitEnd, ZenonT(30), ZenonT(60)
  <2>2. CASE ~bye
    <3>1. link' = CloseSocket(link, app[c].link) /\ app' = [app EXCEPT ![c] = Ended]
      BY <1>3, <2>2 DEF HandleExit
    <3> QED BY <1>0, <3>1, AwaitEnd, ZenonT(30), ZenonT(60)
  <2> QED BY <2>1, <2>2
<1>4. CASE ExchangeReceive(c)
  BY <1>0, <1>4, AwaitReceive
<1>5. CASE Kill(c)
  BY <1>0, <1>5, AwaitEnd, ZenonT(30), ZenonT(60) DEF Kill
<1>6. CASE app' = [app EXCEPT ![c] = ClientApp_Create] /\ UNCHANGED link
  <2>1. ClientApp_Create.at # "recv"
    BY DEF ClientApp_Create, Ended
  <2>2. \A d \in Clients : app'[d].at = "recv" => app'[d] = app[d]
    BY <1>6, <2>1 DEF SysInv, SysTypes
  <2> QED BY <1>0, <1>6, <2>2 DEF AwaitInv, Served, Awaited
<1> QED BY <1>1, <1>2, <1>3, <1>4, <1>5, <1>6 DEF Client

\* A step of the server on the connection l: a client that waits there is answered.
LEMMA AwaitServer ==
  ASSUME SysInv, AwaitInv, UNCHANGED <<app, server>>, NEW l \in Links, NEW k,
         link' = [link EXCEPT ![l] = k],
         k.wire \in {"open", "closed", "broken"} => server.up,
         k.wire = "open" => link[l].wire = "open" /\ (link[l].up # <<>> \/ link[l].down # <<>>
                                                       => k.up # <<>> \/ k.down # <<>>)
  PROVE  AwaitInv'
<1>1. link \in [Links -> LinkType]
  BY DEF SysInv, SysTypes
<1>2. link'[l] = k /\ \A m \in Links \ {l} : link'[m] = link[m]
  BY <1>1
<1>3. Served'
  BY <1>2 DEF AwaitInv, Served
<1>4. ASSUME NEW d \in Clients, app'[d].at = "recv", link'[app'[d].link].wire = "open"
      PROVE  link'[app'[d].link].up # <<>> \/ link'[app'[d].link].down # <<>>
  <2>1. app'[d] = app[d] /\ app[d].link \in Links
    BY <1>4, Waiting
  <2>2. CASE app[d].link = l
    BY <1>2, <1>4, <2>1, <2>2 DEF AwaitInv, Awaited
  <2>3. CASE app[d].link # l
    <3>1. link'[app[d].link] = link[app[d].link]
      BY <1>2, <2>1, <2>3
    <3> QED BY <1>4, <2>1, <3>1 DEF AwaitInv, Awaited
  <2> QED BY <2>2, <2>3
<1> QED BY <1>3, <1>4 DEF AwaitInv, Awaited

\* Accepting, serving and dropping a connection. What is served is answered, if
\* anybody is left to be answered.
LEMMA AwaitServes ==
  ASSUME SysInv, AwaitInv, NEW l \in Links, Accept(l) \/ Serve(l) \/ Drop(l)
  PROVE  AwaitInv'
<1>1. link \in [Links -> LinkType] /\ link[l] \in LinkType /\ LinkOK(link[l])
  BY ServedLink DEF SysInv, SysTypes
<1>2. UNCHANGED <<app, server>>
  BY DEF Accept, Serve, Drop
<1>3. link[l].wire \in {"open", "closed", "broken"} => server.up
  BY DEF AwaitInv, Served
<1>4. CASE Accept(l)
  <2>1. PICK fd \in Fds : link' = [link EXCEPT ![l].fd = fd]
    BY <1>4, ZenonT(30), ZenonT(60) DEF Accept
  <2> DEFINE k == [link[l] EXCEPT !.fd = fd]
  <2>2. /\ k \in LinkType /\ k.wire = link[l].wire /\ k.up = link[l].up /\ k.down = link[l].down
        /\ link' = [link EXCEPT ![l] = k]
    BY <1>1, <2>1 DEF LinkType
  <2> HIDE DEF k
  <2> QED BY <1>2, <1>3, <2>2, AwaitServer, ZenonT(30), ZenonT(60)
<1>5. CASE Drop(l)
  <2>1. link' = [link EXCEPT ![l] = FreeLink]
    BY <1>5, ZenonT(30), ZenonT(60) DEF Drop
  <2>2. FreeLink.wire = "free"
    BY DEF FreeLink
  <2> QED BY <1>2, <2>1, <2>2, FreeLinkFacts, AwaitServer, ZenonT(30), ZenonT(60)
<1>6. CASE Serve(l)
  <2>1. link[l].wire \in {"open", "closed", "broken"} /\ server.up
    BY <1>1, <1>3, <1>6 DEF Serve, LinkOK
  <2>2. PICK resp : link' = [link EXCEPT ![l] = SendReply([link[l] EXCEPT !.up = Tail(@)], resp)]
    BY <1>6, ZenonT(30), ZenonT(60) DEF Serve
  <2>3. PICK k : k = SendReply([link[l] EXCEPT !.up = Tail(@)], resp)
    OBVIOUS
  <2>4. k.wire = "open" => link[l].wire = "open" /\ k.down = Append(link[l].down, resp)
    BY <1>1, <2>3 DEF SendReply, LinkType
  <2>5. Append(link[l].down, resp) # <<>>
    <3>1. link[l].down \in AtMostOne(Response)
      BY <1>1 DEF LinkType
    <3>2. \A x : Append(<<>>, resp) # <<>> /\ Append(<<x>>, resp) # <<>>
      OBVIOUS
    <3> QED BY <3>1, <3>2 DEF AtMostOne
  <2>6. link' = [link EXCEPT ![l] = k]
    BY <2>2, <2>3
  <2> QED BY <1>2, <2>1, <2>4, <2>5, <2>6, AwaitServer, ZenonT(30), ZenonT(60)
<1> QED BY <1>4, <1>5, <1>6

\* The server ends, and no connection stays up.
LEMMA AwaitEnds ==
  ASSUME SysInv, ServerEnds
  PROVE  AwaitInv'
<1>1. app' = app /\ \A l \in Links : link'[l].wire \notin {"open", "closed", "broken"}
  <2>1. ASSUME NEW l \in Links PROVE link'[l].wire \notin {"open", "closed", "broken"}
    <3>0. link[l] \in LinkType
      BY <2>1, ServedLink
    <3>1. link'[l] = CASE link[l].wire \in {"closed", "broken"} -> FreeLink
                       [] link[l].wire = "open" ->
                            [link[l] EXCEPT !.fd = NoFd, !.up = <<>>,
                               !.wire = IF link[l].fd = NoFd \/ link[l].up # <<>> THEN "reset" ELSE "fin"]
                       [] OTHER -> link[l]
      BY <2>1, ZenonT(30), ZenonT(60) DEF ServerEnds
    <3>2. CASE link[l].wire \in {"closed", "broken"}
      BY <3>1, <3>2 DEF FreeLink
    <3>3. CASE link[l].wire = "open"
      BY <3>0, <3>1, <3>3, ZenonT(30), ZenonT(60) DEF LinkType
    <3>4. CASE link[l].wire \notin {"open", "closed", "broken"}
      BY <3>1, <3>4
    <3> QED BY <3>2, <3>3, <3>4
  <2> QED BY <2>1, ZenonT(30), ZenonT(60) DEF ServerEnds
<1>2. ASSUME NEW d \in Clients, app[d].at = "recv" PROVE link'[app[d].link].wire # "open"
  BY <1>1, <1>2, Waiting
<1> QED BY <1>1, <1>2 DEF AwaitInv, Served, Awaited

=============================================================================
