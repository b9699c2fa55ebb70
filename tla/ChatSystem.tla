----------------------------- MODULE ChatSystem -----------------------------
(***************************************************************************)
(* The whole request path: client processes (Client/ClientApp.c, Menu.c    *)
(* and ClientNet/ClientController.c), each a single thread that shows a    *)
(* menu, sends one request and blocks in recv() for its reply, and the     *)
(* server process (ServerManager), which keeps everything in memory. A     *)
(* client may be killed at any point; the server may end and be started    *)
(* again, empty, with connections open, requests unread and replies under  *)
(* way. Messages are whole here; ChatStream has the bytes.                 *)
(***************************************************************************)
EXTENDS ServerManager, Sequences

CONSTANTS
  Clients,          \* client processes
  Links,            \* TCP connections that can exist at a time
  NoLink,           \* m_fd = -1
  NoName,           \* m_username = NULL
  MaxServerStarts   \* how often the server is started

ASSUME ChatSystemAssumption ==
  /\ NoLink \notin Links
  /\ NoName \notin Names
  /\ MaxServerStarts \in Nat \ {0}

VARIABLES
  app,     \* app[c]: the client process c
  link,    \* link[l]: the TCP connection l
  server   \* whether the server process runs, and how often it was started

serverVars == <<usersByName, usersByFd, groups, conns, request, reply, told>>

sysVars == <<serverVars, app, link, server>>

SessionState == {"SESSION_DISCONNECTED", "SESSION_CONNECTED", "SESSION_LOGGED_IN"}

\* "open" until one end closes it. "fin", "reset", "dead": the server's end is
\* gone, and the client's socket will report end of file, ECONNRESET, or EPIPE.
\* "closed", "broken": the client's end is gone, and the server's socket will
\* report end of file, or has been answered with a reset.
Wire == {"free", "open", "fin", "reset", "dead", "closed", "broken"}

NoPort == 0

FreeLink == [wire |-> "free", fd |-> NoFd, up |-> <<>>, down |-> <<>>]

Ended ==
  [at |-> "ended", state |-> "SESSION_DISCONNECTED", running |-> FALSE, link |-> NoLink,
   user |-> NoName, request |-> <<"OTHER">>, windows |-> HashMap_Create]

\* ClientApp_Create and ClientController_Create.
ClientApp_Create == [Ended EXCEPT !.at = "menu"]

SysInit ==
  /\ Init
  /\ app = [c \in Clients |-> ClientApp_Create]
  /\ link = [l \in Links |-> FreeLink]
  /\ server = [up |-> TRUE, starts |-> 1]

-----------------------------------------------------------------------------
(* The client.                                                             *)

\* Faulty: LOGOUT is offered before the login.
Menu_OptionsWithLogout(state) ==
  CASE state = "SESSION_DISCONNECTED" -> {"MENU_CONNECT", "MENU_EXIT"}
    [] OTHER -> {"MENU_REGISTER", "MENU_LOGIN", "MENU_LOGOUT", "MENU_EXIT"}

\* What Menu_Parse lets through: the table of the state.
Menu_GetOptions(state) ==
  CASE state = "SESSION_DISCONNECTED" -> {"MENU_CONNECT", "MENU_EXIT"}
    [] state = "SESSION_CONNECTED" -> {"MENU_REGISTER", "MENU_LOGIN", "MENU_EXIT"}
    [] state = "SESSION_LOGGED_IN" ->
         {"MENU_LOGOUT", "MENU_CREATE_GROUP", "MENU_JOIN_GROUP", "MENU_LEAVE_GROUP",
          "MENU_DISPLAY_USERS", "MENU_DISPLAY_GROUPS", "MENU_EXIT"}

\* The requests a choice of the menu can lead to (the switch of ClientApp_Run).
RequestsFor(choice) ==
  CASE choice = "MENU_REGISTER" -> {"OPCODE_REGISTER"} \X Names \X Passwords
    [] choice = "MENU_LOGIN" -> {"OPCODE_LOGIN"} \X Names \X Passwords
    [] choice = "MENU_LOGOUT" -> {<<"OPCODE_LOGOUT">>}
    [] choice = "MENU_CREATE_GROUP" -> {"OPCODE_CREATE_GROUP"} \X GroupNames
    [] choice = "MENU_JOIN_GROUP" -> {"OPCODE_JOIN_GROUP"} \X GroupNames
    [] choice = "MENU_LEAVE_GROUP" -> {"OPCODE_LEAVE_GROUP"} \X GroupNames
    [] choice = "MENU_DISPLAY_USERS" -> {<<"OPCODE_LIST_USERS">>}
    [] choice = "MENU_DISPLAY_GROUPS" -> {<<"OPCODE_LIST_GROUPS">>}
    [] OTHER -> {}

\* close() of the client's socket, by ClientController_Stop or by the kernel when
\* the process ends: the server's end, if there is one, lives on.
CloseSocket(lk, l) ==
  IF l = NoLink THEN lk
  ELSE [lk EXCEPT ![l] = IF @.wire = "open" THEN [@ EXCEPT !.wire = "closed", !.down = <<>>]
                         ELSE FreeLink]

\* send() on the client's socket, SIGPIPE apart: the bytes are queued, or vanish.
SendOn(lk, l, req) ==
  [lk EXCEPT ![l] = IF lk[l].wire = "open" THEN [lk[l] EXCEPT !.up = Append(@, req)]
                    ELSE [lk[l] EXCEPT !.wire = "dead"]]

\* ClientController_Start: the connections it may succeed with. It returns at once
\* when its state says RUNNING, and only ClientController_Stop resets the state.
ClientController_Start(c) ==
  IF app[c].running THEN {app[c].link} ELSE {l \in Links : server.up /\ link[l].wire = "free"}

HandleConnect(c) ==
  /\ "MENU_CONNECT" \in Menu_GetOptions(app[c].state)
  /\ \/ \E l \in ClientController_Start(c) :
          /\ app' = [app EXCEPT ![c].state = "SESSION_CONNECTED", ![c].running = TRUE, ![c].link = l]
          /\ link' = IF app[c].running THEN link ELSE [link EXCEPT ![l].wire = "open"]
     \/ /\ ~app[c].running         \* connect() failed
        /\ UNCHANGED <<app, link>>

\* The first half of ExchangeMessage, for every handler that calls it: a send that
\* fails leaves the state alone, and one on a dead socket ends the process, which
\* neither ignores SIGPIPE nor passes MSG_NOSIGNAL.
ExchangeSend(c) ==
  \E choice \in Menu_GetOptions(app[c].state) : \E req \in RequestsFor(choice) :
    LET l == app[c].link
    IN  \/ /\ link[l].wire \in {"open", "fin"}
           /\ link' = SendOn(link, l, req)
           /\ app' = [app EXCEPT ![c].at = "recv", ![c].request = req]
        \/ /\ link[l].wire = "reset"
           /\ link' = SendOn(link, l, req)
           /\ UNCHANGED app
        \/ /\ link[l].wire = "dead"
           /\ link' = CloseSocket(link, l)
           /\ app' = [app EXCEPT ![c] = Ended]

\* HandleExit and the end of main: on a dead socket the farewell ends the process
\* by SIGPIPE, otherwise the windows are closed and the socket with them.
HandleExit(c) ==
  LET l == app[c].link
      bye == app[c].state # "SESSION_DISCONNECTED" /\ link[l].wire = "open"
  IN  /\ link' = CloseSocket(IF bye THEN SendOn(link, l, <<"OPCODE_EXIT">>) ELSE link, l)
      /\ app' = [app EXCEPT ![c] = Ended]

\* What the handler of the request does with a reply that decodes. GroupWindows_Open
\* closes the group's old pair first, and may fail.
AfterReply(a, resp) ==
  LET op == a.request[1]
      done == [a EXCEPT !.at = "menu", !.request = <<"OTHER">>]
  IN  IF resp.status # "CHAT_OK" THEN {done}
      ELSE CASE op \in {"OPCODE_REGISTER", "OPCODE_LOGIN"} ->
                  {[done EXCEPT !.user = a.request[2], !.state = "SESSION_LOGGED_IN"]}
             [] op \in {"OPCODE_CREATE_GROUP", "OPCODE_JOIN_GROUP"} ->
                  {[done EXCEPT !.windows = HashMap_Insert(@, a.request[2], resp.port)],
                   [done EXCEPT !.windows = HashMap_Remove(@, a.request[2])]}
             [] op = "OPCODE_LEAVE_GROUP" ->
                  {[done EXCEPT !.windows = HashMap_Remove(@, a.request[2])]}
             [] op = "OPCODE_LOGOUT" ->
                  {[done EXCEPT !.windows = HashMap_Create, !.state = "SESSION_CONNECTED"]}
             [] OTHER -> {done}

\* Faulty: the client does not wait for a reply that is late.
ReceiveWithTimeout(c) ==
  /\ app[c].at = "recv"
  /\ app' = [app EXCEPT ![c].at = "menu", ![c].request = <<"OTHER">>]
  /\ UNCHANGED link

\* The second half of ExchangeMessage and of its caller: a reply, the end of the
\* connection ("closed" is set, the state dropped, the controller left RUNNING
\* and the windows left open), or an error that leaves the state alone.
ExchangeReceive(c) ==
  LET l == app[c].link
  IN  /\ app[c].at = "recv"
      /\ \/ /\ link[l].down # <<>>
            /\ \E a \in AfterReply(app[c], Head(link[l].down)) : app' = [app EXCEPT ![c] = a]
            /\ link' = [link EXCEPT ![l].down = Tail(@)]
         \/ /\ link[l].down = <<>>
            /\ link[l].wire \in {"fin", "dead"}
            /\ app' = [app EXCEPT ![c].at = "menu", ![c].request = <<"OTHER">>,
                                  ![c].state = "SESSION_DISCONNECTED"]
            /\ UNCHANGED link
         \/ /\ link[l].down = <<>>
            /\ link[l].wire = "reset"
            /\ app' = [app EXCEPT ![c].at = "menu", ![c].request = <<"OTHER">>]
            /\ link' = [link EXCEPT ![l].wire = "dead"]

\* The user closes the client's terminal.
Kill(c) ==
  /\ link' = CloseSocket(link, app[c].link)
  /\ app' = [app EXCEPT ![c] = Ended]

Client(c) ==
  /\ \/ app[c].at = "menu" /\ (HandleConnect(c) \/ ExchangeSend(c) \/ HandleExit(c))
     \/ ExchangeReceive(c)
     \/ app[c].at # "ended" /\ Kill(c)
     \/ app[c].at = "ended" /\ app' = [app EXCEPT ![c] = ClientApp_Create] /\ UNCHANGED link
  /\ UNCHANGED <<serverVars, server>>

-----------------------------------------------------------------------------
(* The server, one connection at a time (TcpServer has its threads).       *)

Accept(l) ==
  /\ link[l].wire \in {"open", "closed"}
  /\ link[l].fd = NoFd
  /\ \E fd \in Fds :
       /\ CallbackNewConnection(fd)
       /\ link' = [link EXCEPT ![l].fd = fd]
  /\ UNCHANGED <<app, server>>

\* Faulty: the endpoint is the one AllocateGroupEndpoint chose last.
EndpointOfNewest(gs, req) == IF Len(req) = 2 THEN AllocateGroupEndpoint(gs) - 1 ELSE NoPort

\* The endpoint in the reply to a request that created or joined a group.
EndpointFor(gs, req) ==
  IF Len(req) = 2 /\ req[2] \in DOMAIN gs THEN gs[req[2]].port ELSE NoPort

\* Faulty: errors are logged and not sent.
SendReplyIfOk(lk, resp) ==
  IF resp.status = "CHAT_OK" THEN [lk EXCEPT !.down = Append(@, resp)] ELSE lk

\* To a client that is gone the first reply brings back a reset.
SendReply(lk, resp) ==
  IF lk.wire = "open" THEN [lk EXCEPT !.down = Append(@, resp)] ELSE [lk EXCEPT !.wire = "broken"]

\* One recv(), the handler, and its one send().
Serve(l) ==
  /\ link[l].fd # NoFd
  /\ link[l].up # <<>>
  /\ request' = Head(link[l].up)
  /\ CallbackRecv(link[l].fd)
  /\ link' = [link EXCEPT ![l] =
       SendReply([link[l] EXCEPT !.up = Tail(@)],
                 [status |-> reply'.status, port |-> EndpointFor(groups', request')])]
  /\ UNCHANGED <<app, server>>

\* Faulty: an error of recv() is not the end of a connection.
DropAtEndOfFile(l) ==
  /\ link[l].fd # NoFd
  /\ link[l].wire = "closed"
  /\ link[l].up = <<>>
  /\ CallbackDisconnect(link[l].fd)
  /\ link' = [link EXCEPT ![l] = FreeLink]
  /\ UNCHANGED <<app, server>>

\* recv() reports the end of the connection, or the reset.
Drop(l) ==
  /\ link[l].fd # NoFd
  /\ link[l].wire \in {"closed", "broken"}
  /\ link[l].up = <<>>
  /\ CallbackDisconnect(link[l].fd)
  /\ link' = [link EXCEPT ![l] = FreeLink]
  /\ UNCHANGED <<app, server>>

\* The process ends, by Stop and Destroy (serverMain.c) or by a crash. A socket
\* closed with a request unread, or not yet accepted, is reset.
ServerEnds ==
  /\ server.up
  /\ server' = [server EXCEPT !.up = FALSE]
  /\ link' = [l \in Links |->
       CASE link[l].wire \in {"closed", "broken"} -> FreeLink
         [] link[l].wire = "open" ->
              [link[l] EXCEPT !.fd = NoFd, !.up = <<>>,
                 !.wire = IF link[l].fd = NoFd \/ link[l].up # <<>> THEN "reset" ELSE "fin"]
         [] OTHER -> link[l]]
  /\ usersByName' = HashMap_Create
  /\ usersByFd' = HashMap_Create
  /\ groups' = HashMap_Create
  /\ conns' = {}
  /\ request' = <<"OTHER">>
  /\ reply' = NoReply
  /\ told' = [fd \in Fds |-> {}]
  /\ UNCHANGED app

ServerStarts ==
  /\ ~server.up
  /\ server.starts < MaxServerStarts
  /\ server' = [up |-> TRUE, starts |-> server.starts + 1]
  /\ UNCHANGED <<serverVars, app, link>>

SysNext ==
  \/ \E c \in Clients : Client(c)
  \/ \E l \in Links : Accept(l) \/ Serve(l) \/ Drop(l)
  \/ ServerEnds
  \/ ServerStarts

SysSpec == SysInit /\ [][SysNext]_sysVars

\* The server's worker never sleeps while a connection has something for it, and
\* a client blocked in recv() is woken; users, and the operator, may stay away.
SysFairness ==
  /\ \A c \in Clients : WF_sysVars(ExchangeReceive(c) /\ UNCHANGED <<serverVars, server>>)
  /\ \A l \in Links : WF_sysVars(Accept(l)) /\ WF_sysVars(Serve(l)) /\ WF_sysVars(Drop(l))

SysFairSpec == SysSpec /\ SysFairness

-----------------------------------------------------------------------------
(* Properties.                                                             *)

Process ==
  [at: {"menu", "recv", "ended"}, state: SessionState, running: BOOLEAN, link: Links \cup {NoLink},
   user: Names \cup {NoName}, request: Request,
   windows: UNION {[gs -> Ports] : gs \in SUBSET GroupNames}]

Response == [status: ChatStatus, port: Ports \cup {NoPort}]

\* Every process and connection is well formed, no two processes hold one socket,
\* and a connection carries one message at a time, in one direction: ExchangeMessage
\* waits for each answer.
SysTypeOK ==
  /\ app \in [Clients -> Process]
  /\ link \in [Links -> [wire: Wire, fd: Fds \cup {NoFd}, up: Seq(Request), down: Seq(Response)]]
  /\ server \in [up: BOOLEAN, starts: 1 .. MaxServerStarts]
  /\ \A c, d \in Clients : app[c].link = app[d].link /\ app[c].link # NoLink => c = d
  /\ \A l \in Links : Len(link[l].up) + Len(link[l].down) <= 1

\* A client at its menu, with its connection up.
Idle(c) == app[c].at = "menu" /\ app[c].running /\ link[app[c].link].wire = "open"

\* The session the menu shows is the session the server has: a client at the
\* LOGGED_IN menu is logged in, on its own connection and as the user it shows,
\* and one at the CONNECTED menu is not (HandleCredentialedAction and HandleLogout
\* against UserManager_Login, _AddUser and _Logout), after any number of kills,
\* reconnects and server restarts.
MenuShowsSession ==
  \A c \in Clients : Idle(c) =>
    LET fd == link[app[c].link].fd
    IN  IF app[c].state = "SESSION_LOGGED_IN"
        THEN IsFdLoggedIn(fd) /\ usersByFd[fd] = app[c].user
        ELSE ~IsFdLoggedIn(fd)

\* The chat windows a client keeps open belong to groups its user is in, and
\* point at the port the group has now: leave, logout, and a group that is
\* removed and created again with another port never leave a window on a room
\* the user is not in (HandleGroupAction, HandleLogout, AllocateGroupEndpoint).
WindowsFollowRooms ==
  \A c \in Clients : Idle(c) =>
    \A g \in DOMAIN app[c].windows :
      /\ g \in GetUserGroups(link[app[c].link].fd)
      /\ app[c].windows[g] = groups[g].port

\* The server never writes to a connection that was already reset, which would end
\* it by SIGPIPE (send() without MSG_NOSIGNAL, ServerManager.c:640): a client that
\* goes away leaves at most one request unread, because it waits for each reply.
ServerSurvivesClients == \A l \in Links : link[l].wire = "broken" => link[l].up = <<>>

\* A client blocked in recv() waits for something that comes: on a connection that
\* is up there is a server, with this client's own request still to read or with
\* one answer sent; otherwise the socket is about to report the end (ExchangeMessage
\* against ServerManagerCallbackRecv and ServerManager_SendOrLog, which answers a
\* failed request too). A server that ends takes every open connection down.
NobodyWaitsForNothing ==
  /\ \A l \in Links : link[l].wire \in {"open", "closed", "broken"} => server.up
  /\ \A c \in Clients : app[c].at = "recv" =>
       LET k == link[app[c].link]
       IN  \/ k.wire = "open" /\ (k.up = <<app[c].request>> \/ (k.up = <<>> /\ Len(k.down) = 1))
           \/ k.wire \in {"fin", "reset", "dead"}

\* A client that has sent a request comes back to its menu: with the reply, or
\* because the connection ended under it. Neither a restart of the server nor
\* requests of other clients leave it in recv() for good (ExchangeMessage).
RequestsAreAnswered == \A c \in Clients : app[c].at = "recv" ~> app[c].at # "recv"

\* When a client is gone the server gives up its connection, and its session and
\* rooms with it, whatever was still unread (ServerManagerCallbackDisconnect).
GoneClientsAreDropped ==
  \A l \in Links : link[l].wire \in {"closed", "broken"} ~> link[l].wire \notin {"closed", "broken"}

\* "DISCONNECTED --> CONNECTED : Connect (socket connect OK)", docs/client-side.md:223:
\* the menu shows CONNECTED only when connect() has just made a connection.
ConnectOpensConnection ==
  [][\A c \in Clients :
       app[c].state = "SESSION_DISCONNECTED" /\ app'[c].state = "SESSION_CONNECTED"
         => link'[app'[c].link].wire = "open"]_sysVars

=============================================================================
