------------------------------ MODULE TcpServer ------------------------------
(***************************************************************************)
(* ServerNet/: the controller and its two threads. The acceptor thread     *)
(* takes connections from the listening socket, builds a record for each   *)
(* and hands it to the handler thread through a pipe; the handler thread   *)
(* waits with select() on the pipe and on the sockets of the records it    *)
(* has registered, calls the three callbacks, and closes a socket when the *)
(* peer is gone. Threads of the application call Start, Stop, SetCallbacks *)
(* and Destroy, one at a time under m_lock.                                *)
(*                                                                         *)
(* A connection stands for its record: there is one record per accepted    *)
(* connection. Its server-side socket is fdOf, which the kernel reuses.    *)
(* Every action is one step of one thread between two points where another *)
(* thread or the kernel can act.                                           *)
(***************************************************************************)
EXTENDS Integers, FiniteSets, Sequences

CONSTANTS
  Conns,          \* client connections, each made once
  Fds, NoFd,      \* descriptors the process can have for connections
  BigFds,         \* the ones at or above FD_SETSIZE
  Callers,        \* application threads
  Ops,            \* the functions of TcpServerController.h they call
  Nobody,         \* the owner of a free mutex, the record of an idle thread
  StopSignal,     \* the NULL record pointer that Stop() writes to the pipe
  PipeCapacity,   \* record pointers a pipe holds: PIPE size / sizeof(void*)
  MaxStarts,      \* bound: calls of Start
  MaxSelectErrors,\* bound: calls of select() that return -1
  MaxListFailures \* bound: calls of ListPushTail() that find no memory

\* A pipe holds 8192 pointers, more than a process may have descriptors (1024
\* by default), so a record pointer always finds room; so does a stop signal, one
\* per Start, for any number of restarts a server lives through.
ASSUME TcpServerAssumption ==
  /\ IsFiniteSet(Fds)
  /\ BigFds \subseteq Fds
  /\ NoFd \notin Fds
  /\ Nobody \notin Callers \cup Conns
  /\ Ops \subseteq {"Start", "Stop", "SetCallbacks", "Destroy"}
  /\ StopSignal \notin Conns
  /\ PipeCapacity \in Nat /\ PipeCapacity >= Cardinality(Fds) + MaxStarts
  /\ MaxStarts \in Nat /\ MaxSelectErrors \in Nat /\ MaxListFailures \in Nat

VARIABLES
  serverState, acceptorState, handlerState,  \* the three _Atomic m_state
  lock,           \* m_lock: who holds it
  call,           \* call[w]: the API function w is in, and how far it is
  callbacks,      \* the three callback pointers: which of two sets is installed
  destroyed,      \* the controller is freed
  starts,         \* calls of Start so far
  listen,         \* the listening socket m_listenFd
  backlog,        \* connections the kernel made and nobody accepted yet
  acceptor,       \* the acceptor thread: its place in AcceptLoop and its record
  pipe,           \* m_wakeupPipe
  handler,        \* the handler thread: its place in ClientHandlerIOLoop, the
                  \* fds of m_activeFdSetCopy it has still to serve (in any order),
                  \* the record it is about to close
  db,             \* m_connectionsDB
  unlisted,       \* records the list had no memory for; their fds and those of the
                  \* list make up m_activeFdSet
  selectErrors,   \* calls of select() that failed so far
  peer,           \* the client's end of each connection
  inbox,          \* inbox[c]: unread bytes have arrived on c
  fdOf            \* the server's descriptor of each connection

ctrlVars == <<serverState, acceptorState, handlerState, lock, call, callbacks, destroyed, starts>>
dbVars == <<db, unlisted>>
netVars == <<backlog, peer, inbox>>
vars == <<ctrlVars, listen, acceptor, pipe, handler, dbVars, selectErrors, netVars, fdOf>>

Idle == [op |-> "none", at |-> "idle"]

\* socket(), bind() and listen() happen here and nowhere else.
TcpConnectionAcceptor_Create ==
  /\ acceptorState = "STOPPED"
  /\ listen = "listening"
  /\ acceptor = [at |-> "none", rec |-> Nobody]

TcpConnectionHandler_Create ==
  /\ handlerState = "STOPPED"
  /\ pipe = <<>>
  /\ handler = [at |-> "none", todo |-> {}, rec |-> Nobody]
  /\ db = {}
  /\ unlisted = {}

\* TcpServerController_Create, before any client has connected.
Init ==
  /\ TcpConnectionAcceptor_Create
  /\ TcpConnectionHandler_Create
  /\ serverState = "STOPPED"
  /\ lock = Nobody
  /\ call = [w \in Callers |-> Idle]
  /\ callbacks = 0
  /\ destroyed = FALSE
  /\ starts = 0
  /\ selectErrors = 0
  /\ backlog = {}
  /\ peer = [c \in Conns |-> "idle"]
  /\ inbox = [c \in Conns |-> FALSE]
  /\ fdOf = [c \in Conns |-> NoFd]

FreeFds == Fds \ {fdOf[c] : c \in Conns}

\* TcpConnectionRecord_Destroy: closes the socket and frees the record.
TcpConnectionRecord_Destroy(c) == fdOf' = [fdOf EXCEPT ![c] = NoFd]

-----------------------------------------------------------------------------
(* The clients and the kernel.                                             *)

Connect(c) ==
  /\ peer[c] = "idle"
  /\ listen = "listening"
  /\ peer' = [peer EXCEPT ![c] = "open"]
  /\ backlog' = backlog \cup {c}
  /\ UNCHANGED <<ctrlVars, listen, acceptor, pipe, handler, dbVars, selectErrors, inbox, fdOf>>

PeerSend(c) ==
  /\ peer[c] = "open"
  /\ c \in backlog \/ fdOf[c] # NoFd
  /\ ~inbox[c]
  /\ inbox' = [inbox EXCEPT ![c] = TRUE]
  /\ UNCHANGED <<ctrlVars, listen, acceptor, pipe, handler, dbVars, selectErrors, backlog, peer, fdOf>>

\* The client closes, exits or crashes.
PeerClose(c) ==
  /\ peer[c] = "open"
  /\ peer' = [peer EXCEPT ![c] = "closed"]
  /\ UNCHANGED <<ctrlVars, listen, acceptor, pipe, handler, dbVars, selectErrors, backlog, inbox, fdOf>>

Readable(c) == inbox[c] \/ peer[c] = "closed"

-----------------------------------------------------------------------------
(* The acceptor thread: TcpConnectionAcceptor_AcceptLoop.                  *)

AcceptorGoto(at) == acceptor' = [acceptor EXCEPT !.at = at]

AcceptorLoop ==
  /\ acceptor.at = "loop"
  /\ AcceptorGoto(IF acceptorState = "RUNNING" THEN "accept" ELSE "exited")
  /\ UNCHANGED <<ctrlVars, listen, pipe, handler, dbVars, selectErrors, netVars, fdOf>>

\* accept() succeeds; when no record can be allocated the socket is closed.
Accept ==
  /\ acceptor.at = "accept"
  /\ listen = "listening"
  /\ \E c \in backlog :
       /\ backlog' = backlog \ {c}
       /\ \/ \E fd \in FreeFds :
               /\ fdOf' = [fdOf EXCEPT ![c] = fd]
               /\ acceptor' = [at |-> "handoff", rec |-> c]
          \/ /\ FreeFds # {}
             /\ AcceptorGoto("loop")
             /\ UNCHANGED fdOf
  /\ UNCHANGED <<ctrlVars, listen, pipe, handler, dbVars, selectErrors, peer, inbox>>

\* accept() returns -1: the socket is shut down or closed, or no fd is free.
AcceptFails ==
  /\ acceptor.at = "accept"
  /\ listen # "listening" \/ (backlog # {} /\ FreeFds = {})
  /\ AcceptorGoto(IF acceptorState = "STOPPED" THEN "exited" ELSE "loop")
  /\ UNCHANGED <<ctrlVars, listen, pipe, handler, dbVars, selectErrors, netVars, fdOf>>

\* write() of the record pointer, which is the handler's from then on.
TcpConnectionHandler_AddConnection(c) ==
  /\ Len(pipe) < PipeCapacity
  /\ pipe' = Append(pipe, c)

\* Faulty: a record that could not be written is forgotten.
ProcessConnectionForgets ==
  /\ acceptor.at = "handoff"
  /\ acceptor' = [at |-> "loop", rec |-> Nobody]
  /\ TcpConnectionHandler_AddConnection(acceptor.rec) \/ UNCHANGED pipe
  /\ UNCHANGED <<ctrlVars, listen, handler, dbVars, selectErrors, netVars, fdOf>>

\* TcpServerController_ProcessConnection; a record that cannot be handed over is
\* destroyed.
ProcessConnection ==
  /\ acceptor.at = "handoff"
  /\ acceptor' = [at |-> "loop", rec |-> Nobody]
  /\ \/ TcpConnectionHandler_AddConnection(acceptor.rec) /\ UNCHANGED fdOf
     \/ /\ TcpConnectionRecord_Destroy(acceptor.rec)
        /\ UNCHANGED pipe
  /\ UNCHANGED <<ctrlVars, listen, handler, dbVars, selectErrors, netVars>>

AcceptorNext == AcceptorLoop \/ Accept \/ AcceptFails \/ ProcessConnection

-----------------------------------------------------------------------------
(* The handler thread: ClientHandlerIOLoop.                                *)

HandlerLoop ==
  /\ handler.at = "loop"
  /\ handler' = [handler EXCEPT !.at = IF handlerState = "RUNNING" THEN "select" ELSE "exited"]
  /\ UNCHANGED <<ctrlVars, listen, acceptor, pipe, dbVars, selectErrors, netVars, fdOf>>

\* m_activeFdSet.
Watched == db \cup unlisted

\* Faulty: m_activeFdSet is consulted after select() instead of its copy.
WaitForActivityOriginalSet ==
  /\ handler.at = "select"
  /\ pipe # <<>> \/ \E c \in Watched : Readable(c)
  /\ handler' = [handler EXCEPT !.at = IF pipe # <<>> THEN "register" ELSE "serve",
                                !.todo = {fdOf[c] : c \in Watched}]
  /\ UNCHANGED <<ctrlVars, listen, acceptor, pipe, dbVars, selectErrors, netVars, fdOf>>

\* Faulty: the pipe is read only when no client has anything to say.
WaitForActivityClientsFirst ==
  LET ready == {fdOf[c] : c \in {d \in Watched : Readable(d)}}
  IN  /\ handler.at = "select"
      /\ pipe # <<>> \/ ready # {}
      /\ handler' = [handler EXCEPT !.at = IF ready = {} THEN "register" ELSE "serve",
                                    !.todo = ready]
      /\ UNCHANGED <<ctrlVars, listen, acceptor, pipe, dbVars, selectErrors, netVars, fdOf>>

\* WaitForActivity: blocks until the pipe or a registered socket is readable.
\* The fds that are ready now are the ones this turn of the loop serves. A call
\* that fails ends the thread, but for an interrupted one (EINTR).
WaitForActivity ==
  LET ready == {fdOf[c] : c \in {d \in Watched : Readable(d)}}
  IN  /\ handler.at = "select"
      /\ \/ /\ pipe # <<>> \/ ready # {}
            /\ handler' = [handler EXCEPT !.at = IF pipe # <<>> THEN "register" ELSE "serve",
                                          !.todo = ready]
            /\ UNCHANGED selectErrors
         \/ /\ selectErrors < MaxSelectErrors
            /\ selectErrors' = selectErrors + 1
            /\ \E at \in {"exited", "loop"} : handler' = [handler EXCEPT !.at = at]
      /\ UNCHANGED <<ctrlVars, listen, acceptor, pipe, dbVars, netVars, fdOf>>

\* Faulty: the stop signal is taken for a record.
ProcessNewConnectionUnchecked ==
  /\ handler.at = "register"
  /\ pipe' = Tail(pipe)
  /\ handler' = [handler EXCEPT !.at = "serve"]
  /\ db' = db \cup {Head(pipe)}
  /\ UNCHANGED <<unlisted, ctrlVars, listen, acceptor, selectErrors, netVars, fdOf>>

\* The record is listed and watched, and the new-connection callback runs. When
\* ListPushTail() fails it is only watched: its result is not looked at.
RegisterAndNotify(c) ==
  /\ handler' = [handler EXCEPT !.at = "serve"]
  /\ \/ db' = db \cup {c} /\ UNCHANGED unlisted
     \/ /\ Cardinality(unlisted) < MaxListFailures
        /\ unlisted' = unlisted \cup {c}
        /\ UNCHANGED db

\* ProcessNewConnection: one pointer per turn. An fd select() cannot watch goes
\* the way of a disconnected one.
ProcessNewConnection ==
  /\ handler.at = "register"
  /\ pipe' = Tail(pipe)
  /\ LET c == Head(pipe)
     IN  IF c = StopSignal
         THEN handler' = [handler EXCEPT !.at = "serve"] /\ UNCHANGED dbVars
         ELSE IF fdOf[c] \in BigFds
         THEN handler' = [handler EXCEPT !.at = "disconnect", !.rec = c] /\ UNCHANGED dbVars
         ELSE RegisterAndNotify(c)
  /\ UNCHANGED <<ctrlVars, listen, acceptor, selectErrors, netVars, fdOf>>

\* The listed records whose fd select() reported: ServiceExistingConnections
\* finds them again by fd.
Ready == {c \in db : fdOf[c] \in handler.todo}

\* TcpServerController_ProcessMessage: the message callback consumes the bytes.
ProcessMessage(c) == inbox' = [inbox EXCEPT ![c] = FALSE]

\* Faulty: one record is served per turn.
ProcessOneClient ==
  /\ handler.at = "serve"
  /\ \E c \in Ready :
       IF inbox[c]
       THEN /\ ProcessMessage(c)
            /\ handler' = [handler EXCEPT !.todo = {}]
            /\ UNCHANGED db
       ELSE /\ db' = db \ {c}
            /\ handler' = [at |-> "disconnect", todo |-> {}, rec |-> c]
            /\ UNCHANGED inbox
  /\ UNCHANGED <<ctrlVars, listen, acceptor, pipe, unlisted, selectErrors, backlog, peer, fdOf>>

\* ProcessClientData, for one ready record. recv() blocks on a socket that is not
\* readable; bytes end in the message callback, an end of file in a disconnection.
ProcessClientData ==
  /\ handler.at = "serve"
  /\ \E c \in Ready :
       LET todo == handler.todo \ {fdOf[c]}
       IN  /\ Readable(c)
           /\ IF inbox[c]
              THEN /\ ProcessMessage(c)
                   /\ handler' = [handler EXCEPT !.todo = todo]
                   /\ UNCHANGED db
              ELSE /\ db' = db \ {c}
                   /\ handler' = [at |-> "disconnect", todo |-> todo, rec |-> c]
                   /\ UNCHANGED inbox
  /\ UNCHANGED <<ctrlVars, listen, acceptor, pipe, unlisted, selectErrors, backlog, peer, fdOf>>

\* TcpServerController_ProcessDisconnect, after the disconnect callback returned.
ProcessDisconnect ==
  /\ handler.at = "disconnect"
  /\ TcpConnectionRecord_Destroy(handler.rec)
  /\ handler' = [handler EXCEPT !.at = "serve", !.rec = Nobody]
  /\ UNCHANGED <<ctrlVars, listen, acceptor, pipe, dbVars, selectErrors, netVars>>

ServiceDone ==
  /\ handler.at = "serve"
  /\ Ready = {}
  /\ handler' = [handler EXCEPT !.at = "loop", !.todo = {}]
  /\ UNCHANGED <<ctrlVars, listen, acceptor, pipe, dbVars, selectErrors, netVars, fdOf>>

HandlerNext ==
  \/ HandlerLoop \/ WaitForActivity \/ ProcessNewConnection \/ ProcessClientData
  \/ ProcessDisconnect \/ ServiceDone

-----------------------------------------------------------------------------
(* The application's calls.                                                *)

Goto(w, at) == call' = [call EXCEPT ![w].at = at]

Return(w) == call' = [call EXCEPT ![w] = Idle] /\ lock' = Nobody

\* Destroy is not called while another thread is inside the controller, nor is
\* anything called once it has begun (TcpServerController.h:13-15).
Call(w, op) ==
  /\ call[w] = Idle
  /\ ~destroyed
  /\ \A x \in Callers : IF op = "Destroy" THEN call[x] = Idle ELSE call[x].op # "Destroy"
  /\ op = "Start" => starts < MaxStarts
  /\ starts' = IF op = "Start" THEN starts + 1 ELSE starts
  /\ call' = [call EXCEPT ![w] = [op |-> op, at |-> "lock"]]
  /\ UNCHANGED <<serverState, acceptorState, handlerState, lock, callbacks, destroyed, listen,
                 acceptor, pipe, handler, dbVars, selectErrors, netVars, fdOf>>

Enters(w, op) == call[w] = [op |-> op, at |-> "lock"] /\ lock = Nobody

\* Faulty: RUNNING is not tested.
SetCallbacksAnytime(w) ==
  /\ Enters(w, "SetCallbacks")
  /\ callbacks' = 1 - callbacks
  /\ Return(w)
  /\ UNCHANGED <<serverState, acceptorState, handlerState, destroyed, starts, listen, acceptor, pipe,
                 handler, dbVars, selectErrors, netVars, fdOf>>

\* TcpServerController_SetCallbacks: never blocks while it holds the lock.
SetCallbacks(w) ==
  /\ Enters(w, "SetCallbacks")
  /\ callbacks' = IF serverState = "RUNNING" THEN callbacks ELSE 1 - callbacks
  /\ Return(w)
  /\ UNCHANGED <<serverState, acceptorState, handlerState, destroyed, starts, listen, acceptor, pipe,
                 handler, dbVars, selectErrors, netVars, fdOf>>

\* TcpServerController_Start and TcpServerController_Stop return at once when the
\* server is RUNNING, or STOPPED, already; TcpServerController_Destroy never does.
Lock(w) ==
  /\ \/ /\ Enters(w, "Start")
        /\ IF serverState = "RUNNING" THEN Return(w) ELSE Goto(w, "startAcceptor") /\ lock' = w
     \/ /\ Enters(w, "Stop")
        /\ IF serverState = "STOPPED" THEN Return(w) ELSE Goto(w, "stopAcceptor") /\ lock' = w
     \/ /\ Enters(w, "Destroy")
        /\ Goto(w, "stopAcceptor") /\ lock' = w
  /\ UNCHANGED <<serverState, acceptorState, handlerState, callbacks, destroyed, starts, listen,
                 acceptor, pipe, handler, dbVars, selectErrors, netVars, fdOf>>

\* TcpConnectionAcceptor_Start: RUNNING is published, then the thread created;
\* when that fails RUNNING is taken back, which no thread has seen.
StartAcceptor(w) ==
  /\ call[w].at = "startAcceptor"
  /\ \/ /\ acceptorState' = "RUNNING"
        /\ acceptor' = [at |-> "loop", rec |-> Nobody]
        /\ Goto(w, "startHandler")
     \/ /\ Goto(w, "stopAcceptor")
        /\ UNCHANGED <<acceptorState, acceptor>>
  /\ UNCHANGED <<serverState, handlerState, lock, callbacks, destroyed, starts, listen, pipe, handler,
                 dbVars, selectErrors, netVars, fdOf>>

\* TcpConnectionHandler_Start, and the end of TcpServerController_Start.
StartHandler(w) ==
  /\ call[w].at = "startHandler"
  /\ \/ /\ handlerState' = "RUNNING"
        /\ handler' = [at |-> "loop", todo |-> {}, rec |-> Nobody]
        /\ serverState' = "RUNNING"
        /\ Return(w)
     \/ /\ Goto(w, "stopAcceptor")
        /\ UNCHANGED <<serverState, handlerState, handler, lock>>
  /\ UNCHANGED <<acceptorState, callbacks, destroyed, starts, listen, acceptor, pipe, dbVars, selectErrors,
                 netVars, fdOf>>

\* TcpConnectionAcceptor_Stop, up to shutdown(): connections in the backlog are
\* reset. Only the caller that finds RUNNING goes on to the join.
StopAcceptor(w) ==
  /\ \/ /\ call[w].at = "stopAcceptor"
        /\ acceptorState' = "STOPPED"
        /\ Goto(w, IF acceptorState = "RUNNING" THEN "shutdown" ELSE "stopHandler")
        /\ UNCHANGED <<listen, backlog, peer>>
     \/ /\ call[w].at = "shutdown"
        /\ listen' = IF listen = "listening" THEN "shut" ELSE listen
        /\ backlog' = {}
        /\ peer' = [c \in Conns |-> IF c \in backlog THEN "closed" ELSE peer[c]]
        /\ Goto(w, "joinAcceptor")
        /\ UNCHANGED acceptorState
  /\ UNCHANGED <<serverState, handlerState, lock, callbacks, destroyed, starts, acceptor, pipe,
                 handler, dbVars, selectErrors, inbox, fdOf>>

\* Faulty: the socket is closed before the thread is joined.
CloseWithoutJoin(w) ==
  /\ call[w].at = "joinAcceptor"
  /\ listen' = "closed"
  /\ Goto(w, "stopHandler")
  /\ UNCHANGED <<serverState, acceptorState, handlerState, lock, callbacks, destroyed, starts, acceptor,
                 pipe, handler, dbVars, selectErrors, netVars, fdOf>>

\* TcpConnectionAcceptor_Stop, from pthread_join() to close().
JoinAcceptor(w) ==
  /\ call[w].at = "joinAcceptor"
  /\ acceptor.at = "exited"
  /\ acceptor' = [acceptor EXCEPT !.at = "none"]
  /\ listen' = "closed"
  /\ Goto(w, "stopHandler")
  /\ UNCHANGED <<serverState, acceptorState, handlerState, lock, callbacks, destroyed, starts, pipe,
                 handler, dbVars, selectErrors, netVars, fdOf>>

\* Faulty: no stop signal is written.
StopHandlerSilently(w) ==
  /\ call[w].at = "stopHandler"
  /\ handlerState' = "STOPPED"
  /\ Goto(w, IF handlerState = "RUNNING" THEN "joinHandler" ELSE "finish")
  /\ UNCHANGED <<serverState, acceptorState, lock, callbacks, destroyed, starts, listen, acceptor, pipe,
                 handler, dbVars, selectErrors, netVars, fdOf>>

\* TcpConnectionHandler_Stop, up to the write() of the stop signal, which blocks
\* while the pipe is full.
StopHandler(w) ==
  /\ \/ /\ call[w].at = "stopHandler"
        /\ handlerState' = "STOPPED"
        /\ Goto(w, IF handlerState = "RUNNING" THEN "signal" ELSE "finish")
        /\ UNCHANGED pipe
     \/ /\ call[w].at = "signal"
        /\ Len(pipe) < PipeCapacity
        /\ pipe' = Append(pipe, StopSignal)
        /\ Goto(w, "joinHandler")
        /\ UNCHANGED handlerState
  /\ UNCHANGED <<serverState, acceptorState, lock, callbacks, destroyed, starts, listen, acceptor,
                 handler, dbVars, selectErrors, netVars, fdOf>>

\* TcpConnectionHandler_Stop, pthread_join().
JoinHandler(w) ==
  /\ call[w].at = "joinHandler"
  /\ handler.at = "exited"
  /\ handler' = [at |-> "none", todo |-> {}, rec |-> Nobody]
  /\ Goto(w, "finish")
  /\ UNCHANGED <<serverState, acceptorState, handlerState, lock, callbacks, destroyed, starts, listen,
                 acceptor, pipe, dbVars, selectErrors, netVars, fdOf>>

\* Faulty: the list is freed without its records.
TcpConnectionHandler_DestroyList ==
  /\ db' = {}
  /\ UNCHANGED fdOf

\* The listed records are destroyed and the pipe is closed.
TcpConnectionHandler_Destroy ==
  /\ db' = {}
  /\ fdOf' = [c \in Conns |-> IF c \in db THEN NoFd ELSE fdOf[c]]

\* The end of a Start that failed, of Stop, and of Destroy.
Finish(w) ==
  /\ call[w].at = "finish"
  /\ serverState' = "STOPPED"
  /\ IF call[w].op = "Destroy"
     THEN /\ destroyed' = TRUE
          /\ TcpConnectionHandler_Destroy
     ELSE UNCHANGED <<destroyed, db, fdOf>>
  /\ Return(w)
  /\ UNCHANGED <<acceptorState, handlerState, callbacks, starts, listen, acceptor, pipe, handler,
                 unlisted, selectErrors, netVars>>

CallerNext(w) ==
  \/ SetCallbacks(w) \/ Lock(w) \/ StartAcceptor(w) \/ StartHandler(w) \/ StopAcceptor(w)
  \/ JoinAcceptor(w) \/ StopHandler(w) \/ JoinHandler(w) \/ Finish(w)

-----------------------------------------------------------------------------

Next ==
  \/ \E c \in Conns : Connect(c) \/ PeerSend(c) \/ PeerClose(c)
  \/ AcceptorNext
  \/ HandlerNext
  \/ \E w \in Callers :
       \/ \E op \in Ops : Call(w, op)
       \/ CallerNext(w)

\* The operating system runs every thread that can run: the two workers and the
\* threads that are inside a call.
Fairness ==
  /\ WF_vars(AcceptorNext)
  /\ WF_vars(HandlerNext)
  /\ \A w \in Callers : WF_vars(CallerNext(w))

Spec == Init /\ [][Next]_vars

FairSpec == Spec /\ Fairness

-----------------------------------------------------------------------------
(* Properties.                                                             *)

PipeRecords == {pipe[i] : i \in 1 .. Len(pipe)} \ {StopSignal}

TypeOK ==
  /\ serverState \in {"RUNNING", "STOPPED"}
  /\ acceptorState \in {"RUNNING", "STOPPED"}
  /\ handlerState \in {"RUNNING", "STOPPED"}
  /\ lock \in Callers \cup {Nobody}
  /\ call \in [Callers -> [op: {"none", "Start", "Stop", "SetCallbacks", "Destroy"},
                           at: {"idle", "lock", "startAcceptor", "startHandler", "stopAcceptor",
                                "shutdown", "joinAcceptor", "stopHandler", "signal", "joinHandler",
                                "finish"}]]
  /\ callbacks \in {0, 1}
  /\ destroyed \in BOOLEAN
  /\ starts \in 0 .. MaxStarts
  /\ listen \in {"listening", "shut", "closed"}
  /\ backlog \subseteq Conns
  /\ acceptor \in [at: {"none", "loop", "accept", "handoff", "exited"}, rec: Conns \cup {Nobody}]
  /\ pipe \in Seq(Conns \cup {StopSignal}) /\ Len(pipe) <= PipeCapacity
  /\ handler \in [at: {"none", "loop", "select", "register", "serve", "disconnect", "exited"},
                  todo: SUBSET Fds, rec: Conns \cup {Nobody}]
  /\ db \subseteq Conns /\ unlisted \subseteq Conns
  /\ selectErrors \in 0 .. MaxSelectErrors
  /\ peer \in [Conns -> {"idle", "open", "closed"}]
  /\ inbox \in [Conns -> BOOLEAN]
  /\ fdOf \in [Conns -> Fds \cup {NoFd}]

\* Every open connection is the record of exactly one owner: the acceptor until
\* it writes the pointer, then the pipe, then the handler's list or its hands (or,
\* if the list had no memory for it, nobody, for good).
\* So no record is freed twice, used after it was freed, or lost, whatever the
\* order in which the two threads, the peers and Stop act, and no socket the
\* handler watches, reads or is about to close belongs to another connection
\* that got the same fd (ownership comments at TcpServerController.c:322-329).
OneOwner ==
  /\ \A c \in Conns :
       fdOf[c] # NoFd <=> c \in {acceptor.rec, handler.rec} \cup PipeRecords \cup Watched
  /\ \A i, j \in 1 .. Len(pipe) : pipe[i] = pipe[j] /\ pipe[i] # StopSignal => i = j
  /\ acceptor.rec \notin PipeRecords \cup Watched
  /\ handler.rec \notin PipeRecords \cup Watched
  /\ acceptor.rec # handler.rec \/ acceptor.rec = Nobody
  /\ PipeRecords \cap Watched = {}
  /\ db \cap unlisted = {}

\* The handler thread, which serves every client, never blocks in recv() and never
\* passes select() an fd it cannot watch: an fd that select() reported still
\* belongs to the record it was reported for, although peers close, records are
\* destroyed and the kernel hands out the same fds again while the turn lasts.
NeverBlocksInRecv ==
  /\ \A c \in Watched : fdOf[c] \in Fds \ BigFds
  /\ \A c \in Ready : Readable(c)

\* close() of the listening socket happens only after the acceptor thread was
\* joined, in every interleaving of Stop, a failed Start or Destroy with accept():
\* "close() must happen ONLY after pthread_join" (TcpConnectionAcceptor.c:37).
CloseAfterJoin ==
  [][listen' = "closed" => acceptor'.at = "none" \/ listen = "closed"]_vars

\* The callback pointers, which the workers read without a lock, change only
\* while no worker is alive (TcpServerController.c:45-53).
CallbacksFrozen ==
  [][callbacks' # callbacks => acceptor.at = "none" /\ handler.at = "none"]_vars

\* Once Destroy has returned, nothing that was being served is still open: both
\* threads put down what they held before they were joined, and the list is closed.
\* Only a record that was on its way through the pipe, or that the list had no
\* memory for, stays open (TcpConnectionHandler.c:133-148).
DestroyReleasesServed ==
  destroyed => \A c \in Conns : fdOf[c] # NoFd => c \in PipeRecords \cup unlisted

\* No thread waits in vain. m_lock is held only by a thread that is on its way
\* through a call. The write of the stop signal finds room in the pipe, however many
\* pointers and signals of earlier stops were never read. A join has a thread to
\* wait for, that thread has been told to end, and no accept() or select() it is in
\* can sleep: the listening socket is shut down, and there is something in the pipe
\* (TcpConnectionAcceptor.c:147-161, TcpConnectionHandler.c:193-204).
NobodyWaitsInVain ==
  /\ lock # Nobody => call[lock].at \notin {"idle", "lock"}
  /\ \A w \in Callers :
       /\ call[w].at = "joinAcceptor" =>
            acceptor.at # "none" /\ acceptorState = "STOPPED" /\ listen # "listening"
       /\ call[w].at = "signal" => Len(pipe) < PipeCapacity
       /\ call[w].at = "joinHandler" =>
            /\ handler.at # "none" /\ handlerState = "STOPPED"
            /\ handler.at = "select" => pipe # <<>>

\* Start, Stop, SetCallbacks and Destroy return: the workers never wait for
\* m_lock, shutdown() and the stop signal wake them, and the joins end.
CallsReturn == \A w \in Callers : call[w] # Idle ~> call[w] = Idle

\* As long as the handler thread lives, an accepted connection is registered or
\* closed: no record is forgotten in the pipe, although one turn of the loop takes
\* only one pointer out of it and the other clients are served in between.
AcceptedIsServed ==
  \A c \in Conns :
    acceptor.rec = c ~> c \in Watched \/ fdOf[c] = NoFd \/ handler.at \in {"none", "exited"}

\* As long as the handler thread lives, what a client of the list has sent reaches
\* the message callback: a turn serves every socket that select() reported, so no
\* client starves behind others that never stop sending, nor behind new
\* connections (ServiceExistingConnections, TcpConnectionHandler.c:346-366).
NobodyStarves ==
  \A c \in Conns : c \in db /\ inbox[c] ~> ~inbox[c] \/ handler.at \in {"none", "exited"}

=============================================================================
