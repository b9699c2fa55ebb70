--------------------------- MODULE TcpServerProofs ---------------------------
(***************************************************************************)
(* Proofs about TcpServer, for any number of connections, descriptors,     *)
(* application threads, restarts and failures.                             *)
(***************************************************************************)
EXTENDS TcpServer, TLAPS

\* The provers of a leaf that names none, in the order they are tried.
USE SMT, ZenonT(30), SMTT(30), ZenonT(60)

-----------------------------------------------------------------------------
(* Types, one group of variables at a time.                                *)

FlagTypes ==
  /\ serverState \in {"RUNNING", "STOPPED"}
  /\ acceptorState \in {"RUNNING", "STOPPED"}
  /\ handlerState \in {"RUNNING", "STOPPED"}
  /\ lock \in Callers \cup {Nobody}
  /\ callbacks \in {0, 1}
  /\ listen \in {"listening", "shut", "closed"}

CountTypes == starts \in 0 .. MaxStarts /\ selectErrors \in 0 .. MaxSelectErrors

BoolTypes == destroyed \in BOOLEAN /\ inbox \in [Conns -> BOOLEAN]

CallTypes ==
  call \in [Callers -> [op: {"none", "Start", "Stop", "SetCallbacks", "Destroy"},
                        at: {"idle", "lock", "startAcceptor", "startHandler", "stopAcceptor",
                             "shutdown", "joinAcceptor", "stopHandler", "signal", "joinHandler",
                             "finish"}]]

AcceptorType ==
  acceptor \in [at: {"none", "loop", "accept", "handoff", "exited"}, rec: Conns \cup {Nobody}]

HandlerType ==
  handler \in [at: {"none", "loop", "select", "register", "serve", "disconnect", "exited"},
               todo: SUBSET Fds, rec: Conns \cup {Nobody}]

PipeType == pipe \in Seq(Conns \cup {StopSignal}) /\ Len(pipe) <= PipeCapacity

SetTypes == backlog \subseteq Conns /\ db \subseteq Conns /\ unlisted \subseteq Conns

NetTypes == peer \in [Conns -> {"idle", "open", "closed"}] /\ fdOf \in [Conns -> Fds \cup {NoFd}]

Types ==
  /\ FlagTypes /\ CountTypes /\ BoolTypes /\ CallTypes /\ AcceptorType /\ HandlerType
  /\ PipeType /\ SetTypes /\ NetTypes

\* TcpServerController_Create makes a well-typed state.
LEMMA InitTypes == Init => Types
<1> SUFFICES ASSUME Init PROVE Types
  OBVIOUS
<1> USE TcpServerAssumption DEF Init, TcpConnectionAcceptor_Create, TcpConnectionHandler_Create, Idle
<1>1. FlagTypes BY DEF FlagTypes
<1>2. CountTypes BY DEF CountTypes
<1>3. BoolTypes BY ZenonT(30), ZenonT(60) DEF BoolTypes
<1>4. CallTypes BY DEF CallTypes
<1>5. AcceptorType BY DEF AcceptorType
<1>6. HandlerType BY DEF HandlerType
<1>7. PipeType BY DEF PipeType
<1>8. SetTypes BY DEF SetTypes
<1>9. NetTypes BY DEF NetTypes
<1> QED
  BY <1>1, <1>2, <1>3, <1>4, <1>5, <1>6, <1>7, <1>8, <1>9 DEF Types

-----------------------------------------------------------------------------
(* Who writes what: the steps other than the named ones leave the variables *)
(* alone.                                                                  *)

CallStep(w) ==
  (\E op \in Ops : Call(w, op)) \/ CallerNext(w)

\* The calls write the states and the callbacks, under m_lock; each thread moves by
\* itself and is created and joined by a call; the pipe is written by the acceptor
\* and by Stop and read by the handler; and so on.
LEMMA Writers ==
  ASSUME [Next]_vars
  PROVE  /\ UNCHANGED ctrlVars \/ \E w \in Callers : CallStep(w)
         /\ UNCHANGED <<listen, selectErrors>> \/ WaitForActivity
              \/ \E w \in Callers : StopAcceptor(w) \/ JoinAcceptor(w)
         /\ UNCHANGED acceptor \/ AcceptorNext \/ \E w \in Callers : StartAcceptor(w) \/ JoinAcceptor(w)
         /\ UNCHANGED handler \/ HandlerNext \/ \E w \in Callers : StartHandler(w) \/ JoinHandler(w)
         /\ UNCHANGED pipe \/ ProcessConnection \/ ProcessNewConnection \/ \E w \in Callers : StopHandler(w)
         /\ UNCHANGED <<backlog, db, unlisted>> \/ Accept \/ ProcessNewConnection \/ ProcessClientData
              \/ (\E c \in Conns : Connect(c)) \/ \E w \in Callers : StopAcceptor(w) \/ Finish(w)
         /\ UNCHANGED <<peer, fdOf>> \/ Accept \/ ProcessConnection \/ ProcessDisconnect
              \/ (\E c \in Conns : Connect(c) \/ PeerClose(c))
              \/ \E w \in Callers : StopAcceptor(w) \/ Finish(w)
         /\ UNCHANGED inbox \/ ProcessClientData \/ \E c \in Conns : PeerSend(c)
<1> USE DEF vars, ctrlVars, dbVars, netVars
<1>1. CASE UNCHANGED vars BY <1>1
<1>2. CASE \E c \in Conns : Connect(c) \/ PeerSend(c) \/ PeerClose(c)
  BY <1>2 DEF Connect, PeerSend, PeerClose
<1>3. CASE AcceptorNext
  BY <1>3 DEF AcceptorNext, AcceptorLoop, Accept, AcceptFails, ProcessConnection
<1>4. CASE HandlerNext
  BY <1>4 DEF HandlerNext, HandlerLoop, WaitForActivity, ProcessNewConnection, ProcessClientData,
              ProcessDisconnect, ServiceDone
<1>5. ASSUME NEW w \in Callers, CallStep(w)
      PROVE  /\ UNCHANGED <<listen, selectErrors>> \/ StopAcceptor(w) \/ JoinAcceptor(w)
             /\ UNCHANGED acceptor \/ StartAcceptor(w) \/ JoinAcceptor(w)
             /\ UNCHANGED handler \/ StartHandler(w) \/ JoinHandler(w)
             /\ UNCHANGED pipe \/ StopHandler(w)
             /\ UNCHANGED <<backlog, peer>> \/ StopAcceptor(w)
             /\ UNCHANGED <<db, fdOf>> \/ Finish(w)
             /\ UNCHANGED <<unlisted, inbox>>
  BY <1>5 DEF CallStep, Call, CallerNext, SetCallbacks, Lock, StartAcceptor, StartHandler, StopAcceptor,
              JoinAcceptor, StopHandler, JoinHandler, Finish
<1> QED BY <1>1, <1>2, <1>3, <1>4, <1>5 DEF Next, CallStep

-----------------------------------------------------------------------------
(* Every step keeps the types, given what holds at the places of the two   *)
(* threads.                                                                *)

\* The threads hold a record at one place only, and the handler reads the pipe only
\* when it holds something, as select() said.
Places ==
  /\ acceptor.rec # Nobody <=> acceptor.at = "handoff"
  /\ handler.rec # Nobody <=> handler.at = "disconnect"
  /\ handler.at = "none" => handler.todo = {}
  /\ handler.at = "register" => pipe # <<>>

\* select() is given fds it can watch (the first half of NeverBlocksInRecv).
WatchedFds == \A c \in Watched : fdOf[c] \in Fds \ BigFds

\* The calls keep the types of what they write.
LEMMA CallStepTypes ==
  ASSUME Types, NEW w \in Callers, CallStep(w)
  PROVE  FlagTypes' /\ starts' \in 0 .. MaxStarts /\ destroyed' \in BOOLEAN /\ CallTypes'
<1>0. FlagTypes /\ CallTypes /\ starts \in 0 .. MaxStarts
  BY DEF Types, CountTypes
<1>1. ASSUME \E op \in Ops : Call(w, op) PROVE FlagTypes' /\ CallTypes' /\ starts' \in 0 .. MaxStarts
  BY <1>0, <1>1, TcpServerAssumption DEF Call, Idle, FlagTypes, CallTypes
<1>2. ASSUME SetCallbacks(w) PROVE FlagTypes' /\ CallTypes' /\ starts' \in 0 .. MaxStarts
  BY <1>0, <1>2, TcpServerAssumption DEF SetCallbacks, Enters, Return, Idle, FlagTypes, CallTypes
<1>3. ASSUME Lock(w) PROVE FlagTypes' /\ CallTypes' /\ starts' \in 0 .. MaxStarts
  BY <1>0, <1>3, TcpServerAssumption DEF Lock, Enters, Return, Goto, Idle, FlagTypes, CallTypes
<1>4. ASSUME StartAcceptor(w) PROVE FlagTypes' /\ CallTypes' /\ starts' \in 0 .. MaxStarts
  BY <1>0, <1>4, TcpServerAssumption DEF StartAcceptor, Goto, FlagTypes, CallTypes
<1>5. ASSUME StartHandler(w) PROVE FlagTypes' /\ CallTypes' /\ starts' \in 0 .. MaxStarts
  BY <1>0, <1>5, TcpServerAssumption DEF StartHandler, Goto, Return, Idle, FlagTypes, CallTypes
<1>6. ASSUME StopAcceptor(w) PROVE FlagTypes' /\ CallTypes' /\ starts' \in 0 .. MaxStarts
  BY <1>0, <1>6, TcpServerAssumption DEF StopAcceptor, Goto, FlagTypes, CallTypes
<1>7. ASSUME JoinAcceptor(w) PROVE FlagTypes' /\ CallTypes' /\ starts' \in 0 .. MaxStarts
  BY <1>0, <1>7, TcpServerAssumption DEF JoinAcceptor, Goto, FlagTypes, CallTypes
<1>8. ASSUME StopHandler(w) PROVE FlagTypes' /\ CallTypes' /\ starts' \in 0 .. MaxStarts
  BY <1>0, <1>8, TcpServerAssumption DEF StopHandler, Goto, FlagTypes, CallTypes
<1>9. ASSUME JoinHandler(w) PROVE FlagTypes' /\ CallTypes' /\ starts' \in 0 .. MaxStarts
  BY <1>0, <1>9, TcpServerAssumption DEF JoinHandler, Goto, FlagTypes, CallTypes
<1>10. ASSUME Finish(w) PROVE FlagTypes' /\ CallTypes' /\ starts' \in 0 .. MaxStarts
  BY <1>0, <1>10, TcpServerAssumption DEF Finish, Return, Idle, FlagTypes, CallTypes
<1>11. destroyed' \in BOOLEAN
  BY ZenonT(30), ZenonT(60) DEF CallStep, Call, CallerNext, SetCallbacks, Lock, StartAcceptor, StartHandler, StopAcceptor,
               JoinAcceptor, StopHandler, JoinHandler, Finish, BoolTypes, Types
<1> QED
  BY <1>1, <1>2, <1>3, <1>4, <1>5, <1>6, <1>7, <1>8, <1>9, <1>10, <1>11 DEF CallStep, CallerNext

\* Every step keeps the types.
LEMMA TypesStep ==
  ASSUME Types, Places, WatchedFds, [Next]_vars
  PROVE  Types'
<1> USE TcpServerAssumption
<1>a. FlagTypes' /\ starts' \in 0 .. MaxStarts /\ destroyed' \in BOOLEAN /\ CallTypes'
  <2>1. CASE UNCHANGED ctrlVars /\ UNCHANGED listen
    BY <2>1 DEF ctrlVars, Types, FlagTypes, CountTypes, BoolTypes, CallTypes
  <2>2. CASE UNCHANGED ctrlVars /\ WaitForActivity
    BY <2>2 DEF WaitForActivity, ctrlVars, Types, FlagTypes, CountTypes, BoolTypes, CallTypes
  <2>3. (\E w \in Callers : StopAcceptor(w) \/ JoinAcceptor(w)) => \E w \in Callers : CallStep(w)
    BY DEF CallStep, CallerNext
  <2> QED BY <2>1, <2>2, <2>3, CallStepTypes, Writers
<1>b. selectErrors' \in 0 .. MaxSelectErrors
  <2>0. selectErrors \in 0 .. MaxSelectErrors
    BY DEF Types, CountTypes
  <2>1. CASE WaitForActivity
    BY <2>0, <2>1 DEF WaitForActivity
  <2>2. CASE \E w \in Callers : StopAcceptor(w) \/ JoinAcceptor(w)
    BY <2>0, <2>2 DEF StopAcceptor, JoinAcceptor
  <2>3. CASE UNCHANGED selectErrors
    BY <2>0, <2>3
  <2> QED BY <2>1, <2>2, <2>3, Writers
<1>c. inbox' \in [Conns -> BOOLEAN]
  BY Writers, ZenonT(30), ZenonT(60) DEF Types, BoolTypes, ProcessClientData, ProcessMessage, PeerSend
<1>d. AcceptorType'
  <2>0. AcceptorType /\ SetTypes
    BY DEF Types
  <2>1. CASE AcceptorLoop \/ AcceptFails \/ ProcessConnection
    BY <2>0, <2>1 DEF AcceptorType, AcceptorLoop, AcceptFails, ProcessConnection, AcceptorGoto
  <2>2. CASE Accept
    BY <2>0, <2>2 DEF AcceptorType, SetTypes, Accept, AcceptorGoto
  <2>3. CASE \E w \in Callers : StartAcceptor(w) \/ JoinAcceptor(w)
    BY <2>0, <2>3 DEF AcceptorType, StartAcceptor, JoinAcceptor
  <2>4. CASE UNCHANGED acceptor
    BY <2>0, <2>4 DEF AcceptorType
  <2> QED BY <2>1, <2>2, <2>3, <2>4, Writers DEF AcceptorNext
<1>e. HandlerType'
  <2>1. CASE WaitForActivity
    <3> DEFINE ready == {fdOf[c] : c \in {d \in Watched : Readable(d)}}
    <3>1. ready \subseteq Fds
      BY DEF WatchedFds
    <3> HIDE DEF ready
    <3>2. \/ handler' = [handler EXCEPT !.at = IF pipe # <<>> THEN "register" ELSE "serve", !.todo = ready]
          \/ \E at \in {"exited", "loop"} : handler' = [handler EXCEPT !.at = at]
      BY <2>1 DEF WaitForActivity, ready
    <3> QED BY <3>1, <3>2, ZenonT(30), ZenonT(60) DEF Types, HandlerType
  <2>2. CASE ProcessNewConnection
    <3>1. Head(pipe) \in Conns \cup {StopSignal}
      BY <2>2 DEF ProcessNewConnection, Types, PipeType, Places
    <3> QED BY <2>2, <3>1, ZenonT(30), ZenonT(60) DEF ProcessNewConnection, RegisterAndNotify, Types, HandlerType
  <2>3. CASE ProcessClientData
    BY <2>3 DEF ProcessClientData, Types, HandlerType, SetTypes, Ready
  <2>4. CASE HandlerLoop \/ ProcessDisconnect \/ ServiceDone \/ UNCHANGED handler
    BY <2>4, ZenonT(30), ZenonT(60) DEF HandlerLoop, ProcessDisconnect, ServiceDone, Types, HandlerType
  <2>5. CASE \E w \in Callers : StartHandler(w) \/ JoinHandler(w)
    BY <2>5 DEF StartHandler, JoinHandler, Types, HandlerType
  <2> QED BY <2>1, <2>2, <2>3, <2>4, <2>5, Writers DEF HandlerNext
<1>f. PipeType'
  <2>1. CASE ProcessConnection
    <3>1. acceptor.rec \in Conns
      BY <2>1 DEF ProcessConnection, Places, Types, AcceptorType
    <3> QED BY <2>1, <3>1 DEF ProcessConnection, TcpConnectionHandler_AddConnection, Types, PipeType
  <2>2. CASE ProcessNewConnection
    BY <2>2 DEF ProcessNewConnection, Types, PipeType, Places
  <2>3. CASE \E w \in Callers : StopHandler(w)
    BY <2>3 DEF StopHandler, Types, PipeType
  <2>4. CASE UNCHANGED pipe
    BY <2>4 DEF Types, PipeType
  <2> QED BY <2>1, <2>2, <2>3, <2>4, Writers
<1>g. SetTypes'
  <2>1. CASE ProcessNewConnection
    BY <2>1 DEF ProcessNewConnection, RegisterAndNotify, dbVars, netVars, Types, SetTypes, PipeType, Places
  <2>2. CASE Accept \/ ProcessClientData \/ (\E c \in Conns : Connect(c)) \/ UNCHANGED <<backlog, db, unlisted>>
    BY <2>2 DEF Accept, ProcessClientData, Connect, dbVars, Types, SetTypes
  <2>3. CASE \E w \in Callers : StopAcceptor(w) \/ Finish(w)
    BY <2>3 DEF StopAcceptor, Finish, TcpConnectionHandler_Destroy, dbVars, netVars, Types, SetTypes
  <2> QED BY <2>1, <2>2, <2>3, Writers
<1>h. NetTypes'
  <2>1. CASE Accept \/ ProcessConnection \/ ProcessDisconnect
    BY <2>1 DEF Accept, FreeFds, ProcessConnection, ProcessDisconnect, TcpConnectionRecord_Destroy,
                netVars, Types, NetTypes
  <2>2. CASE (\E c \in Conns : Connect(c) \/ PeerClose(c)) \/ UNCHANGED <<peer, fdOf>>
    BY <2>2 DEF Connect, PeerClose, Types, NetTypes
  <2>3. CASE \E w \in Callers : StopAcceptor(w) \/ Finish(w)
    BY <2>3 DEF StopAcceptor, Finish, TcpConnectionHandler_Destroy, netVars, Types, NetTypes
  <2> QED BY <2>1, <2>2, <2>3, Writers
<1> QED BY <1>a, <1>b, <1>c, <1>d, <1>e, <1>f, <1>g, <1>h DEF Types, CountTypes, BoolTypes

-----------------------------------------------------------------------------
(* Control: where the holder of m_lock is says which threads live.         *)

\* At most one caller is past lock(), the one that holds m_lock.
OneCaller ==
  \A w \in Callers : call[w].at \in {"idle", "lock"} \/ lock = w

\* A thread lives only between the start of its component and the join.
AcceptorAlive ==
  acceptor.at # "none" =>
    acceptorState = "RUNNING" \/ \E w \in Callers : call[w].at \in {"shutdown", "joinAcceptor"}

HandlerAlive ==
  handler.at # "none" =>
    handlerState = "RUNNING" \/ \E w \in Callers : call[w].at \in {"signal", "joinHandler"}

\* What the holder of m_lock has established at each place.
HolderKnows ==
  \A w \in Callers :
    /\ call[w].at = "startAcceptor" => acceptorState = "STOPPED"
    /\ call[w].at \in {"startAcceptor", "startHandler", "signal", "joinHandler", "finish"}
         => handlerState = "STOPPED"
    /\ call[w].at \in {"shutdown", "joinAcceptor", "stopHandler", "signal", "joinHandler", "finish"}
         => acceptorState = "STOPPED"

StoppedMeansStopped ==
  lock = Nobody /\ serverState = "STOPPED" => acceptorState = "STOPPED" /\ handlerState = "STOPPED"

CtrlInv == OneCaller /\ AcceptorAlive /\ HandlerAlive /\ HolderKnows /\ StoppedMeansStopped

\* Every step keeps the control invariant.
LEMMA CtrlStep ==
  ASSUME Types, CtrlInv, [Next]_vars
  PROVE  CtrlInv'
<1> USE TcpServerAssumption
<1>1. CASE UNCHANGED ctrlVars /\ ~ \E w \in Callers : CallStep(w)
  <2>1. UNCHANGED acceptor \/ acceptor.at # "none"
    <3>1. AcceptorNext => acceptor.at # "none"
      BY DEF AcceptorNext, AcceptorLoop, Accept, AcceptFails, ProcessConnection
    <3>2. ~ \E w \in Callers : StartAcceptor(w) \/ JoinAcceptor(w)
      BY <1>1 DEF CallStep, CallerNext
    <3> QED BY <3>1, <3>2, Writers
  <2>2. UNCHANGED handler \/ handler.at # "none"
    <3>1. HandlerNext => handler.at # "none"
      BY DEF HandlerNext, HandlerLoop, WaitForActivity, ProcessNewConnection, ProcessClientData,
             ProcessDisconnect, ServiceDone
    <3>2. ~ \E w \in Callers : StartHandler(w) \/ JoinHandler(w)
      BY <1>1 DEF CallStep, CallerNext
    <3> QED BY <3>1, <3>2, Writers
  <2> QED
    BY <1>1, <2>1, <2>2 DEF ctrlVars, CtrlInv, OneCaller, AcceptorAlive, HandlerAlive, HolderKnows,
                            StoppedMeansStopped
<1>2. ASSUME NEW w \in Callers, CallStep(w)
      PROVE  CtrlInv'
  <2> USE DEF CtrlInv, OneCaller, AcceptorAlive, HandlerAlive, HolderKnows, StoppedMeansStopped, Types,
              FlagTypes, CallTypes, AcceptorType
  <2>1. CASE \E op \in Ops : Call(w, op)
    BY <2>1 DEF Call, Idle
  <2>2. CASE SetCallbacks(w)
    BY <2>2 DEF SetCallbacks, Enters, Return, Idle
  <2>3. CASE Lock(w)
    BY <2>3 DEF Lock, Enters, Return, Goto, Idle
  <2>4. CASE StartAcceptor(w)
    BY <2>4 DEF StartAcceptor, Goto
  <2>5. CASE StartHandler(w)
    BY <2>5 DEF StartHandler, Goto, Return, Idle
  <2>6. CASE StopAcceptor(w)
    BY <2>6 DEF StopAcceptor, Goto
  <2>7. CASE JoinAcceptor(w)
    BY <2>7 DEF JoinAcceptor, Goto
  <2>8. CASE StopHandler(w)
    BY <2>8 DEF StopHandler, Goto
  <2>9. CASE JoinHandler(w)
    BY <2>9 DEF JoinHandler, Goto
  <2>10. CASE Finish(w)
    BY <2>10 DEF Finish, Return, Idle
  <2> HIDE DEF CtrlInv, Types
  <2> QED BY <1>2, <2>1, <2>2, <2>3, <2>4, <2>5, <2>6, <2>7, <2>8, <2>9, <2>10 DEF CallStep, CallerNext
<1> QED BY <1>1, <1>2, Writers

\* The places of the threads are kept as well.
LEMMA PlacesStep ==
  ASSUME Types, Places, [Next]_vars
  PROVE  Places'
<1> USE DEF Types, AcceptorType, HandlerType
<1>1. (acceptor.rec # Nobody <=> acceptor.at = "handoff")'
  <2>1. CASE AcceptorNext
    BY <2>1, TcpServerAssumption
    DEF Places, SetTypes, AcceptorNext, AcceptorLoop, Accept, AcceptFails, ProcessConnection, AcceptorGoto
  <2>2. CASE (\E w \in Callers : StartAcceptor(w) \/ JoinAcceptor(w)) \/ UNCHANGED acceptor
    BY <2>2 DEF Places, StartAcceptor, JoinAcceptor
  <2> QED BY <2>1, <2>2, Writers
<1>2. (handler.rec # Nobody <=> handler.at = "disconnect")' /\ (handler.at = "none" => handler.todo = {})'
  <2>1. CASE ProcessNewConnection
    <3>1. Head(pipe) \in Conns \cup {StopSignal}
      BY <2>1 DEF ProcessNewConnection, PipeType, Places
    <3> QED BY <2>1, <3>1, TcpServerAssumption, ZenonT(30), ZenonT(60) DEF ProcessNewConnection, RegisterAndNotify, Places
  <2>2. CASE ProcessClientData
    BY <2>2, TcpServerAssumption DEF ProcessClientData, Ready, SetTypes, Places
  <2>3. CASE HandlerLoop \/ WaitForActivity \/ ProcessDisconnect \/ ServiceDone
    BY <2>3, ZenonT(30), ZenonT(60) DEF HandlerLoop, WaitForActivity, ProcessDisconnect, ServiceDone, Places
  <2>4. CASE (\E w \in Callers : StartHandler(w) \/ JoinHandler(w)) \/ UNCHANGED handler
    BY <2>4 DEF Places, StartHandler, JoinHandler
  <2> QED BY <2>1, <2>2, <2>3, <2>4, Writers DEF HandlerNext
<1>3. (handler.at = "register" => pipe # <<>>)'
  <2>1. CASE ProcessNewConnection
    BY <2>1, ZenonT(30), ZenonT(60) DEF ProcessNewConnection, RegisterAndNotify
  <2>2. pipe # <<>> => pipe' # <<>> \/ ProcessNewConnection
    <3>1. CASE ProcessConnection
      BY <3>1 DEF ProcessConnection, TcpConnectionHandler_AddConnection, PipeType
    <3>2. CASE \E w \in Callers : StopHandler(w)
      BY <3>2 DEF StopHandler, PipeType
    <3> QED BY <3>1, <3>2, Writers
  <2>3. CASE HandlerNext
    <3>1. CASE WaitForActivity
      <4> DEFINE ready == {fdOf[c] : c \in {d \in Watched : Readable(d)}}
      <4> HIDE DEF ready
      <4>1. \/ handler' = [handler EXCEPT !.at = IF pipe # <<>> THEN "register" ELSE "serve", !.todo = ready]
            \/ \E at \in {"exited", "loop"} : handler' = [handler EXCEPT !.at = at]
        BY <3>1 DEF WaitForActivity, ready
      <4>2. handler'.at = "register" => pipe # <<>>
        BY <4>1, ZenonT(30), ZenonT(60)
      <4> QED BY <3>1, <4>2 DEF WaitForActivity
    <3>2. CASE ProcessClientData
      <4>1. handler'.at \in {"serve", "disconnect"}
        BY <3>2 DEF ProcessClientData
      <4> QED BY <4>1
    <3>3. CASE HandlerLoop \/ ProcessDisconnect \/ ServiceDone
      <4>1. handler'.at # "register"
        BY <3>3, ZenonT(30), ZenonT(60) DEF HandlerLoop, ProcessDisconnect, ServiceDone
      <4> QED BY <4>1
    <3> QED BY <2>1, <2>3, <3>1, <3>2, <3>3 DEF HandlerNext
  <2>4. CASE (\E w \in Callers : StartHandler(w) \/ JoinHandler(w)) \/ UNCHANGED handler
    BY <2>1, <2>2, <2>4 DEF Places, StartHandler, JoinHandler
  <2> QED BY <2>3, <2>4, Writers
<1> QED BY ONLY <1>1, <1>2, <1>3 DEF Places

-----------------------------------------------------------------------------
(* The pipe as a set of records.                                           *)

\* No record pointer is in the pipe twice.
Distinct == \A i, j \in 1 .. Len(pipe) : pipe[i] = pipe[j] /\ pipe[i] # StopSignal => i = j

\* A step that leaves the pipe alone, and one that leaves the list alone.
LEMMA SamePipe ==
  ASSUME UNCHANGED pipe
  PROVE  PipeRecords' = PipeRecords
BY DEF PipeRecords

LEMMA SameWatched ==
  ASSUME UNCHANGED <<db, unlisted>>
  PROVE  Watched' = Watched
BY DEF Watched

\* Writing a pointer that is not in the pipe, or the stop signal.
LEMMA PipeWrite ==
  ASSUME PipeType, Distinct, NEW c \in Conns \cup {StopSignal}, c \notin PipeRecords, pipe' = Append(pipe, c)
  PROVE  PipeRecords' = PipeRecords \cup ({c} \ {StopSignal}) /\ Distinct'
<1> USE DEF PipeType
<1>1. Len(pipe) \in Nat /\ Len(pipe') = Len(pipe) + 1
  OBVIOUS
<1>2. \A i \in 1 .. Len(pipe) : pipe'[i] = pipe[i]
  OBVIOUS
<1>3. pipe'[Len(pipe) + 1] = c
  OBVIOUS
<1>4. \A i \in 1 .. Len(pipe') : i \in 1 .. Len(pipe) \/ i = Len(pipe) + 1
  BY <1>1
<1>5. PipeRecords' \subseteq PipeRecords \cup ({c} \ {StopSignal})
  BY <1>2, <1>3, <1>4 DEF PipeRecords
<1>6. PipeRecords \cup ({c} \ {StopSignal}) \subseteq PipeRecords'
  BY <1>1, <1>2, <1>3 DEF PipeRecords
<1>7. Distinct'
  BY <1>1, <1>2, <1>3, <1>4 DEF Distinct, PipeRecords
<1> QED BY <1>5, <1>6, <1>7

\* Reading one takes it out.
LEMMA PipeRead ==
  ASSUME PipeType, Distinct, pipe # <<>>, pipe' = Tail(pipe)
  PROVE  /\ Head(pipe) \in PipeRecords \cup {StopSignal}
         /\ PipeRecords' = PipeRecords \ {Head(pipe)}
         /\ Distinct'
<1> USE DEF PipeType
<1>1. Len(pipe) \in Nat \ {0} /\ Len(pipe') = Len(pipe) - 1
  OBVIOUS
<1>2. \A i \in 1 .. Len(pipe') : i + 1 \in 1 .. Len(pipe) /\ pipe'[i] = pipe[i + 1]
  BY <1>1
<1>3. Head(pipe) = pipe[1] /\ 1 \in 1 .. Len(pipe)
  BY <1>1
<1>4. \A i \in 1 .. Len(pipe) : i = 1 \/ (i - 1 \in 1 .. Len(pipe') /\ pipe'[i - 1] = pipe[i])
  BY <1>1
<1>5. Head(pipe) \in PipeRecords \cup {StopSignal}
  BY <1>3 DEF PipeRecords
<1>6. PipeRecords' \subseteq PipeRecords
  BY <1>2 DEF PipeRecords
<1>7. Head(pipe) \notin PipeRecords'
  BY <1>1, <1>2, <1>3 DEF PipeRecords, Distinct
<1>8. PipeRecords \ {Head(pipe)} \subseteq PipeRecords'
  <2> SUFFICES ASSUME NEW c \in PipeRecords, c # Head(pipe)
               PROVE  c \in PipeRecords'
    OBVIOUS
  <2>1. PICK i \in 1 .. Len(pipe) : c = pipe[i]
    BY DEF PipeRecords
  <2>2. i - 1 \in 1 .. Len(pipe') /\ pipe'[i - 1] = c
    BY <1>3, <1>4, <2>1
  <2> QED BY <2>2 DEF PipeRecords
<1>9. Distinct'
  BY <1>1, <1>2 DEF Distinct
<1> QED BY <1>5, <1>6, <1>7, <1>8, <1>9

-----------------------------------------------------------------------------
(* Ownership.                                                              *)

FdsDistinct == \A c, d \in Conns : fdOf[c] = fdOf[d] /\ fdOf[c] # NoFd => c = d

\* A connection waits in the backlog before it has a descriptor.
BacklogUnserved ==
  \A c \in Conns :
    /\ c \in backlog => fdOf[c] = NoFd
    /\ c \in backlog \/ fdOf[c] # NoFd => peer[c] # "idle"

\* An fd that is still to be served belongs to a watched record with something to
\* read, so accept() cannot get it again meanwhile.
TodoReadable == \A f \in handler.todo : \E d \in Watched : fdOf[d] = f /\ Readable(d)

OwnInv == OneOwner /\ FdsDistinct /\ WatchedFds /\ BacklogUnserved /\ TodoReadable

\* No thread is left when its component is started again, nor at the end of a Stop.
LEMMA NoThread ==
  ASSUME Types, CtrlInv, NEW w \in Callers
  PROVE  /\ call[w].at = "startAcceptor" => acceptor.at = "none"
         /\ call[w].at \in {"startHandler", "finish"} => handler.at = "none"
BY DEF Types, CallTypes, CtrlInv, OneCaller, AcceptorAlive, HandlerAlive, HolderKnows

OwnersUnchanged ==
  acceptor'.rec = acceptor.rec /\ handler'.rec = handler.rec /\ UNCHANGED <<pipe, db, unlisted, fdOf>>

\* The steps at which a record changes hands.
LEMMA OwnCases ==
  ASSUME Types, CtrlInv, Places, [Next]_vars
  PROVE  \/ OwnersUnchanged
         \/ Accept \/ ProcessConnection \/ ProcessNewConnection \/ ProcessClientData \/ ProcessDisconnect
         \/ \E w \in Callers : StopHandler(w) \/ Finish(w)
<1> USE DEF OwnersUnchanged, dbVars, netVars
<1>0. AcceptorType /\ HandlerType
  BY DEF Types
<1>1. CASE UNCHANGED vars BY <1>1 DEF vars
<1>2. CASE \E c \in Conns : Connect(c) \/ PeerSend(c) \/ PeerClose(c)
  BY <1>2 DEF Connect, PeerSend, PeerClose
<1>3. CASE AcceptorLoop \/ AcceptFails
  BY <1>0, <1>3 DEF AcceptorLoop, AcceptFails, AcceptorGoto, AcceptorType
<1>4. CASE HandlerLoop \/ WaitForActivity \/ ServiceDone
  BY <1>0, <1>4, ZenonT(30), ZenonT(60) DEF HandlerLoop, WaitForActivity, ServiceDone, HandlerType
<1>5. ASSUME NEW w \in Callers, CallStep(w), ~StopHandler(w), ~Finish(w)
      PROVE  OwnersUnchanged
  <2>1. CASE StartAcceptor(w)
    <3>1. acceptor.rec = Nobody
      BY <2>1, NoThread DEF StartAcceptor, Places
    <3>2. acceptor' = [at |-> "loop", rec |-> Nobody] \/ UNCHANGED acceptor
      BY <2>1, ZenonT(30), ZenonT(60) DEF StartAcceptor
    <3>3. UNCHANGED <<handler, pipe, db, unlisted, fdOf>>
      BY <2>1 DEF StartAcceptor
    <3> QED BY ONLY <3>1, <3>2, <3>3 DEF OwnersUnchanged
  <2>2. CASE StartHandler(w)
    <3>1. handler.rec = Nobody
      BY <2>2, NoThread DEF StartHandler, Places
    <3>2. handler' = [at |-> "loop", todo |-> {}, rec |-> Nobody] \/ UNCHANGED handler
      BY <2>2 DEF StartHandler
    <3>3. UNCHANGED <<acceptor, pipe, db, unlisted, fdOf>>
      BY <2>2 DEF StartHandler
    <3> QED BY ONLY <3>1, <3>2, <3>3 DEF OwnersUnchanged
  <2>3. CASE JoinAcceptor(w)
    BY <1>0, <2>3 DEF JoinAcceptor, AcceptorType
  <2>5. CASE JoinHandler(w)
    BY <2>5 DEF JoinHandler, Places
  <2>4. CASE \/ \E op \in Ops : Call(w, op)
             \/ SetCallbacks(w) \/ Lock(w) \/ StopAcceptor(w)
    BY <2>4 DEF Call, SetCallbacks, Lock, StopAcceptor
  <2> QED BY <1>5, <2>1, <2>2, <2>3, <2>4, <2>5 DEF CallStep, CallerNext
<1> QED BY <1>1, <1>2, <1>3, <1>4, <1>5 DEF Next, AcceptorNext, HandlerNext, CallStep, CallerNext

\* The records of the pipe are connections.
LEMMA PipeConns == ASSUME PipeType PROVE PipeRecords \subseteq Conns
BY DEF PipeType, PipeRecords

\* The part of it that these steps can disturb; each of them keeps it.
Own == OneOwner /\ FdsDistinct /\ WatchedFds

\* What the ownership lemmas need to know of the types.
RecordTypes ==
  /\ acceptor.rec \in Conns \cup {Nobody} /\ handler.rec \in Conns \cup {Nobody}
  /\ backlog \subseteq Conns /\ db \subseteq Conns /\ unlisted \subseteq Conns
  /\ fdOf \in [Conns -> Fds \cup {NoFd}]
  /\ Nobody \notin Conns /\ NoFd \notin Fds /\ BigFds \subseteq Fds /\ StopSignal \notin Conns
  /\ PipeType /\ PipeRecords \subseteq Conns /\ StopSignal \notin PipeRecords /\ Watched \subseteq Conns

LEMMA TypesOfRecords ==
  ASSUME Types
  PROVE  RecordTypes
<1>1. acceptor.rec \in Conns \cup {Nobody} /\ handler.rec \in Conns \cup {Nobody}
  <2>1. AcceptorType /\ HandlerType BY DEF Types
  <2> QED BY ONLY <2>1 DEF AcceptorType, HandlerType
<1>2. SetTypes /\ NetTypes /\ PipeType
  BY DEF Types
<1>3. PipeRecords \subseteq Conns
  BY ONLY <1>2, PipeConns
<1>4. StopSignal \notin PipeRecords
  BY ONLY Zenon, ZenonT(30) DEF PipeRecords
<1>5. Watched \subseteq Conns
  BY ONLY <1>2 DEF SetTypes, Watched
<1>6. Nobody \notin Conns /\ NoFd \notin Fds /\ BigFds \subseteq Fds /\ StopSignal \notin Conns
  BY ONLY TcpServerAssumption
<1> QED BY <1>1, <1>2, <1>3, <1>4, <1>5, <1>6 DEF RecordTypes, SetTypes, NetTypes

\* accept() gives the record to the acceptor, with a descriptor nobody has.
LEMMA AcceptOwns ==
  ASSUME Types, Places, Own, BacklogUnserved, Accept
  PROVE  Own'
<1>0. RecordTypes BY TypesOfRecords
<1> USE <1>0 DEF RecordTypes
<1>1. CASE UNCHANGED fdOf /\ AcceptorGoto("loop")
  BY <1>1 DEF Accept, Places, AcceptorGoto, Own, OneOwner, FdsDistinct, WatchedFds, Watched, PipeRecords, dbVars
<1>2. ASSUME NEW c \in backlog, NEW fd \in FreeFds, fdOf' = [fdOf EXCEPT ![c] = fd],
             acceptor' = [at |-> "handoff", rec |-> c]
      PROVE  Own'
  <2> USE <1>2
  <2>1. acceptor.rec = Nobody /\ UNCHANGED <<handler, pipe, db, unlisted>> /\ c \in Conns /\ fdOf[c] = NoFd
    BY DEF Accept, Places, dbVars, BacklogUnserved
  <2>2. PipeRecords' = PipeRecords /\ Watched' = Watched
    BY <2>1, SamePipe, SameWatched
  <2>3. c \notin {acceptor.rec, handler.rec} \cup PipeRecords \cup Watched
    BY <2>1 DEF Own, OneOwner
  <2>4. PipeRecords \subseteq Conns /\ Watched \subseteq Conns
    OBVIOUS
  <2>5. OneOwner'
    <3>1. \A x \in Conns : fdOf'[x] # NoFd <=> x = c \/ fdOf[x] # NoFd
      BY <2>1 DEF FreeFds
    <3>2. (\A x \in Conns : fdOf[x] # NoFd <=> x \in {acceptor.rec, handler.rec} \cup PipeRecords \cup Watched)'
      BY <2>1, <2>2, <3>1 DEF Own, OneOwner
    <3> QED BY <2>1, <2>2, <2>3, <3>2 DEF Own, OneOwner
  <2>6. FdsDistinct'
    BY <2>1 DEF FdsDistinct, Own, FreeFds
  <2>7. WatchedFds'
    BY <2>1, <2>2, <2>3, <2>4 DEF WatchedFds, Own
  <2> QED BY <2>5, <2>6, <2>7 DEF Own
<1> QED BY <1>1, <1>2 DEF Accept

\* The acceptor writes its record to the pipe, or closes it.
LEMMA ProcessConnectionOwns ==
  ASSUME Types, Places, Own, ProcessConnection
  PROVE  Own'
<1>0. RecordTypes BY TypesOfRecords
<1> USE <1>0 DEF RecordTypes
<1> DEFINE c == acceptor.rec
<1>1. c \in Conns /\ acceptor'.rec = Nobody /\ UNCHANGED <<handler, db, unlisted>>
  BY DEF ProcessConnection, Places, dbVars
<1>2. PipeRecords \subseteq Conns /\ Watched \subseteq Conns /\ Watched' = Watched
  BY <1>1, SameWatched
<1>3. CASE TcpConnectionHandler_AddConnection(c) /\ UNCHANGED fdOf
  <2>1. PipeRecords' = PipeRecords \cup {c} /\ Distinct'
    <3>1. Distinct /\ c \notin PipeRecords
      BY DEF Own, OneOwner, Distinct
    <3>2. PipeType /\ c \in Conns \cup {StopSignal} /\ c # StopSignal /\ pipe' = Append(pipe, c)
      BY <1>1, <1>3 DEF TcpConnectionHandler_AddConnection
    <3>3. PipeRecords' = PipeRecords \cup ({c} \ {StopSignal}) /\ Distinct'
      BY <3>1, <3>2, PipeWrite
    <3> QED BY <3>2, <3>3
  <2>2. OneOwner /\ FdsDistinct /\ WatchedFds
    BY ONLY Own DEF Own
  <2>3. FdsDistinct' /\ WatchedFds'
    BY ONLY <1>2, <1>3, <2>2 DEF FdsDistinct, WatchedFds
  <2> HIDE DEF c
  <2>4. c = acceptor.rec
    BY DEF c
  <2>5. OneOwner'
    BY ONLY <1>0, <1>1, <1>2, <1>3, <2>1, <2>2, <2>4 DEF OneOwner, Distinct, RecordTypes
  <2> QED BY ONLY <2>3, <2>5 DEF Own
<1>4. CASE TcpConnectionRecord_Destroy(c) /\ UNCHANGED pipe
  <2>1. PipeRecords' = PipeRecords
    BY <1>4, SamePipe
  <2>2. \A x \in Conns : fdOf'[x] = IF x = c THEN NoFd ELSE fdOf[x]
    BY <1>1, <1>4 DEF TcpConnectionRecord_Destroy
  <2> QED
    BY <1>1, <1>2, <1>4, <2>1, <2>2 DEF Own, OneOwner, FdsDistinct, WatchedFds
<1> QED BY <1>3, <1>4 DEF ProcessConnection

\* The handler takes a record out of the pipe, to watch it or to close it.
LEMMA ProcessNewConnectionOwns ==
  ASSUME Types, Places, Own, ProcessNewConnection
  PROVE  Own'
<1>0. RecordTypes BY TypesOfRecords
<1> USE <1>0 DEF RecordTypes
<1> DEFINE c == Head(pipe)
<1>1. handler.rec = Nobody /\ UNCHANGED <<acceptor, fdOf>>
  BY DEF ProcessNewConnection, Places
<1>2. c \in PipeRecords \cup {StopSignal} /\ PipeRecords' = PipeRecords \ {c} /\ Distinct'
  BY PipeRead DEF ProcessNewConnection, Places, Own, OneOwner, Distinct
<1>3. PipeRecords \subseteq Conns /\ StopSignal \notin PipeRecords
  OBVIOUS
<1> HIDE DEF c
<1>4. CASE c = StopSignal /\ handler'.rec = Nobody /\ UNCHANGED <<db, unlisted>>
  BY <1>1, <1>2, <1>3, <1>4 DEF Own, OneOwner, FdsDistinct, WatchedFds, Watched, Distinct
<1>5. CASE c \in PipeRecords /\ handler'.rec = c /\ UNCHANGED <<db, unlisted>>
  BY <1>1, <1>2, <1>3, <1>5 DEF Own, OneOwner, FdsDistinct, WatchedFds, Watched, Distinct
<1>6. CASE /\ c \in PipeRecords /\ fdOf[c] \notin BigFds
           /\ handler'.rec = Nobody
           /\ Watched' = Watched \cup {c} /\ db' \cap unlisted' = {}
  <2>1. OneOwner'
    BY <1>1, <1>2, <1>3, <1>6 DEF Own, OneOwner, Distinct
  <2>2. fdOf[c] # NoFd
    BY <1>3, <1>6 DEF Own, OneOwner
  <2> QED
    BY <1>1, <1>3, <1>6, <2>1, <2>2 DEF Own, FdsDistinct, WatchedFds
<1>7. \/ c = StopSignal /\ handler'.rec = Nobody /\ UNCHANGED <<db, unlisted>>
      \/ c # StopSignal /\ handler'.rec = c /\ UNCHANGED <<db, unlisted>>
      \/ /\ c # StopSignal /\ fdOf[c] \notin BigFds /\ handler'.rec = Nobody
         /\ \/ db' = db \cup {c} /\ unlisted' = unlisted
            \/ unlisted' = unlisted \cup {c} /\ db' = db
  <2>1. CASE c = StopSignal
    BY <1>1, <2>1 DEF ProcessNewConnection, dbVars, c, Types, HandlerType
  <2>2. CASE c # StopSignal /\ fdOf[c] \in BigFds
    <3>1. handler' = [handler EXCEPT !.at = "disconnect", !.rec = c] /\ UNCHANGED <<db, unlisted>>
      BY <2>2 DEF ProcessNewConnection, dbVars, c
    <3>2. handler'.rec = c
      BY <3>1 DEF Types, HandlerType
    <3> QED BY <2>2, <3>1, <3>2
  <2>3. CASE c # StopSignal /\ fdOf[c] \notin BigFds
    <3>1. RegisterAndNotify(c)
      BY <2>3 DEF ProcessNewConnection, c
    <3> QED BY <1>1, <2>3, <3>1 DEF RegisterAndNotify
  <2> QED BY <2>1, <2>2, <2>3
<1>8. /\ c # StopSignal => c \in PipeRecords
      /\ c \in PipeRecords => c \notin Watched
      /\ db \cap unlisted = {}
  <2>1. c \in PipeRecords => c \notin Watched
    BY DEF Own, OneOwner
  <2>2. db \cap unlisted = {}
    BY DEF Own, OneOwner
  <2> QED BY <1>2, <2>1, <2>2
<1>9. CASE /\ c # StopSignal /\ fdOf[c] \notin BigFds /\ handler'.rec = Nobody
           /\ \/ db' = db \cup {c} /\ unlisted' = unlisted
              \/ unlisted' = unlisted \cup {c} /\ db' = db
  <2>1. Watched' = Watched \cup {c} /\ db' \cap unlisted' = {}
    BY <1>8, <1>9 DEF Watched
  <2> QED BY <1>6, <1>8, <1>9, <2>1
<1> QED BY <1>4, <1>5, <1>7, <1>8, <1>9

\* A record at its end of file goes from the list to the handler's hands.
LEMMA ProcessClientDataOwns ==
  ASSUME Types, Places, Own, ProcessClientData
  PROVE  Own'
<1>0. RecordTypes BY TypesOfRecords
<1> USE <1>0 DEF RecordTypes
<1>1. handler.rec = Nobody /\ UNCHANGED <<acceptor, pipe, fdOf, unlisted>>
  BY DEF ProcessClientData, Places
<1>2. PipeRecords' = PipeRecords /\ PipeRecords \subseteq Conns
  BY <1>1, SamePipe
<1>3. PICK c \in db : \/ UNCHANGED db /\ handler'.rec = handler.rec
                      \/ db' = db \ {c} /\ handler'.rec = c
  BY DEF ProcessClientData, Ready, Types, HandlerType
<1>4. CASE UNCHANGED db /\ handler'.rec = handler.rec
  BY <1>1, <1>2, <1>4 DEF Own, OneOwner, FdsDistinct, WatchedFds, Watched
<1>5. CASE db' = db \ {c} /\ handler'.rec = c
  BY <1>1, <1>2, <1>5 DEF Own, OneOwner, FdsDistinct, WatchedFds, Watched
<1> QED BY <1>3, <1>4, <1>5

\* The handler closes the record in its hands.
LEMMA ProcessDisconnectOwns ==
  ASSUME Types, Places, Own, ProcessDisconnect
  PROVE  Own'
<1>0. RecordTypes BY TypesOfRecords
<1> USE <1>0 DEF RecordTypes
<1>1. handler.rec \in Conns /\ handler'.rec = Nobody /\ UNCHANGED <<acceptor, pipe, db, unlisted>>
  BY DEF ProcessDisconnect, Places, dbVars
<1>2. PipeRecords' = PipeRecords /\ Watched' = Watched
  BY <1>1, SamePipe, SameWatched
<1>3. PipeRecords \subseteq Conns /\ Watched \subseteq Conns
  OBVIOUS
<1>4. \A x \in Conns : fdOf'[x] = IF x = handler.rec THEN NoFd ELSE fdOf[x]
  BY <1>1 DEF ProcessDisconnect, TcpConnectionRecord_Destroy
<1> QED
  BY <1>1, <1>2, <1>3, <1>4 DEF Own, OneOwner, FdsDistinct, WatchedFds

\* The stop signal is nobody's record.
LEMMA StopHandlerOwns ==
  ASSUME Types, Own, NEW w \in Callers, StopHandler(w)
  PROVE  Own'
<1>1. UNCHANGED <<acceptor, handler, db, unlisted, fdOf>>
  BY DEF StopHandler, dbVars
<1>2. Watched' = Watched
  BY <1>1, SameWatched
<1>3. PipeRecords' = PipeRecords /\ Distinct'
  <2>1. CASE UNCHANGED pipe
    <3>1. PipeRecords' = PipeRecords
      BY <2>1, SamePipe
    <3>2. Distinct'
      BY <2>1 DEF Own, OneOwner, Distinct
    <3> QED BY <3>1, <3>2
  <2>2. CASE pipe' = Append(pipe, StopSignal)
    <3>1. StopSignal \notin PipeRecords
      BY DEF PipeRecords
    <3>2. PipeType /\ Distinct
      BY DEF Types, Own, OneOwner, Distinct
    <3>3. PipeRecords' = PipeRecords \cup ({StopSignal} \ {StopSignal}) /\ Distinct'
      BY <2>2, <3>1, <3>2, PipeWrite
    <3> QED BY <3>3
  <2>3. UNCHANGED pipe \/ pipe' = Append(pipe, StopSignal)
    BY DEF StopHandler
  <2> QED BY <2>1, <2>2, <2>3
<1> QED BY <1>1, <1>2, <1>3 DEF Own, OneOwner, FdsDistinct, WatchedFds, Distinct

\* Destroy closes the records of the list.
LEMMA FinishOwns ==
  ASSUME Types, Own, NEW w \in Callers, Finish(w)
  PROVE  Own'
<1>0. RecordTypes BY TypesOfRecords
<1> USE <1>0 DEF RecordTypes
<1>1. UNCHANGED <<acceptor, handler, pipe, unlisted>>
  BY DEF Finish
<1>2. PipeRecords' = PipeRecords
  BY <1>1, SamePipe
<1>3. CASE UNCHANGED <<db, fdOf>>
  BY <1>1, <1>2, <1>3 DEF Own, OneOwner, FdsDistinct, WatchedFds, Watched
<1>4. CASE TcpConnectionHandler_Destroy
  <2>1. db' = {} /\ \A x \in Conns : fdOf'[x] = IF x \in db THEN NoFd ELSE fdOf[x]
    BY <1>4 DEF TcpConnectionHandler_Destroy
  <2>2. Watched' = unlisted /\ PipeRecords \subseteq Conns
    BY ONLY <1>0, <1>1, <2>1 DEF Watched, RecordTypes
  <2>3. \A c \in Conns : fdOf[c] # NoFd <=> c \in {acceptor.rec, handler.rec} \cup PipeRecords \cup Watched
    BY ONLY Own, ZenonT(30), ZenonT(60) DEF Own, OneOwner
  <2>4. /\ acceptor.rec \notin PipeRecords \cup Watched /\ handler.rec \notin PipeRecords \cup Watched
        /\ PipeRecords \cap Watched = {} /\ db \cap unlisted = {}
        /\ acceptor.rec # handler.rec \/ acceptor.rec = Nobody
        /\ \A i, j \in 1 .. Len(pipe) : pipe[i] = pipe[j] /\ pipe[i] # StopSignal => i = j
    BY ONLY Own, ZenonT(30), ZenonT(60) DEF Own, OneOwner
  <2>5. \A c \in Conns : fdOf'[c] # NoFd <=> c \in {acceptor.rec, handler.rec} \cup PipeRecords \cup Watched'
    BY ONLY <2>1, <2>2, <2>3, <2>4 DEF Watched
  <2>6. OneOwner'
    BY ONLY <1>1, <1>2, <2>1, <2>2, <2>4, <2>5 DEF OneOwner, Watched
  <2>7. FdsDistinct' /\ WatchedFds'
    BY ONLY Own, <1>0, <2>1, <2>2, <2>4 DEF Own, FdsDistinct, WatchedFds, Watched, RecordTypes
  <2> QED BY ONLY <2>6, <2>7 DEF Own
<1> QED BY <1>3, <1>4 DEF Finish

\* A connection gets its descriptor when it leaves the backlog.
LEMMA BacklogStep ==
  ASSUME Types, Places, BacklogUnserved, [Next]_vars
  PROVE  BacklogUnserved'
<1> USE TcpServerAssumption DEF Types, SetTypes, NetTypes, BacklogUnserved, dbVars, netVars
<1>1. CASE Accept
  BY <1>1 DEF Accept, FreeFds
<1>2. CASE ProcessConnection \/ ProcessDisconnect
  BY <1>2 DEF ProcessConnection, ProcessDisconnect, TcpConnectionRecord_Destroy
<1>3. CASE \E c \in Conns : Connect(c) \/ PeerClose(c)
  BY <1>3 DEF Connect, PeerClose
<1>4. CASE \E w \in Callers : StopAcceptor(w)
  <2>1. PICK w \in Callers : StopAcceptor(w)
    BY <1>4
  <2>2. /\ fdOf' = fdOf
        /\ \/ UNCHANGED <<backlog, peer>>
           \/ /\ backlog' = {}
              /\ peer' = [c \in Conns |-> IF c \in backlog THEN "closed" ELSE peer[c]]
    BY <2>1 DEF StopAcceptor
  <2> QED BY <2>2
<1>7. CASE \E w \in Callers : Finish(w)
  <2>1. PICK w \in Callers : Finish(w)
    BY <1>7
  <2>2. /\ UNCHANGED <<backlog, peer>>
        /\ fdOf' = fdOf \/ fdOf' = [c \in Conns |-> IF c \in db THEN NoFd ELSE fdOf[c]]
    BY <2>1 DEF Finish, TcpConnectionHandler_Destroy
  <2> QED BY <2>2
<1>5. CASE ProcessNewConnection \/ ProcessClientData
  BY <1>5 DEF ProcessNewConnection, ProcessClientData
<1>6. CASE UNCHANGED <<backlog, peer, fdOf>>
  BY <1>6
<1> QED BY <1>1, <1>2, <1>3, <1>4, <1>5, <1>6, <1>7, Writers

\* What select() reported stays true until the turn gets to it.
LEMMA TodoStep ==
  ASSUME Types, CtrlInv, Places, OwnInv, [Next]_vars
  PROVE  TodoReadable'
<1> USE TcpServerAssumption DEF Types, HandlerType, AcceptorType, SetTypes, NetTypes, BoolTypes, dbVars, netVars
<1>1. SUFFICES ASSUME NEW f \in handler'.todo
               PROVE  \E d \in Watched' : fdOf'[d] = f /\ Readable(d)'
  BY DEF TodoReadable
<1>2. CASE WaitForActivity /\ f \notin handler.todo
  <2> DEFINE ready == {fdOf[c] : c \in {d \in Watched : Readable(d)}}
  <2> HIDE DEF ready
  <2>1. \/ handler' = [handler EXCEPT !.at = IF pipe # <<>> THEN "register" ELSE "serve", !.todo = ready]
        \/ \E at \in {"exited", "loop"} : handler' = [handler EXCEPT !.at = at]
    BY <1>2 DEF WaitForActivity, ready
  <2>2. f \in ready
    BY <1>1, <1>2, <2>1, ZenonT(30), ZenonT(60)
  <2>3. PICK d \in Watched : f = fdOf[d] /\ Readable(d)
    BY <2>2 DEF ready
  <2>4. UNCHANGED <<db, unlisted, fdOf, inbox, peer>>
    BY <1>2 DEF WaitForActivity
  <2> QED BY <2>3, <2>4 DEF Watched, Readable
<1>3. f \in handler.todo \/ WaitForActivity
  <2>1. CASE ProcessNewConnection
    <3>1. handler'.todo = handler.todo
      BY <2>1, ZenonT(30), ZenonT(60) DEF ProcessNewConnection, RegisterAndNotify
    <3> QED BY <1>1, <3>1
  <2>2. CASE ProcessClientData
    BY <1>1, <2>2 DEF ProcessClientData
  <2>3. CASE HandlerLoop \/ ProcessDisconnect \/ ServiceDone
    BY <1>1, <2>3, ZenonT(30), ZenonT(60) DEF HandlerLoop, ProcessDisconnect, ServiceDone
  <2>4. CASE (\E w \in Callers : StartHandler(w) \/ JoinHandler(w)) \/ UNCHANGED handler
    <3>1. UNCHANGED handler \/ handler' = [at |-> "none", todo |-> {}, rec |-> Nobody]
            \/ handler' = [at |-> "loop", todo |-> {}, rec |-> Nobody]
      BY <2>4, ZenonT(30), ZenonT(60) DEF StartHandler, JoinHandler
    <3>2. handler'.todo = handler.todo \/ handler'.todo = {}
      BY ONLY <3>1
    <3> QED BY ONLY <1>1, <3>2
  <2> QED BY <2>1, <2>2, <2>3, <2>4, Writers DEF HandlerNext
<1>4. CASE f \in handler.todo
  <2>1. PICK d \in Watched : fdOf[d] = f /\ Readable(d)
    BY <1>4 DEF OwnInv, TodoReadable
  <2>2. d \in Conns /\ f # NoFd
    BY <2>1 DEF Watched, OwnInv, WatchedFds
  <2>3. d \in Watched' /\ fdOf'[d] = f /\ Readable(d)'
    <3>1. ~ \E w \in Callers : Finish(w)
      BY <1>4, NoThread DEF Finish, Places
    <3>2. CASE ProcessClientData
      <4>1. PICK c \in db : /\ handler'.todo = handler.todo \ {fdOf[c]}
                            /\ \/ db' = db /\ inbox' = [inbox EXCEPT ![c] = FALSE]
                               \/ db' = db \ {c} /\ inbox' = inbox
        BY <3>2 DEF ProcessClientData, ProcessMessage, Ready
      <4>2. c # d
        BY <1>1, <2>1, <4>1
      <4> QED BY <2>1, <2>2, <3>2, <4>1, <4>2 DEF ProcessClientData, Watched, Readable
    <3>3. CASE ~ProcessClientData
      <4>1. d \in Watched'
        <5>1. CASE ProcessNewConnection
          <6>1. db \subseteq db' /\ unlisted \subseteq unlisted'
            BY <5>1 DEF ProcessNewConnection, RegisterAndNotify
          <6> QED BY ONLY <2>1, <6>1 DEF Watched
        <5>2. CASE UNCHANGED <<db, unlisted>>
          BY ONLY <2>1, <5>2 DEF Watched
        <5>3. UNCHANGED <<db, unlisted>> \/ ProcessNewConnection
          BY <3>1, <3>3, Writers, ZenonT(30), ZenonT(60) DEF Accept, Connect, StopAcceptor
        <5> QED BY <5>1, <5>2, <5>3
      <4>2. fdOf'[d] = f
        <5>1. CASE Accept
          BY <2>1, <2>2, <5>1 DEF Accept, OwnInv, BacklogUnserved
        <5>2. CASE ProcessConnection \/ ProcessDisconnect
          BY <2>1, <2>2, <5>2
          DEF ProcessConnection, ProcessDisconnect, TcpConnectionRecord_Destroy, OwnInv, OneOwner
        <5> QED
          BY <2>1, <3>1, <5>1, <5>2, Writers, ZenonT(30), ZenonT(60) DEF Connect, PeerClose, StopAcceptor
      <4>3. Readable(d)'
        <5>1. inbox[d] => inbox'[d]
          <6>1. UNCHANGED inbox \/ \E c \in Conns : inbox' = [inbox EXCEPT ![c] = TRUE]
            BY <3>3, Writers DEF PeerSend
          <6>2. inbox \in [Conns -> BOOLEAN]
            BY DEF Types, BoolTypes
          <6> QED BY ONLY <2>2, <6>1, <6>2
        <5>2. peer[d] = "closed" => peer'[d] = "closed"
          <6>1. \/ UNCHANGED peer
                \/ \E c \in Conns : peer[c] = "idle" /\ peer' = [peer EXCEPT ![c] = "open"]
                \/ \E c \in Conns : peer' = [peer EXCEPT ![c] = "closed"]
                \/ peer' = [c \in Conns |-> IF c \in backlog THEN "closed" ELSE peer[c]]
            BY <3>1, Writers
            DEF Accept, ProcessConnection, ProcessDisconnect, Connect, PeerClose, StopAcceptor
          <6>2. peer \in [Conns -> {"idle", "open", "closed"}]
            BY DEF Types, NetTypes
          <6> QED BY ONLY <2>2, <6>1, <6>2
        <5> QED BY <2>1, <5>1, <5>2, ZenonT(30), ZenonT(60) DEF Readable
      <4> QED BY <4>1, <4>2, <4>3
    <3> QED BY <3>2, <3>3
  <2> QED BY <2>3
<1> QED BY <1>2, <1>3, <1>4

-----------------------------------------------------------------------------
(* The end of the controller.                                              *)

\* Nobody else is inside the controller while Destroy is.
DestroyAlone ==
  \A w \in Callers : call[w].op = "Destroy" => \A x \in Callers : x = w \/ call[x] = Idle

\* Once the controller is freed there is no call, no thread and no listed record.
Released ==
  destroyed => /\ \A w \in Callers : call[w] = Idle
               /\ acceptorState = "STOPPED" /\ handlerState = "STOPPED"
               /\ db = {}

\* A call begins, goes from one place to the next, or returns.
LEMMA CallForms ==
  ASSUME NEW w \in Callers, CallStep(w)
  PROVE  \/ \E op \in Ops : Call(w, op)
         \/ call[w].at # "idle" /\ \E at : Goto(w, at)
         \/ call[w].at # "idle" /\ Return(w)
<1> USE DEF Enters
<1>1. ASSUME SetCallbacks(w) PROVE call[w].at # "idle" /\ Return(w)
  BY <1>1 DEF SetCallbacks
<1>2. ASSUME Lock(w) PROVE call[w].at # "idle" /\ (Return(w) \/ \E at : Goto(w, at))
  <2>1. \E op : call[w] = [op |-> op, at |-> "lock"]
    BY <1>2, ZenonT(30), ZenonT(60) DEF Lock
  <2>2. call[w].at # "idle"
    BY ONLY <2>1
  <2>3. Return(w) \/ \E at : Goto(w, at)
    BY <1>2 DEF Lock
  <2> QED BY <2>2, <2>3
<1>3. ASSUME StartAcceptor(w) PROVE call[w].at # "idle" /\ \E at : Goto(w, at)
  BY <1>3 DEF StartAcceptor
<1>4. ASSUME StartHandler(w) PROVE call[w].at # "idle" /\ (Return(w) \/ \E at : Goto(w, at))
  BY <1>4 DEF StartHandler
<1>5. ASSUME StopAcceptor(w) PROVE call[w].at # "idle" /\ \E at : Goto(w, at)
  BY <1>5, ZenonT(30), ZenonT(60) DEF StopAcceptor
<1>6. ASSUME JoinAcceptor(w) PROVE call[w].at # "idle" /\ \E at : Goto(w, at)
  BY <1>6 DEF JoinAcceptor
<1>7. ASSUME StopHandler(w) PROVE call[w].at # "idle" /\ \E at : Goto(w, at)
  BY <1>7 DEF StopHandler
<1>8. ASSUME JoinHandler(w) PROVE call[w].at # "idle" /\ \E at : Goto(w, at)
  BY <1>8 DEF JoinHandler
<1>9. ASSUME Finish(w) PROVE call[w].at # "idle" /\ Return(w)
  BY <1>9 DEF Finish
<1> QED BY <1>1, <1>2, <1>3, <1>4, <1>5, <1>6, <1>7, <1>8, <1>9, ZenonT(30), ZenonT(60) DEF CallStep, CallerNext

\* Destroy begins only when nobody is inside, and nobody enters after that.
LEMMA DestroyAloneStep ==
  ASSUME Types, DestroyAlone, [Next]_vars
  PROVE  DestroyAlone'
<1>1. CallTypes
  BY DEF Types
<1>2. CASE UNCHANGED ctrlVars
  BY <1>2 DEF ctrlVars, DestroyAlone
<1>3. ASSUME NEW w \in Callers, CallStep(w)
      PROVE  DestroyAlone'
  <2>1. CASE \E op \in Ops : Call(w, op)
    BY ONLY <1>1, <2>1, DestroyAlone DEF Call, CallTypes, DestroyAlone, Idle
  <2>2. CASE call[w].at # "idle" /\ \E at : Goto(w, at)
    <3>1. call'[w].op = call[w].op /\ \A x \in Callers \ {w} : call'[x] = call[x]
      BY ONLY <1>1, <2>2, w \in Callers DEF Goto, CallTypes
    <3>2. call[w] # Idle
      BY ONLY <2>2 DEF Idle
    <3> QED BY ONLY <3>1, <3>2, DestroyAlone, w \in Callers DEF DestroyAlone
  <2>3. CASE Return(w)
    BY ONLY <1>1, <2>3, DestroyAlone DEF Return, CallTypes, DestroyAlone, Idle
  <2> QED BY <1>3, <2>1, <2>2, <2>3, CallForms
<1> QED BY <1>2, <1>3, Writers

\* After Destroy nothing moves but the peers.
LEMMA ReleasedStep ==
  ASSUME Types, CtrlInv, DestroyAlone, Released, [Next]_vars
  PROVE  Released'
<1>0. CallTypes /\ CtrlInv
  BY DEF Types
<1>1. CASE destroyed
  <2>1. /\ \A w \in Callers : call[w] = Idle
        /\ acceptorState = "STOPPED" /\ handlerState = "STOPPED" /\ db = {}
    BY <1>1 DEF Released
  <2>2. \A w \in Callers : call[w].at = "idle"
    BY ONLY <2>1 DEF Idle
  <2>3. acceptor.at = "none" /\ handler.at = "none"
    BY ONLY <1>0, <2>1, <2>2 DEF CtrlInv, AcceptorAlive, HandlerAlive
  <2>4. \A w \in Callers : ~CallStep(w)
    BY <1>1, <2>2, CallForms DEF Call
  <2>5. UNCHANGED ctrlVars
    BY <2>4, Writers
  <2>6. ~ProcessNewConnection /\ ~ProcessClientData
    BY ONLY <2>3 DEF ProcessNewConnection, ProcessClientData
  <2>7. \A w \in Callers : ~StopAcceptor(w) /\ ~Finish(w)
    BY <2>4 DEF CallStep, CallerNext
  <2>8. UNCHANGED db
    BY <2>6, <2>7, Writers, ZenonT(30), ZenonT(60) DEF Accept, Connect, dbVars
  <2> QED BY ONLY <2>1, <2>5, <2>8 DEF Released, ctrlVars
<1>2. CASE ~destroyed /\ destroyed'
  <2>1. PICK w \in Callers : CallStep(w)
    BY <1>2, Writers, ZenonT(30), ZenonT(60) DEF ctrlVars
  <2>2. Finish(w) /\ call[w].op = "Destroy"
    BY <1>2, <2>1
   , ZenonT(30), ZenonT(60) DEF CallStep, CallerNext, Call, SetCallbacks, Lock, StartAcceptor, StartHandler, StopAcceptor, JoinAcceptor,
        StopHandler, JoinHandler, Finish
  <2>3. call[w].at = "finish" /\ db' = {} /\ Return(w) /\ UNCHANGED <<acceptorState, handlerState>>
    BY <2>2 DEF Finish, TcpConnectionHandler_Destroy
  <2>4. acceptorState = "STOPPED" /\ handlerState = "STOPPED"
    BY ONLY <1>0, <2>3 DEF CtrlInv, HolderKnows
  <2>5. \A x \in Callers : x = w \/ call[x] = Idle
    BY <2>2 DEF DestroyAlone
  <2>6. \A x \in Callers : call'[x] = Idle
    BY ONLY <1>0, <2>3, <2>5 DEF Return, CallTypes
  <2> QED BY ONLY <2>3, <2>4, <2>6 DEF Released
<1> QED BY <1>1, <1>2 DEF Released

-----------------------------------------------------------------------------
(* The inductive invariant and what follows from it.                       *)

IInv == Types /\ CtrlInv /\ Places /\ OwnInv

\* The invariant holds of a controller just created.
LEMMA InitIInv == Init => IInv
<1> SUFFICES ASSUME Init PROVE IInv
  OBVIOUS
<1> USE DEF Init, TcpConnectionAcceptor_Create, TcpConnectionHandler_Create
<1>1. Types BY InitTypes
<1>2. CtrlInv
  BY DEF CtrlInv, OneCaller, AcceptorAlive, HandlerAlive, HolderKnows, StoppedMeansStopped, Idle
<1>3. Places BY DEF Places
<1>4. PipeRecords = {} /\ Watched = {} BY DEF PipeRecords, Watched
<1>0. /\ acceptor.rec = Nobody /\ handler.rec = Nobody /\ pipe = <<>> /\ db = {} /\ unlisted = {}
      /\ backlog = {} /\ \A c \in Conns : fdOf[c] = NoFd
  OBVIOUS
<1>5. OneOwner
  <2>1. 1 .. Len(pipe) = {}
    BY ONLY <1>0
  <2>2. Nobody \notin Conns
    BY ONLY TcpServerAssumption
  <2> QED BY ONLY <1>0, <1>4, <2>1, <2>2, ZenonT(30), ZenonT(60) DEF OneOwner
<1>6. FdsDistinct /\ WatchedFds /\ BacklogUnserved
  BY ONLY <1>0, <1>4, TcpServerAssumption DEF FdsDistinct, WatchedFds, BacklogUnserved
<1>7. TodoReadable
  BY DEF TodoReadable
<1> QED BY <1>1, <1>2, <1>3, <1>5, <1>6, <1>7 DEF IInv, OwnInv

\* Every step of every thread keeps it.
LEMMA StepIInv == IInv /\ [Next]_vars => IInv'
<1> SUFFICES ASSUME IInv, [Next]_vars PROVE IInv'
  OBVIOUS
<1>1. Types /\ CtrlInv /\ Places /\ OwnInv /\ Own
  BY DEF IInv, OwnInv, Own
<1>2. Types' BY <1>1, TypesStep DEF OwnInv
<1>3. CtrlInv' BY <1>1, CtrlStep
<1>4. Places' BY <1>1, PlacesStep
<1>5. Own'
  <2>1. CASE OwnersUnchanged
    <3>1. PipeRecords' = PipeRecords /\ Watched' = Watched
      BY <2>1 DEF OwnersUnchanged, PipeRecords, Watched
    <3> QED BY <1>1, <2>1, <3>1 DEF OwnersUnchanged, Own, OneOwner, FdsDistinct, WatchedFds
  <2> QED
    BY <1>1, <2>1, OwnCases, AcceptOwns, ProcessConnectionOwns, ProcessNewConnectionOwns,
       ProcessClientDataOwns, ProcessDisconnectOwns, StopHandlerOwns, FinishOwns DEF OwnInv
<1>6. BacklogUnserved' /\ TodoReadable'
  BY <1>1, BacklogStep, TodoStep DEF OwnInv
<1> QED BY <1>2, <1>3, <1>4, <1>5, <1>6 DEF IInv, OwnInv, Own

\* The variables keep their types.
THEOREM TypeCorrect == Spec => []TypeOK
<1>1. IInv => TypeOK
  <2> SUFFICES ASSUME IInv PROVE TypeOK
    OBVIOUS
  <2>1. FlagTypes /\ CountTypes /\ BoolTypes /\ CallTypes /\ AcceptorType /\ HandlerType
        /\ PipeType /\ SetTypes /\ NetTypes
    BY DEF IInv, Types
  <2> QED
    BY <2>1 DEF TypeOK, FlagTypes, CountTypes, BoolTypes, CallTypes, AcceptorType, HandlerType, PipeType,
                SetTypes, NetTypes
<1> QED BY <1>1, InitIInv, StepIInv, PTL DEF Spec

\* Every accepted connection has exactly one owner among the acceptor, the pipe,
\* the handler's list and its hands, whatever the threads do, so no record is
\* closed twice, used after it was closed, or lost.
THEOREM OwnershipCorrect == Spec => []OneOwner
<1>1. IInv => OneOwner
  BY DEF IInv, OwnInv
<1> QED BY <1>1, InitIInv, StepIInv, PTL DEF Spec

\* The handler thread never blocks in recv(), although descriptors are closed and
\* reused while it works through what select() reported.
THEOREM NeverBlocks == Spec => []NeverBlocksInRecv
<1>1. IInv => NeverBlocksInRecv
  <2> SUFFICES ASSUME IInv PROVE NeverBlocksInRecv
    OBVIOUS
  <2>1. ASSUME NEW c \in Ready PROVE Readable(c)
    <3>1. c \in Watched /\ c \in Conns /\ fdOf[c] \in handler.todo /\ Watched \subseteq Conns
      BY <2>1 DEF Ready, Watched, IInv, Types, SetTypes
    <3>2. PICK d \in Watched : fdOf[d] = fdOf[c] /\ Readable(d)
      BY <3>1 DEF IInv, OwnInv, TodoReadable
    <3>3. fdOf[c] # NoFd
      BY <3>1, TcpServerAssumption DEF IInv, OwnInv, WatchedFds
    <3>4. d = c
      BY <3>1, <3>2, <3>3, ZenonT(30), ZenonT(60) DEF IInv, OwnInv, FdsDistinct
    <3> QED BY <3>2, <3>4
  <2> QED BY <2>1 DEF NeverBlocksInRecv, IInv, OwnInv, WatchedFds
<1> QED BY <1>1, InitIInv, StepIInv, PTL DEF Spec

\* The callback pointers change only while neither worker is alive, so the
\* workers may read them without m_lock.
THEOREM CallbacksCorrect == Spec => CallbacksFrozen
<1>1. IInv /\ [Next]_vars => [callbacks' # callbacks => acceptor.at = "none" /\ handler.at = "none"]_vars
  <2> SUFFICES ASSUME IInv, [Next]_vars, callbacks' # callbacks
               PROVE  acceptor.at = "none" /\ handler.at = "none"
    OBVIOUS
  <2>1. PICK w \in Callers : SetCallbacks(w)
    BY Writers, ZenonT(30), ZenonT(60) DEF ctrlVars, CallStep, Call, CallerNext, Lock, StartAcceptor, StartHandler, StopAcceptor,
                   JoinAcceptor, StopHandler, JoinHandler, Finish
  <2>2. lock = Nobody /\ serverState = "STOPPED"
    <3>1. serverState \in {"RUNNING", "STOPPED"}
      BY DEF IInv, Types, FlagTypes
    <3>2. lock = Nobody /\ serverState # "RUNNING"
      BY <2>1 DEF SetCallbacks, Enters
    <3> QED BY <3>1, <3>2
  <2>3. \A x \in Callers : call[x].at \in {"idle", "lock"}
    BY <2>2, TcpServerAssumption DEF IInv, CtrlInv, OneCaller
  <2> QED
    BY <2>2, <2>3 DEF IInv, CtrlInv, AcceptorAlive, HandlerAlive, StoppedMeansStopped
<1> QED BY <1>1, InitIInv, StepIInv, PTL DEF Spec, CallbacksFrozen

\* close() of the listening socket comes after the join of the acceptor thread.
THEOREM CloseCorrect == Spec => CloseAfterJoin
<1>1. IInv /\ [Next]_vars => [listen' = "closed" => acceptor'.at = "none" \/ listen = "closed"]_vars
  <2> SUFFICES ASSUME IInv, [Next]_vars, listen' = "closed", listen # "closed"
               PROVE  acceptor'.at = "none"
    OBVIOUS
  <2>1. PICK w \in Callers : JoinAcceptor(w)
    BY Writers DEF WaitForActivity, StopAcceptor
  <2> QED BY <2>1 DEF JoinAcceptor, IInv, Types, AcceptorType
<1> QED BY <1>1, InitIInv, StepIInv, PTL DEF Spec, CloseAfterJoin

\* Once Destroy has returned, only a record that was in the pipe, or that the list had
\* no memory for, is still open: the two threads were joined with empty hands.
THEOREM DestroyCorrect == Spec => []DestroyReleasesServed
<1> DEFINE Inv == IInv /\ DestroyAlone /\ Released
<1>1. Init => Inv
  <2> SUFFICES ASSUME Init PROVE Inv
    OBVIOUS
  <2>1. DestroyAlone /\ Released
    BY DEF Init, DestroyAlone, Released, Idle
  <2> QED BY <2>1, InitIInv
<1>2. Inv /\ [Next]_vars => Inv'
  BY StepIInv, DestroyAloneStep, ReleasedStep DEF IInv
<1>3. Inv => DestroyReleasesServed
  <2> SUFFICES ASSUME Inv, destroyed, NEW c \in Conns, fdOf[c] # NoFd
               PROVE  c \in PipeRecords \cup unlisted
    BY DEF DestroyReleasesServed
  <2>1. db = {} /\ \A w \in Callers : call[w].at = "idle"
    BY DEF Released, Idle
  <2>2. acceptor.at = "none" /\ handler.at = "none"
    BY <2>1 DEF IInv, CtrlInv, AcceptorAlive, HandlerAlive, Released
  <2>3. acceptor.rec = Nobody /\ handler.rec = Nobody
    BY <2>2 DEF IInv, Places
  <2>4. c \in {acceptor.rec, handler.rec} \cup PipeRecords \cup Watched
    BY DEF IInv, OwnInv, OneOwner
  <2> QED BY ONLY <2>1, <2>3, <2>4, TcpServerAssumption DEF Watched
<1> QED BY <1>1, <1>2, <1>3, PTL DEF Spec

-----------------------------------------------------------------------------
(* Waiting: for m_lock, for room in the pipe, for the end of a thread.     *)

\* m_lock is held by a thread on its way through a call.
LockHeld == lock # Nobody => call[lock].at \notin {"idle", "lock"}

\* From its start to its join a component has its thread.
ThreadExists ==
  /\ acceptorState = "RUNNING" \/ (\E w \in Callers : call[w].at \in {"shutdown", "joinAcceptor"})
       => acceptor.at # "none"
  /\ handlerState = "RUNNING" \/ (\E w \in Callers : call[w].at \in {"signal", "joinHandler"})
       => handler.at # "none"

\* What would wake a thread that is being joined has happened.
Woken ==
  \A w \in Callers :
    /\ call[w].at = "joinAcceptor" => listen # "listening"
    /\ call[w].at = "joinHandler" => handler.at # "select" \/ pipe # <<>>

WaitInv == LockHeld /\ ThreadExists /\ Woken

\* A worker moves by itself only while it lives, and not to its end by a join.
LEMMA WorkersLive ==
  ASSUME Types, [Next]_vars
  PROVE  /\ AcceptorNext => acceptor'.at # "none"
         /\ HandlerNext => handler'.at # "none"
<1>1. AcceptorType /\ HandlerType
  BY DEF Types
<1>2. ASSUME AcceptorNext PROVE acceptor'.at # "none"
  BY <1>1, <1>2 DEF AcceptorNext, AcceptorLoop, Accept, AcceptFails, ProcessConnection, AcceptorGoto, AcceptorType
<1>3. ASSUME ProcessClientData PROVE handler'.at # "none"
  <2>1. handler'.at \in {"serve", "disconnect"}
    BY <1>1, <1>3 DEF ProcessClientData, HandlerType
  <2> QED BY <2>1
<1>4. ASSUME HandlerLoop \/ WaitForActivity \/ ProcessNewConnection \/ ProcessDisconnect \/ ServiceDone
      PROVE  handler'.at # "none"
  BY <1>1, <1>4, ZenonT(30), ZenonT(60) DEF HandlerLoop, WaitForActivity, ProcessNewConnection, RegisterAndNotify,
                               ProcessDisconnect, ServiceDone, HandlerType
<1> QED BY <1>2, <1>3, <1>4 DEF HandlerNext

\* A stopped handler does not go back to select(), and what is in the pipe stays
\* there until it reads it.
LEMMA NoMoreSelect ==
  ASSUME Types, Places, [Next]_vars, handlerState = "STOPPED", handler.at # "select" \/ pipe # <<>>,
         ~ \E w \in Callers : StartHandler(w)
  PROVE  handler'.at # "select" \/ pipe' # <<>>
<1>1. HandlerType /\ PipeType
  BY DEF Types
<1>2. CASE HandlerNext
  <2>1. ASSUME ProcessClientData PROVE handler'.at # "select"
    <3>1. handler'.at \in {"serve", "disconnect"}
      BY <1>1, <2>1 DEF ProcessClientData, HandlerType
    <3> QED BY <3>1
  <2>2. ASSUME HandlerLoop \/ ProcessNewConnection \/ ProcessDisconnect \/ ServiceDone
        PROVE  handler'.at # "select"
    BY <1>1, <2>2, ZenonT(30), ZenonT(60) DEF HandlerLoop, ProcessNewConnection, RegisterAndNotify,
                                 ProcessDisconnect, ServiceDone, HandlerType
  <2>3. ASSUME WaitForActivity PROVE handler'.at # "select"
    <3> DEFINE ready == {fdOf[c] : c \in {d \in Watched : Readable(d)}}
    <3> HIDE DEF ready
    <3>1. \/ handler' = [handler EXCEPT !.at = IF pipe # <<>> THEN "register" ELSE "serve", !.todo = ready]
          \/ \E at \in {"exited", "loop"} : handler' = [handler EXCEPT !.at = at]
      BY <2>3 DEF WaitForActivity, ready
    <3> QED BY <1>1, <3>1, ZenonT(30), ZenonT(60) DEF HandlerType
  <2> QED BY <1>2, <2>1, <2>2, <2>3 DEF HandlerNext
<1>3. CASE \E w \in Callers : JoinHandler(w)
  <2>1. handler' = [at |-> "none", todo |-> {}, rec |-> Nobody]
    BY ONLY <1>3, ZenonT(30), ZenonT(60) DEF JoinHandler
  <2> QED BY ONLY <2>1
<1>4. CASE UNCHANGED handler /\ ~HandlerNext
  <2>1. ~ProcessNewConnection
    BY <1>4 DEF HandlerNext
  <2>2. \/ UNCHANGED pipe \/ \E c \in Conns \cup {StopSignal} : pipe' = Append(pipe, c)
    <3>1. ProcessConnection => acceptor.rec \in Conns
      BY ZenonT(30), ZenonT(60) DEF ProcessConnection, Places, Types, AcceptorType
    <3> QED BY <2>1, <3>1, Writers, ZenonT(30), ZenonT(60) DEF ProcessConnection, TcpConnectionHandler_AddConnection, StopHandler
  <2>3. pipe # <<>> => pipe' # <<>>
    BY ONLY <1>1, <2>2 DEF PipeType
  <2> QED BY <1>4, <2>3
<1> QED BY <1>2, <1>3, <1>4, Writers

\* A step by which the call of w becomes v, and begins or returns.
BeginsOrReturns(w, v) ==
  /\ v.at \in {"idle", "lock"}
  /\ call' = [call EXCEPT ![w] = v]
  /\ lock' = Nobody \/ (lock' = lock /\ lock # w)
  /\ UNCHANGED <<acceptorState, handlerState, acceptor, handler, listen, pipe>>

\* A call that begins or returns.
LEMMA WaitMoves ==
  ASSUME WaitInv, CallTypes, FlagTypes, NEW w \in Callers, NEW v, BeginsOrReturns(w, v)
  PROVE  WaitInv'
<1> USE DEF BeginsOrReturns
<1>1. call'[w].at \in {"idle", "lock"} /\ \A x \in Callers \ {w} : call'[x] = call[x]
  BY DEF CallTypes
<1>2. \A x \in Callers : call'[x].at \in {"idle", "lock"} \/ call'[x] = call[x]
  BY <1>1
<1>3. LockHeld'
  BY <1>1 DEF WaitInv, LockHeld, FlagTypes
<1>4. "shutdown" \notin {"idle", "lock"} /\ "joinAcceptor" \notin {"idle", "lock"}
      /\ "signal" \notin {"idle", "lock"} /\ "joinHandler" \notin {"idle", "lock"}
  OBVIOUS
<1>5. \A x \in Callers : \A at \in {"shutdown", "joinAcceptor", "signal", "joinHandler"} :
        call'[x].at = at => call[x].at = at
  BY <1>2, <1>4
<1>6. ThreadExists'
  BY <1>5 DEF WaitInv, ThreadExists
<1>7. Woken'
  BY <1>5 DEF WaitInv, Woken
<1> QED BY <1>3, <1>6, <1>7 DEF WaitInv

\* Every step keeps it.
LEMMA WaitStep ==
  ASSUME IInv, WaitInv, [Next]_vars
  PROVE  WaitInv'
<1>0. Types /\ CtrlInv /\ Places
  BY DEF IInv
<1>1. CASE ~ \E w \in Callers : CallStep(w)
  <2>1. UNCHANGED ctrlVars
    BY <1>1, Writers
  <2>2. ~ \E w \in Callers : StartHandler(w) \/ JoinHandler(w) \/ StartAcceptor(w) \/ JoinAcceptor(w) \/ StopAcceptor(w)
    BY <1>1 DEF CallStep, CallerNext
  <2>3. UNCHANGED acceptor \/ acceptor'.at # "none"
    BY <1>0, <2>2, Writers, WorkersLive
  <2>4. UNCHANGED handler \/ handler'.at # "none"
    BY <1>0, <2>2, Writers, WorkersLive
  <2>5. UNCHANGED listen
    BY <2>2, Writers DEF WaitForActivity
  <2>6. LockHeld' /\ ThreadExists'
    BY <2>1, <2>3, <2>4 DEF WaitInv, LockHeld, ThreadExists, ctrlVars
  <2>7. Woken'
    <3> SUFFICES ASSUME NEW w \in Callers
                 PROVE  /\ call[w].at = "joinAcceptor" => listen' # "listening"
                        /\ call[w].at = "joinHandler" => handler'.at # "select" \/ pipe' # <<>>
      BY <2>1 DEF Woken, ctrlVars
    <3>1. call[w].at = "joinHandler" => handlerState = "STOPPED"
      BY <1>0 DEF CtrlInv, HolderKnows
    <3>2. call[w].at = "joinHandler" => handler'.at # "select" \/ pipe' # <<>>
      BY <1>0, <2>2, <3>1, NoMoreSelect DEF WaitInv, Woken
    <3> QED BY <2>5, <3>2 DEF WaitInv, Woken
  <2> QED BY <2>6, <2>7 DEF WaitInv
<1>2. ASSUME NEW w \in Callers, CallStep(w)
      PROVE  WaitInv'
  <2>0. FlagTypes /\ CallTypes /\ OneCaller /\ HolderKnows /\ AcceptorType /\ HandlerType /\ PipeType
    BY <1>0 DEF Types, CtrlInv
  <2> USE <2>0, TcpServerAssumption
      DEF WaitInv, LockHeld, ThreadExists, Woken, FlagTypes, CallTypes, OneCaller, HolderKnows
  <2>1. CASE \E op \in Ops : Call(w, op)
    <3> HIDE DEF WaitInv, LockHeld, ThreadExists, Woken, FlagTypes, CallTypes, OneCaller, HolderKnows
    <3>1. PICK op \in Ops : Call(w, op)
      BY <2>1
    <3> DEFINE v == [op |-> op, at |-> "lock"]
    <3>2. /\ call' = [call EXCEPT ![w] = v] /\ call[w] = Idle /\ lock' = lock
          /\ UNCHANGED <<acceptorState, handlerState, acceptor, handler, listen, pipe>>
      BY <3>1 DEF Call
    <3>3. v.at \in {"idle", "lock"} /\ Idle.at = "idle"
      BY DEF Idle
    <3>4. lock # w
      BY <3>2, <3>3, TcpServerAssumption DEF WaitInv, LockHeld
    <3> HIDE DEF v
    <3>5. BeginsOrReturns(w, v)
      BY ONLY <3>2, <3>3, <3>4 DEF BeginsOrReturns
    <3> QED BY ONLY WaitInv, <2>0, w \in Callers, <3>5, WaitMoves
  <2>2. CASE SetCallbacks(w) \/ Finish(w)
    <3> HIDE DEF WaitInv, LockHeld, ThreadExists, Woken, FlagTypes, CallTypes, OneCaller, HolderKnows
    <3>1. /\ call' = [call EXCEPT ![w] = Idle] /\ lock' = Nobody
          /\ UNCHANGED <<acceptorState, handlerState, acceptor, handler, listen, pipe>>
      BY <2>2 DEF SetCallbacks, Finish, Return
    <3>2. Idle.at \in {"idle", "lock"}
      BY DEF Idle
    <3>3. BeginsOrReturns(w, Idle)
      BY ONLY <3>1, <3>2 DEF BeginsOrReturns
    <3> QED BY ONLY WaitInv, <2>0, w \in Callers, <3>3, WaitMoves
  <2>3. CASE Lock(w)
    BY ONLY w \in Callers, WaitInv, <2>0, <2>3, TcpServerAssumption DEF Lock, Enters, Return, Goto, Idle
  <2>4. CASE StartAcceptor(w)
    BY ONLY w \in Callers, WaitInv, <2>0, <2>4, TcpServerAssumption DEF StartAcceptor, Goto
  <2>5. CASE StartHandler(w)
    BY ONLY w \in Callers, WaitInv, <2>0, <2>5, TcpServerAssumption DEF StartHandler, Goto, Return, Idle
  <2>6. CASE StopAcceptor(w)
    BY ONLY w \in Callers, WaitInv, <2>0, <2>6, TcpServerAssumption DEF StopAcceptor, Goto
  <2>7. CASE JoinAcceptor(w)
    BY ONLY w \in Callers, WaitInv, <2>0, <2>7, TcpServerAssumption DEF JoinAcceptor, Goto
  <2>8. CASE StopHandler(w)
    <3> HIDE DEF WaitInv, LockHeld, ThreadExists, Woken, FlagTypes, CallTypes, OneCaller, HolderKnows
    <3>1. /\ \A x \in Callers \ {w} : call'[x] = call[x]
          /\ call'[w].at \in {"signal", "finish", "joinHandler"}
          /\ UNCHANGED <<acceptorState, lock, listen, acceptor, handler>>
      BY ONLY w \in Callers, <2>0, <2>8 DEF StopHandler, Goto, CallTypes
    <3>2. /\ handlerState' = "RUNNING" => handlerState = "RUNNING"
          /\ call'[w].at = "signal" => handlerState = "RUNNING"
          /\ call'[w].at = "joinHandler" => call[w].at = "signal" /\ pipe' = Append(pipe, StopSignal)
          /\ UNCHANGED pipe \/ pipe' = Append(pipe, StopSignal)
      BY ONLY w \in Callers, <2>0, <2>8 DEF StopHandler, Goto, CallTypes
    <3>3. Append(pipe, StopSignal) # <<>>
      BY ONLY <2>0 DEF PipeType
    <3>4. LockHeld'
      BY ONLY WaitInv, <2>0, <3>1 DEF WaitInv, LockHeld, FlagTypes
    <3>5. ThreadExists'
      BY ONLY WaitInv, w \in Callers, <3>1, <3>2 DEF WaitInv, ThreadExists
    <3>6. Woken'
      BY ONLY WaitInv, w \in Callers, <3>1, <3>2, <3>3 DEF WaitInv, Woken
    <3> QED BY ONLY <3>4, <3>5, <3>6 DEF WaitInv
  <2>9. CASE JoinHandler(w)
    BY ONLY w \in Callers, WaitInv, <2>0, <2>9, TcpServerAssumption DEF JoinHandler, Goto
  <2> HIDE DEF WaitInv
  <2> QED BY <1>2, <2>1, <2>2, <2>3, <2>4, <2>5, <2>6, <2>7, <2>8, <2>9 DEF CallStep, CallerNext
<1> QED BY <1>1, <1>2

-----------------------------------------------------------------------------
(* The room in the pipe.                                                   *)

\* The stop signals nobody has read yet, by their places in the pipe.
Stops == {i \in 1 .. Len(pipe) : pipe[i] = StopSignal}

\* The calls of Start that have still to create the handler's thread.
Starting ==
  {w \in Callers : call[w].op = "Start" /\ call[w].at \in {"lock", "startAcceptor", "startHandler"}}

\* A handler that was started and not told to stop yet: one more signal will be written.
Armed == handlerState = "RUNNING" \/ \E w \in Callers : call[w].at = "signal"

\* Every signal, written or to come, belongs to a Start of its own.
SignalsCounted ==
  /\ \A w \in Callers : call[w].at \in {"startAcceptor", "startHandler"} => call[w].op = "Start"
  /\ IsFiniteSet(Starting)
  /\ Cardinality(Stops) + Cardinality(Starting) + (IF Armed THEN 1 ELSE 0) <= starts

\* A call that is not at a step of Start or at the signal afterwards.
LEMMA CallMoves ==
  ASSUME CallTypes, NEW w \in Callers, NEW v, call' = [call EXCEPT ![w] = v], handlerState' = handlerState,
         v.at \notin {"startAcceptor", "startHandler", "signal"},
         \A x \in Callers : call[x].at \in {"startAcceptor", "startHandler"} => call[x].op = "Start"
  PROVE  /\ (\A x \in Callers : call[x].at \in {"startAcceptor", "startHandler"} => call[x].op = "Start")'
         /\ Armed' => Armed
         /\ v.op = "Start" /\ v.at = "lock" => Starting' = Starting \cup {w}
         /\ v.op # "Start" \/ v.at # "lock" => Starting' = Starting \ {w}
<1>1. call'[w] = v /\ \A x \in Callers \ {w} : call'[x] = call[x]
  BY DEF CallTypes
<1>2. (\A x \in Callers : call[x].at \in {"startAcceptor", "startHandler"} => call[x].op = "Start")'
  BY <1>1
<1>3. Armed' => Armed
  BY <1>1 DEF Armed
<1>4. v.op = "Start" /\ v.at = "lock" => Starting' = Starting \cup {w}
  BY ONLY <1>1, w \in Callers DEF Starting
<1>5. v.op # "Start" \/ v.at # "lock" => Starting' = Starting \ {w}
  BY ONLY <1>1, w \in Callers, v.at \notin {"startAcceptor", "startHandler", "signal"} DEF Starting
<1> QED BY <1>2, <1>3, <1>4, <1>5

\* What a step of a call does to the calls of Start under way.
LEMMA StartingStep ==
  ASSUME Types, CtrlInv, SignalsCounted, NEW w \in Callers, CallStep(w)
  PROVE  /\ (\A x \in Callers : call[x].at \in {"startAcceptor", "startHandler"} => call[x].op = "Start")'
         /\ \/ Starting' = Starting \cup {w} /\ w \notin Starting /\ starts' = starts + 1 /\ (Armed' => Armed)
            \/ (Starting' = Starting \/ Starting' = Starting \ {w}) /\ starts' = starts /\ (Armed' => Armed)
            \/ Starting' = Starting \ {w} /\ w \in Starting /\ starts' = starts
         /\ pipe' = pipe \/ pipe' = Append(pipe, StopSignal)
         /\ pipe' # pipe => Armed /\ ~Armed' /\ Starting' = Starting /\ starts' = starts
<1>0. FlagTypes /\ CallTypes /\ OneCaller /\ HolderKnows
      /\ \A x \in Callers : call[x].at \in {"startAcceptor", "startHandler"} => call[x].op = "Start"
  BY DEF Types, CtrlInv, SignalsCounted
<1> USE <1>0 DEF FlagTypes, CallTypes, OneCaller, HolderKnows, Starting, Armed
<1>1. CASE \E op \in Ops : Call(w, op)
  <2> HIDE DEF Starting, Armed
  <2>1. PICK op \in Ops : Call(w, op)
    BY <1>1
  <2> DEFINE v == [op |-> op, at |-> "lock"]
  <2>2. v.op = op /\ v.at = "lock"
    OBVIOUS
  <2>3. /\ call' = [call EXCEPT ![w] = v] /\ UNCHANGED <<handlerState, pipe>>
        /\ starts' = IF op = "Start" THEN starts + 1 ELSE starts
        /\ call[w] = Idle
    BY <2>1 DEF Call
  <2>4. w \notin Starting
    <3>1. Idle.op # "Start"
      BY ONLY SMT, SMTT(30) DEF Idle
    <3> QED BY ONLY <2>3, <3>1, ZenonT(30), ZenonT(60) DEF Starting
  <2> HIDE DEF v
  <2>5. /\ (\A x \in Callers : call[x].at \in {"startAcceptor", "startHandler"} => call[x].op = "Start")'
        /\ Armed' => Armed
        /\ op = "Start" => Starting' = Starting \cup {w}
        /\ op # "Start" => Starting' = Starting \ {w}
    <3>1. v.at \notin {"startAcceptor", "startHandler", "signal"}
      BY ONLY <2>2
    <3>2. /\ (\A x \in Callers : call[x].at \in {"startAcceptor", "startHandler"} => call[x].op = "Start")'
          /\ Armed' => Armed
          /\ v.op = "Start" /\ v.at = "lock" => Starting' = Starting \cup {w}
          /\ v.op # "Start" \/ v.at # "lock" => Starting' = Starting \ {w}
      <4> HIDE DEF FlagTypes, CallTypes, OneCaller, HolderKnows
      <4> QED BY ONLY w \in Callers, <1>0, <2>3, <3>1, CallMoves, ZenonT(30), ZenonT(60)
    <3> QED BY ONLY <2>2, <3>2
  <2> QED BY <2>3, <2>4, <2>5
<1>2. CASE SetCallbacks(w) \/ Finish(w)
  <2> HIDE DEF Starting, Armed
  <2>1. call' = [call EXCEPT ![w] = Idle] /\ UNCHANGED <<handlerState, pipe, starts>>
    BY <1>2 DEF SetCallbacks, Finish, Return
  <2>2. Idle.at = "idle" /\ Idle.op = "none"
    BY DEF Idle
  <2>3. /\ (\A x \in Callers : call[x].at \in {"startAcceptor", "startHandler"} => call[x].op = "Start")'
        /\ Armed' => Armed
        /\ Starting' = Starting \ {w}
    <3>1. Idle.at \notin {"startAcceptor", "startHandler", "signal"} /\ Idle.op # "Start"
      BY ONLY <2>2
    <3> HIDE DEF FlagTypes, CallTypes, OneCaller, HolderKnows
    <3> QED BY ONLY w \in Callers, <1>0, <2>1, <3>1, CallMoves, ZenonT(30), ZenonT(60)
  <2> QED BY <2>1, <2>3
<1>3. CASE Lock(w)
  BY ONLY w \in Callers, <1>0, <1>3 DEF Lock, Enters, Return, Goto, Idle
<1>4. CASE StartAcceptor(w)
  BY ONLY w \in Callers, <1>0, <1>4 DEF StartAcceptor, Goto
<1>5. CASE StartHandler(w)
  BY ONLY w \in Callers, <1>0, <1>5 DEF StartHandler, Goto, Return, Idle
<1>6. CASE StopAcceptor(w)
  BY ONLY w \in Callers, <1>0, <1>6 DEF StopAcceptor, Goto
<1>7. CASE JoinAcceptor(w)
  BY ONLY w \in Callers, <1>0, <1>7 DEF JoinAcceptor, Goto
<1>8. CASE StopHandler(w)
  BY ONLY w \in Callers, <1>0, <1>8 DEF StopHandler, Goto
<1>9. CASE JoinHandler(w)
  BY ONLY w \in Callers, <1>0, <1>9 DEF JoinHandler, Goto
<1> HIDE DEF Starting, Armed
<1> QED BY <1>1, <1>2, <1>3, <1>4, <1>5, <1>6, <1>7, <1>8, <1>9, ZenonT(30), ZenonT(60) DEF CallStep, CallerNext

INSTANCE FiniteSetTheorems

\* The pipe is finite, and so are the places in it.
LEMMA StopsFinite ==
  ASSUME PipeType
  PROVE  IsFiniteSet(Stops) /\ Cardinality(Stops) \in Nat
<1>1. Len(pipe) \in Nat
  BY DEF PipeType
<1>2. IsFiniteSet(1 .. Len(pipe)) /\ Stops \in SUBSET (1 .. Len(pipe))
  BY <1>1, FS_Interval DEF Stops
<1> QED BY <1>2, FS_Subset, FS_CardinalityType, ZenonT(30), ZenonT(60)

\* One more signal in the pipe.
LEMMA StopsWritten ==
  ASSUME PipeType, pipe' = Append(pipe, StopSignal)
  PROVE  Cardinality(Stops') = Cardinality(Stops) + 1
<1>1. Len(pipe) \in Nat /\ Len(pipe') = Len(pipe) + 1 /\ pipe'[Len(pipe) + 1] = StopSignal
      /\ \A i \in 1 .. Len(pipe) : pipe'[i] = pipe[i]
  BY DEF PipeType
<1>2. Stops' = Stops \cup {Len(pipe) + 1} /\ Len(pipe) + 1 \notin Stops
  BY <1>1 DEF Stops
<1>3. /\ IsFiniteSet(Stops)
      /\ Cardinality(Stops \cup {Len(pipe) + 1}) =
           IF Len(pipe) + 1 \in Stops THEN Cardinality(Stops) ELSE Cardinality(Stops) + 1
  BY StopsFinite, FS_AddElement, ZenonT(30), ZenonT(60)
<1> QED BY <1>2, <1>3

\* A pointer is no signal.
LEMMA StopsKept ==
  ASSUME PipeType, NEW c \in Conns, pipe' = Append(pipe, c)
  PROVE  Stops' = Stops
<1>1. Len(pipe) \in Nat /\ Len(pipe') = Len(pipe) + 1 /\ pipe'[Len(pipe) + 1] = c
      /\ \A i \in 1 .. Len(pipe) : pipe'[i] = pipe[i]
  BY DEF PipeType
<1> QED BY <1>1, TcpServerAssumption DEF Stops

\* What is left after a read moves up one place.
LEMMA StopsRead ==
  ASSUME PipeType, pipe # <<>>, pipe' = Tail(pipe)
  PROVE  Cardinality(Stops') <= Cardinality(Stops)
<1>1. Len(pipe) \in Nat \ {0} /\ Len(pipe') = Len(pipe) - 1
      /\ \A i \in 1 .. Len(pipe') : i + 1 \in 1 .. Len(pipe) /\ pipe'[i] = pipe[i + 1]
  BY DEF PipeType
<1> DEFINE next == [i \in Stops' |-> i + 1]
<1>2. next \in [Stops' -> Stops]
  BY <1>1 DEF Stops
<1>3. \A i, j \in Stops' : next[i] = next[j] => i = j
  BY <1>1 DEF Stops
<1>4. next \in Injection(Stops', Stops)
  BY <1>2, <1>3 DEF Injection, IsInjective
<1> QED BY <1>4, StopsFinite, FS_Injection

\* A pipe with n signals in it holds at most one pointer per descriptor besides.
LEMMA PipeRoom ==
  ASSUME Types, OneOwner, FdsDistinct
  PROVE  Len(pipe) <= Cardinality(Fds) + Cardinality(Stops)
<1>1. PipeType /\ NetTypes
  BY DEF Types
<1>2. Len(pipe) \in Nat /\ \A i \in 1 .. Len(pipe) : pipe[i] \in Conns \cup {StopSignal}
  BY <1>1 DEF PipeType
<1> DEFINE records == (1 .. Len(pipe)) \ Stops
           fd == [i \in records |-> fdOf[pipe[i]]]
<1>3. \A i \in records : i \in 1 .. Len(pipe) /\ pipe[i] \in PipeRecords /\ pipe[i] \in Conns
  BY <1>2 DEF Stops, PipeRecords
<1>4. \A i \in records : fdOf[pipe[i]] \in Fds /\ fdOf[pipe[i]] # NoFd
  <2> SUFFICES ASSUME NEW i \in records PROVE fdOf[pipe[i]] \in Fds /\ fdOf[pipe[i]] # NoFd
    OBVIOUS
  <2>1. pipe[i] \in PipeRecords /\ pipe[i] \in Conns
    BY <1>3
  <2>2. fdOf[pipe[i]] # NoFd
    BY <2>1 DEF OneOwner
  <2> QED BY <1>1, <2>1, <2>2 DEF NetTypes
<1>5. \A i, j \in records : fdOf[pipe[i]] = fdOf[pipe[j]] => i = j
  <2> SUFFICES ASSUME NEW i \in records, NEW j \in records, fdOf[pipe[i]] = fdOf[pipe[j]]
               PROVE  i = j
    OBVIOUS
  <2>1. pipe[i] = pipe[j]
    BY <1>3, <1>4 DEF FdsDistinct
  <2>2. pipe[i] # StopSignal
    BY <1>3, TcpServerAssumption
  <2> QED BY <1>3, <2>1, <2>2 DEF OneOwner
<1>6. fd \in Injection(records, Fds)
  BY <1>4, <1>5 DEF Injection, IsInjective
<1>7. IsFiniteSet(records) /\ Cardinality(records) <= Cardinality(Fds) /\ Cardinality(Fds) \in Nat
      /\ Cardinality(records) \in Nat
  <2> HIDE DEF fd, records
  <2>1. IsFiniteSet(Fds)
    BY ONLY TcpServerAssumption
  <2>2. IsFiniteSet(records) /\ Cardinality(records) <= Cardinality(Fds)
    BY ONLY <1>6, <2>1, FS_Injection
  <2> QED BY ONLY <2>1, <2>2, FS_CardinalityType
<1>8. IsFiniteSet(Stops) /\ Cardinality(Stops) \in Nat
  BY <1>1, StopsFinite
<1>9. Cardinality(1 .. Len(pipe)) = Len(pipe)
  <2>1. 1 \in Int /\ Len(pipe) \in Int
    BY <1>2
  <2>2. Cardinality(1 .. Len(pipe)) = IF 1 > Len(pipe) THEN 0 ELSE Len(pipe) - 1 + 1
    BY <2>1, FS_Interval
  <2> QED BY <1>2, <2>2
<1>10. records \cup Stops = 1 .. Len(pipe) /\ records \cap Stops = {}
  BY DEF Stops
<1>11. Cardinality(records \cup Stops) = Cardinality(records) + Cardinality(Stops)
  <2>1. Cardinality(records \cap Stops) = 0
    BY <1>10, FS_EmptySet
  <2> HIDE DEF records
  <2>2. Cardinality(records \cup Stops) = Cardinality(records) + Cardinality(Stops) - Cardinality(records \cap Stops)
    BY <1>7, <1>8, FS_Union
  <2> QED BY <1>7, <1>8, <2>1, <2>2
<1> HIDE DEF records
<1>12. Len(pipe) = Cardinality(records) + Cardinality(Stops)
  BY <1>9, <1>10, <1>11, ZenonT(30), ZenonT(60)
<1> QED BY ONLY <1>7, <1>8, <1>12

\* Every step keeps the count.
LEMMA SignalsStep ==
  ASSUME IInv, SignalsCounted, [Next]_vars
  PROVE  SignalsCounted'
<1>0. Types /\ CtrlInv /\ Places /\ PipeType /\ PipeType' /\ starts \in Nat
  <2>1. starts \in 0 .. MaxStarts
    BY DEF IInv, Types, CountTypes
  <2>2. starts \in Nat
    BY <2>1
  <2> QED BY <2>2, StepIInv DEF IInv, Types
<1>1. /\ IsFiniteSet(Starting) /\ Cardinality(Starting) \in Nat
      /\ Cardinality(Stops) \in Nat /\ Cardinality(Stops') \in Nat
  <2>1. IsFiniteSet(Starting)
    BY DEF SignalsCounted
  <2>2. Cardinality(Stops) \in Nat
    BY <1>0, StopsFinite
  <2>3. Cardinality(Stops') \in Nat
    <3>1. Len(pipe') \in Nat
      BY <1>0 DEF PipeType
    <3>2. IsFiniteSet(1 .. Len(pipe')) /\ Stops' \in SUBSET (1 .. Len(pipe'))
      BY <3>1, FS_Interval DEF Stops
    <3> QED BY <3>2, FS_Subset, FS_CardinalityType, ZenonT(30), ZenonT(60)
  <2> QED BY <2>1, <2>2, <2>3, FS_CardinalityType
<1>2. CASE ~ \E w \in Callers : CallStep(w)
  <2>1. UNCHANGED ctrlVars
    BY <1>2, Writers
  <2>2. Starting' = Starting /\ Armed' = Armed /\ starts' = starts
    BY <2>1 DEF ctrlVars, Starting, Armed
  <2>3. Cardinality(Stops') <= Cardinality(Stops)
    <3>1. CASE UNCHANGED pipe
      <4>1. Stops' = Stops
        BY <3>1 DEF Stops
      <4> QED BY <1>1, <4>1
    <3>2. CASE ProcessConnection
      <4>1. acceptor.rec \in Conns
        BY <1>0, <3>2 DEF ProcessConnection, Places, Types, AcceptorType
      <4>2. UNCHANGED pipe \/ pipe' = Append(pipe, acceptor.rec)
        BY <3>2 DEF ProcessConnection, TcpConnectionHandler_AddConnection
      <4>3. Stops' = Stops
        BY <1>0, <3>1, <4>1, <4>2, StopsKept DEF Stops
      <4> QED BY <1>1, <4>3
    <3>3. CASE ProcessNewConnection
      BY <1>0, <3>3, StopsRead DEF ProcessNewConnection, Places
    <3>4. ~ \E w \in Callers : StopHandler(w)
      BY <1>2 DEF CallStep, CallerNext
    <3> QED BY <3>1, <3>2, <3>3, <3>4, Writers
  <2>4. Cardinality(Stops') + Cardinality(Starting') + (IF Armed' THEN 1 ELSE 0) <= starts'
    <3>1. Cardinality(Stops) + Cardinality(Starting) + (IF Armed THEN 1 ELSE 0) <= starts
      BY ONLY SignalsCounted, ZenonT(30), ZenonT(60) DEF SignalsCounted
    <3> QED BY ONLY <1>0, <1>1, <2>2, <2>3, <3>1
  <2> QED BY <1>1, <2>1, <2>2, <2>4 DEF SignalsCounted, ctrlVars
<1>3. ASSUME NEW w \in Callers, CallStep(w)
      PROVE  SignalsCounted'
  <2>0. Cardinality(Stops) + Cardinality(Starting) + (IF Armed THEN 1 ELSE 0) <= starts
    BY DEF SignalsCounted
  <2>1. /\ (\A x \in Callers : call[x].at \in {"startAcceptor", "startHandler"} => call[x].op = "Start")'
        /\ \/ Starting' = Starting \cup {w} /\ w \notin Starting /\ starts' = starts + 1 /\ (Armed' => Armed)
           \/ (Starting' = Starting \/ Starting' = Starting \ {w}) /\ starts' = starts /\ (Armed' => Armed)
           \/ Starting' = Starting \ {w} /\ w \in Starting /\ starts' = starts
        /\ pipe' = pipe \/ pipe' = Append(pipe, StopSignal)
        /\ pipe' # pipe => Armed /\ ~Armed' /\ Starting' = Starting /\ starts' = starts
    BY <1>0, <1>3, StartingStep
  <2>2. /\ IsFiniteSet(Starting \cup {w}) /\ IsFiniteSet(Starting \ {w})
        /\ w \notin Starting => Cardinality(Starting \cup {w}) = Cardinality(Starting) + 1
        /\ w \in Starting => Cardinality(Starting \ {w}) = Cardinality(Starting) - 1
        /\ Cardinality(Starting \ {w}) <= Cardinality(Starting)
    <3>1. /\ IsFiniteSet(Starting \cup {w})
          /\ Cardinality(Starting \cup {w}) =
               IF w \in Starting THEN Cardinality(Starting) ELSE Cardinality(Starting) + 1
      BY <1>1, FS_AddElement
    <3>2. /\ IsFiniteSet(Starting \ {w})
          /\ Cardinality(Starting \ {w}) =
               IF w \in Starting THEN Cardinality(Starting) - 1 ELSE Cardinality(Starting)
      BY <1>1, FS_RemoveElement
    <3> QED BY <1>1, <3>1, <3>2
  <2>3. IsFiniteSet(Starting')
    BY <1>1, <2>1, <2>2, ZenonT(30), ZenonT(60)
  <2>4. CASE pipe' = pipe
    <3>1. Stops' = Stops
      BY <2>4 DEF Stops
    <3>2. Cardinality(Stops') = Cardinality(Stops)
      BY <3>1
    <3>3. Cardinality(Stops') + Cardinality(Starting') + (IF Armed' THEN 1 ELSE 0) <= starts'
      <4>1. CASE Starting' = Starting \cup {w} /\ w \notin Starting /\ starts' = starts + 1 /\ (Armed' => Armed)
        <5>1. Cardinality(Starting') = Cardinality(Starting) + 1
          BY <2>2, <4>1
        <5> QED BY ONLY <1>0, <1>1, <2>0, <3>2, <4>1, <5>1
      <4>2. CASE (Starting' = Starting \/ Starting' = Starting \ {w}) /\ starts' = starts /\ (Armed' => Armed)
        <5>1. /\ Cardinality(Starting') = Cardinality(Starting)
                 \/ Cardinality(Starting') = Cardinality(Starting \ {w})
              /\ Cardinality(Starting \ {w}) \in Nat
          BY <2>2, <4>2, FS_CardinalityType, ZenonT(30), ZenonT(60)
        <5> QED BY ONLY <1>0, <1>1, <2>0, <2>2, <3>2, <4>2, <5>1
      <4>3. CASE Starting' = Starting \ {w} /\ w \in Starting /\ starts' = starts
        <5>1. Cardinality(Starting') = Cardinality(Starting) - 1
          BY <2>2, <4>3
        <5> QED BY ONLY <1>0, <1>1, <2>0, <3>2, <4>3, <5>1
      <4> QED BY <2>1, <4>1, <4>2, <4>3
    <3> QED BY <2>1, <2>3, <3>3 DEF SignalsCounted
  <2>5. CASE pipe' # pipe
    <3>1. Cardinality(Stops') = Cardinality(Stops) + 1
      BY <1>0, <2>1, <2>5, StopsWritten
    <3>2. Cardinality(Stops') + Cardinality(Starting') + (IF Armed' THEN 1 ELSE 0) <= starts'
      <4>1. Armed /\ ~Armed' /\ Starting' = Starting /\ starts' = starts
        BY <2>1, <2>5
      <4>2. Cardinality(Starting') = Cardinality(Starting)
        BY <4>1
      <4> QED BY ONLY <1>0, <1>1, <2>0, <3>1, <4>1, <4>2
    <3> QED BY <2>1, <2>3, <3>2 DEF SignalsCounted
  <2> QED BY <2>4, <2>5
<1> QED BY <1>2, <1>3

\* No thread waits in vain, for any number of callers, restarts, connections and
\* failures: the safety half of CallsReturn.
THEOREM WaitsCorrect == Spec => []NobodyWaitsInVain
<1> DEFINE Inv == IInv /\ WaitInv /\ SignalsCounted
<1>1. Init => Inv
  <2> SUFFICES ASSUME Init PROVE Inv
    OBVIOUS
  <2>1. WaitInv
    BY DEF Init, TcpConnectionAcceptor_Create, TcpConnectionHandler_Create, WaitInv, LockHeld,
                      ThreadExists, Woken, Idle
  <2>2. Starting = {} /\ Stops = {} /\ ~Armed
    <3>1. /\ pipe = <<>> /\ handlerState = "STOPPED"
          /\ \A w \in Callers : call[w].op = "none" /\ call[w].at = "idle"
      BY DEF Init, TcpConnectionHandler_Create, Idle
    <3> QED BY ONLY <3>1 DEF Starting, Stops, Armed
  <2>3. SignalsCounted
    BY <2>2, FS_EmptySet DEF SignalsCounted, Init, Idle
  <2> QED BY <2>1, <2>3, InitIInv
<1>2. Inv /\ [Next]_vars => Inv'
  BY StepIInv, WaitStep, SignalsStep
<1>3. Inv => NobodyWaitsInVain
  <2> SUFFICES ASSUME Inv PROVE NobodyWaitsInVain
    OBVIOUS
  <2>1. lock # Nobody => call[lock].at \notin {"idle", "lock"}
    BY DEF WaitInv, LockHeld
  <2>2. ASSUME NEW w \in Callers
        PROVE  call[w].at = "joinAcceptor" =>
                 acceptor.at # "none" /\ acceptorState = "STOPPED" /\ listen # "listening"
    BY DEF WaitInv, ThreadExists, Woken, IInv, CtrlInv, HolderKnows
  <2>3. ASSUME NEW w \in Callers
        PROVE  call[w].at = "joinHandler" =>
                 /\ handler.at # "none" /\ handlerState = "STOPPED"
                 /\ handler.at = "select" => pipe # <<>>
    BY DEF WaitInv, ThreadExists, Woken, IInv, CtrlInv, HolderKnows
  <2>4. ASSUME NEW w \in Callers, call[w].at = "signal" PROVE Len(pipe) < PipeCapacity
    <3>1. Types /\ OneOwner /\ FdsDistinct
      BY DEF IInv, OwnInv
    <3>2. Len(pipe) <= Cardinality(Fds) + Cardinality(Stops)
      BY <3>1, PipeRoom
    <3>3. PipeType /\ starts \in 0 .. MaxStarts
      BY <3>1 DEF Types, CountTypes
    <3>4. Cardinality(Stops) \in Nat /\ Cardinality(Starting) \in Nat /\ Cardinality(Fds) \in Nat
      BY <3>3, StopsFinite, FS_CardinalityType, TcpServerAssumption DEF SignalsCounted
    <3>5. Len(pipe) \in Nat
      BY ONLY <3>3 DEF PipeType
    <3>6. Armed
      BY <2>4 DEF Armed
    <3>7. Cardinality(Stops) + Cardinality(Starting) + 1 <= starts
      BY <3>6 DEF SignalsCounted
    <3> QED BY ONLY <3>2, <3>3, <3>4, <3>5, <3>7, TcpServerAssumption
  <2> QED BY <2>1, <2>2, <2>3, <2>4 DEF NobodyWaitsInVain
<1> QED BY <1>1, <1>2, <1>3, PTL DEF Spec

=============================================================================
