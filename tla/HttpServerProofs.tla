-------------------------- MODULE HttpServerProofs --------------------------
(***************************************************************************)
(* Theorems about HttpServer for any sets of descriptors and workers, any  *)
(* number of connections, any mode, with or without timers, and whether or *)
(* not tasks are prompt.                                                   *)
(***************************************************************************)
EXTENDS HttpServer, FiniteSetTheorems, TLAPS

MainLabels == {"tick", "wait", "dispatch", "accept", "init", "register",
               "del", "check", "set", "close"}
WorkerLabels == {"idle", "read", "write", "process", "again",
                 "del", "check", "set", "close"}
Closing == {"del", "check", "set", "close"}

(***************************************************************************)
(* Where the threads are: the main thread works on a descriptor exactly in *)
(* AddClient and CloseConn, it goes back to its timers only when it has    *)
(* handled all events, and it counts a connection it had room for.         *)
(***************************************************************************)
MainAt ==
  /\ pc[Main] \in MainLabels
  /\ mainFd # NoFd <=> pc[Main] \in Closing \cup {"init", "register"}
  /\ ticking => pc[Main] \in Closing
  /\ ticking \/ pc[Main] \in {"tick", "wait"} => events = {}
  /\ pc[Main] = "init" => userCount < MAX_FD

WorkersAt == \A w \in Workers : /\ pc[w] \in WorkerLabels
                                /\ pc[w] # "idle" <=> running[w] # NoTask

EventsAt == \A e \in events : e.fd = Listen => e.what = "in"

Typed == TypeOK /\ MainAt /\ WorkersAt /\ EventsAt

(***************************************************************************)
(* A registered descriptor has a timer.  It holds while the main thread    *)
(* pops nodes because a node is popped only after DelFd, and because       *)
(* nobody but the main thread adds a descriptor to epoll.                  *)
(***************************************************************************)
TimerForRegistered ==
  /\ Timeouts => \A fd \in Fds : reg[fd] # "none" => fd \in timer
  /\ ticking /\ pc[Main] # "del" => reg[mainFd] = "none"

IInv == Typed /\ TimerForRegistered /\ TimerForEvent

(* The operands of Next, for the proofs by cases.                          *)
LEMMA NextCases ==
  ASSUME [Next]_vars
  PROVE  \/ Arrive
         \/ \E fd \in Fds : PeerClose(fd) \/ TickClose(fd) \/ Accept(fd)
         \/ EpollWait \/ EpollTimeout \/ TickDone
         \/ \E e \in events : \/ DispatchClose(e) \/ DispatchTask(e)
                              \/ DispatchListen(e)
         \/ DispatchDone \/ AcceptFails \/ AcceptBusy \/ InitConn \/ Register
         \/ \E t \in Threads : \/ DelFd(t) \/ CheckClosed(t)
                               \/ SetClosed(t) \/ CloseFd(t)
         \/ \E w \in Workers : \/ TakeTask(w) \/ OnRead(w) \/ OnWrite(w)
                               \/ OnProcess(w) \/ WriteAgain(w)
         \/ UNCHANGED vars
  BY DEF Next, MainStep, WorkerStep, CloseConn, Quiescent, Threads

(* The main thread is a thread and no worker is it.                        *)
LEMMA MainIsNoWorker == Main \in Threads /\ \A w \in Workers : w \in Threads /\ w # Main
  BY NamesAssumption DEF Threads

(* A thread in CloseConn, or in a task, has a connection.                  *)
LEMMA FdOfType ==
  ASSUME Typed, NEW t \in Threads,
         IF t = Main THEN pc[t] \in Closing ELSE pc[t] # "idle"
  PROVE  FdOf(t) \in Fds
<1>1. CASE t = Main
  BY <1>1 DEF Typed, TypeOK, MainAt, FdOf
<1>2. CASE t # Main
  <2>1. t \in Workers /\ running[t] \in Tasks
    BY <1>2 DEF Typed, TypeOK, WorkersAt, Threads
  <2>. QED
    BY <1>2, <2>1 DEF FdOf, Tasks
<1>. QED
  BY <1>1, <1>2
-----------------------------------------------------------------------------
(* The types and the places of the threads are right at the start.         *)
LEMMA TypedInit == Init => Typed
<1> SUFFICES ASSUME Init PROVE Typed
  OBVIOUS
<1>1. queue \in Seq(Tasks) /\ running \in [Workers -> Tasks \cup {NoTask}]
  BY DEF Init, Pool!Init
<1>2. /\ opened \in 0 .. MaxConns /\ backlog \in 0 .. opened
      /\ userCount \in Int /\ userCount <= MAX_FD
  BY NumbersAssumption DEF Init
<1>3. pc \in [Threads -> {"tick", "idle"}]
  BY DEF Init
<1>4. TypeOK
  BY <1>1, <1>2, <1>3 DEF Init, TypeOK
<1>5. MainAt /\ WorkersAt /\ EventsAt
  BY MainIsNoWorker
  DEF Init, MainAt, WorkersAt, EventsAt, MainLabels, WorkerLabels, Closing, Pool!Init
<1>. QED
  BY <1>4, <1>5 DEF Typed

(* What CloseConn does when it returns to its caller.                      *)
LEMMA ReturnTyped ==
  ASSUME Typed, NEW t \in Threads, pc[t] \in Closing, Return(t)
  PROVE  /\ timer' \in SUBSET Fds /\ queue' = queue
         /\ running' \in [Workers -> Tasks \cup {NoTask}]
         /\ events' = events /\ cutShort' = cutShort
         /\ pc' = [pc EXCEPT ![t] = IF t # Main THEN "idle"
                                    ELSE IF ticking THEN "tick" ELSE "dispatch"]
         /\ mainFd' \in Fds \cup {NoFd} /\ ticking' \in BOOLEAN
  BY DEF Typed, TypeOK, Return, TimersLeft, Goto, mainVars, poolVars, Pool!Finish, Threads

(* Every step preserves the types.                                         *)
LEMMA TypeStep == Typed /\ [Next]_vars => TypeOK'
<1> SUFFICES ASSUME Typed, [Next]_vars PROVE TypeOK'
  OBVIOUS
<1> USE DEF Typed, TypeOK, Goto, kernelVars, connVars, mainVars, poolVars
<1>1. CASE Arrive
  BY <1>1, NumbersAssumption DEF Arrive, ListenET
<1>2. ASSUME NEW fd \in Fds, PeerClose(fd) PROVE TypeOK'
  BY <1>2 DEF PeerClose
<1>3. ASSUME NEW fd \in Fds, TickClose(fd) PROVE TypeOK'
  BY <1>3 DEF TickClose
<1>4. ASSUME NEW fd \in Fds, Accept(fd) PROVE TypeOK'
  <2>1. backlog' \in 0 .. opened
    BY <1>4, NumbersAssumption DEF Accept
  <2>. QED
    BY <1>4, <2>1 DEF Accept
<1>5. CASE EpollWait
  <2>1. PICK ready \in SUBSET Live :
          /\ events' = {[fd |-> fd, what |-> "hup"] : fd \in HungUp}
                       \cup {[fd |-> fd, what |-> reg[fd]] : fd \in ready}
                       \cup {[fd |-> fd, what |-> "in"] :
                               fd \in IF ListenReady THEN {Listen} ELSE {}}
          /\ reg' = Disarmed(HungUp \cup ready)
    BY <1>5 DEF EpollWait
  <2>2. events' \in SUBSET [fd : Fds \cup {Listen}, what : {"hup", "in", "out"}]
    BY <2>1 DEF Live, HungUp, Armed
  <2>3. reg' \in [Fds -> {"none", "off", "in", "out"}]
    BY <2>1 DEF Disarmed
  <2>4. pc' \in [Threads -> {"tick", "wait", "dispatch", "accept", "init",
                            "register", "idle", "read", "write", "process",
                            "again", "del", "check", "set", "close"}]
    BY <1>5 DEF EpollWait
  <2>. QED
    BY <1>5, <2>2, <2>3, <2>4 DEF EpollWait
<1>6. CASE EpollTimeout \/ TickDone \/ DispatchDone
  BY <1>6 DEF EpollTimeout, TickDone, DispatchDone
<1>7. ASSUME NEW e \in events, DispatchClose(e) PROVE TypeOK'
  <2>1. e.fd \in Fds
    BY <1>7 DEF DispatchClose, EventsAt
  <2>. QED
    BY <1>7, <2>1 DEF DispatchClose
<1>8. ASSUME NEW e \in events, DispatchTask(e) PROVE TypeOK'
  <2>1. [op |-> IF e.what = "in" THEN "read" ELSE "write", fd |-> e.fd] \in Tasks
    BY <1>8 DEF DispatchTask, Tasks
  <2>2. queue' \in Seq(Tasks) /\ running' = running
    BY <1>8, <2>1 DEF DispatchTask, Pool!Submit
  <2>. QED
    BY <1>8, <2>2 DEF DispatchTask
<1>9. ASSUME NEW e \in events, DispatchListen(e) PROVE TypeOK'
  BY <1>9 DEF DispatchListen
<1>10. CASE AcceptFails \/ AcceptBusy
  <2>1. backlog' \in 0 .. opened
    BY <1>10, NumbersAssumption DEF AcceptFails, AcceptBusy
  <2>2. cutShort' \in BOOLEAN
    <3>1. CASE AcceptFails
      <4>1. cutShort' = (backlog > 0)
        BY <3>1 DEF AcceptFails
      <4>2. (backlog > 0) \in BOOLEAN
        OBVIOUS
      <4>. QED
        BY ONLY <4>1, <4>2, Zenon
    <3>2. CASE AcceptBusy
      BY <3>2 DEF AcceptBusy
    <3>. QED
      BY <1>10, <3>1, <3>2
  <2>3. UNCHANGED <<opened, edge, sock, connVars, timer, events, mainFd,
                    ticking, poolVars, reg>>
    BY <1>10 DEF AcceptFails, AcceptBusy
  <2>4. pc' = [pc EXCEPT ![Main] = "dispatch"]
    BY <1>10 DEF AcceptFails, AcceptBusy
  <2>. QED
    BY <2>1, <2>2, <2>3, <2>4
<1>11. CASE InitConn
  <2>1. userCount' \in Int /\ userCount' <= MAX_FD
    BY <1>11, NumbersAssumption DEF InitConn, MainAt
  <2>2. isClose' \in [Fds -> BOOLEAN]
    BY <1>11 DEF InitConn
  <2>. QED
    BY ONLY <1>11, <2>1, <2>2, Typed
    DEF InitConn, Typed, TypeOK, Goto, kernelVars, mainVars, poolVars
<1>12. CASE Register
  BY <1>12 DEF Register, TimersWith, NextTurn, MainAt, Closing
<1>13. ASSUME NEW t \in Threads, DelFd(t) PROVE TypeOK'
  BY <1>13 DEF DelFd
<1>14. ASSUME NEW t \in Threads, CheckClosed(t) PROVE TypeOK'
  <2>1. CASE isClose[FdOf(t)]
    BY <1>14, <2>1, ReturnTyped DEF CheckClosed, AlreadyClosed, Closing
  <2>2. CASE ~ isClose[FdOf(t)]
    BY <1>14, <2>2 DEF CheckClosed, AlreadyClosed
  <2>. QED
    BY <2>1, <2>2
<1>15. ASSUME NEW t \in Threads, SetClosed(t) PROVE TypeOK'
  <2>1. userCount' \in Int /\ userCount' <= MAX_FD
    BY <1>15, NumbersAssumption DEF SetClosed
  <2>2. isClose' \in [Fds -> BOOLEAN]
    BY <1>15 DEF SetClosed
  <2>. QED
    BY <1>15, <2>1, <2>2 DEF SetClosed
<1>16. ASSUME NEW t \in Threads, CloseFd(t) PROVE TypeOK'
  BY <1>16, ReturnTyped DEF CloseFd, Closing
<1>17. ASSUME NEW w \in Workers, TakeTask(w) PROVE TypeOK'
  <2>1. Head(queue) \in Tasks /\ Tail(queue) \in Seq(Tasks)
    BY <1>17 DEF TakeTask, Pool!Take
  <2>2. Head(queue).op \in {"read", "write"}
    BY <2>1 DEF Tasks
  <2>. QED
    BY <1>17, <2>1, <2>2 DEF TakeTask, Pool!Take
<1>18. ASSUME NEW w \in Workers, OnRead(w) \/ OnWrite(w) PROVE TypeOK'
  BY <1>18 DEF OnRead, OnWrite
<1>19. ASSUME NEW w \in Workers, OnProcess(w) \/ WriteAgain(w) PROVE TypeOK'
  BY <1>19 DEF OnProcess, WriteAgain, ModFd, Rearmed, Pool!Finish
<1>20. CASE UNCHANGED vars
  BY <1>20 DEF vars
<1>. QED
  BY <1>1, <1>2, <1>3, <1>4, <1>5, <1>6, <1>7, <1>8, <1>9, <1>10, <1>11, <1>12,
     <1>13, <1>14, <1>15, <1>16, <1>17, <1>18, <1>19, <1>20, NextCases
-----------------------------------------------------------------------------
(* The steps of CloseConn, for any part of the state they do not touch.    *)
LEMMA ReturnAt ==
  ASSUME Typed, NEW t \in Threads, pc[t] \in Closing, Return(t),
         userCount' = userCount
  PROVE  MainAt' /\ WorkersAt' /\ EventsAt'
<1> USE DEF Typed, TypeOK, MainAt, WorkersAt, EventsAt, Closing, MainLabels, WorkerLabels
<1>1. CASE t = Main
  BY <1>1, MainIsNoWorker DEF Return, Goto, poolVars
<1>2. CASE t # Main
  <2>1. t \in Workers
    BY <1>2 DEF Threads
  <2>2. /\ running' = [running EXCEPT ![t] = NoTask]
        /\ pc' = [pc EXCEPT ![t] = "idle"]
        /\ UNCHANGED <<events, mainFd, ticking>>
    BY <1>2 DEF Return, Goto, Pool!Finish
  <2>. QED
    BY <2>1, <2>2, MainIsNoWorker
<1>. QED
  BY <1>1, <1>2

(* Every step preserves where the threads may be and what is collected.    *)
LEMMA AtStep == Typed /\ [Next]_vars => MainAt' /\ WorkersAt' /\ EventsAt'
<1> SUFFICES ASSUME Typed, [Next]_vars PROVE MainAt' /\ WorkersAt' /\ EventsAt'
  OBVIOUS
<1> DEFINE Goal == MainAt' /\ WorkersAt' /\ EventsAt'
<1> USE MainIsNoWorker
    DEF Typed, TypeOK, MainAt, WorkersAt, EventsAt, Closing, MainLabels,
        WorkerLabels, Goto, connVars, mainVars, poolVars
<1>1. CASE Arrive
  BY <1>1 DEF Arrive
<1>2. ASSUME NEW fd \in Fds, PeerClose(fd) PROVE Goal
  BY <1>2 DEF PeerClose
<1>3. ASSUME NEW fd \in Fds, TickClose(fd) PROVE Goal
  BY <1>3, NamesAssumption DEF TickClose
<1>4. ASSUME NEW fd \in Fds, Accept(fd) PROVE Goal
  BY <1>4, NamesAssumption, NumbersAssumption DEF Accept, Full
<1>5. CASE EpollWait
  <2>1. EventsAt'
    BY <1>5, NamesAssumption DEF EpollWait, Live, HungUp
  <2>. QED
    BY <1>5, <2>1 DEF EpollWait
<1>6. CASE EpollTimeout \/ TickDone \/ DispatchDone
  BY <1>6 DEF EpollTimeout, TickDone, DispatchDone
<1>7. ASSUME NEW e \in events, DispatchClose(e) PROVE Goal
  BY <1>7, NamesAssumption DEF DispatchClose
<1>8. ASSUME NEW e \in events, DispatchTask(e) PROVE Goal
  BY <1>8 DEF DispatchTask, Pool!Submit
<1>9. ASSUME NEW e \in events, DispatchListen(e) PROVE Goal
  BY <1>9 DEF DispatchListen
<1>10. CASE AcceptFails \/ AcceptBusy
  BY <1>10 DEF AcceptFails, AcceptBusy
<1>11. CASE InitConn
  BY <1>11 DEF InitConn
<1>12. CASE Register
  BY <1>12 DEF Register, NextTurn
<1>13. ASSUME NEW t \in Threads, DelFd(t) PROVE Goal
  BY <1>13 DEF DelFd
<1>14. ASSUME NEW t \in Threads, CheckClosed(t) PROVE Goal
  <2>1. CASE AlreadyClosed(t)
    BY <1>14, <2>1, ReturnAt DEF CheckClosed
  <2>2. CASE ~ AlreadyClosed(t)
    BY <1>14, <2>2 DEF CheckClosed
  <2>. QED
    BY <2>1, <2>2
<1>15. ASSUME NEW t \in Threads, SetClosed(t) PROVE Goal
  BY <1>15, NumbersAssumption DEF SetClosed
<1>16. ASSUME NEW t \in Threads, CloseFd(t) PROVE Goal
  BY <1>16, ReturnAt DEF CloseFd
<1>17. ASSUME NEW w \in Workers, TakeTask(w) PROVE Goal
  <2>1. Head(queue) \in Tasks
    BY <1>17 DEF TakeTask, Pool!Take
  <2>2. Head(queue) # NoTask /\ Head(queue).op \in {"read", "write"}
    BY <2>1, NamesAssumption DEF Tasks
  <2>. QED
    BY <1>17, <2>2 DEF TakeTask, Pool!Take
<1>18. ASSUME NEW w \in Workers, OnRead(w) \/ OnWrite(w) PROVE Goal
  BY <1>18 DEF OnRead, OnWrite
<1>19. ASSUME NEW w \in Workers, OnProcess(w) \/ WriteAgain(w) PROVE Goal
  BY <1>19 DEF OnProcess, WriteAgain, ModFd, Pool!Finish
<1>20. CASE UNCHANGED vars
  BY <1>20 DEF vars
<1>. QED
  BY <1>1, <1>2, <1>3, <1>4, <1>5, <1>6, <1>7, <1>8, <1>9, <1>10, <1>11, <1>12,
     <1>13, <1>14, <1>15, <1>16, <1>17, <1>18, <1>19, <1>20, NextCases
-----------------------------------------------------------------------------
(* A return of CloseConn pops the timer of a descriptor only in tick, when *)
(* no event is left and the descriptor is not registered.                  *)
LEMMA ReturnTimer ==
  ASSUME Typed, TimerForRegistered, TimerForEvent, NEW t \in Threads,
         pc[t] \in Closing \ {"del"}, Return(t),
         reg' = reg \/ reg' = [reg EXCEPT ![FdOf(t)] = "none"]
  PROVE  TimerForRegistered' /\ TimerForEvent'
<1>0. FdOf(t) \in Fds
  BY FdOfType DEF Typed, WorkersAt, Closing, Threads
<1> USE DEF Typed, TypeOK, TimerForRegistered, TimerForEvent
<1>1. CASE t = Main /\ ticking
  <2>1. events' = {} /\ timer' = timer \ {mainFd} /\ ticking' = FALSE
    BY <1>1 DEF Return, TimersLeft, MainAt
  <2>2. \A fd \in Fds : reg'[fd] # "none" => reg[fd] # "none" /\ fd # mainFd
    BY <1>0, <1>1 DEF FdOf
  <2>. QED
    BY <2>1, <2>2
<1>2. CASE t = Main /\ ~ ticking
  BY <1>0, <1>2 DEF Return, TimersLeft
<1>3. CASE t # Main
  <2>1. /\ timer' = timer /\ events' = events
        /\ ticking' = ticking /\ mainFd' = mainFd
        /\ pc'[Main] = pc[Main]
    BY <1>3, MainIsNoWorker DEF Return, TimersLeft, Goto
  <2>2. \A fd \in Fds : reg'[fd] # "none" => reg[fd] # "none"
    BY <1>0
  <2>3. ticking => mainFd \in Fds
    BY DEF MainAt
  <2>. QED
    BY <1>0, <2>1, <2>2, <2>3
<1>. QED
  BY <1>1, <1>2, <1>3

(* Every step preserves that descriptors and events have their timers.     *)
LEMMA TimerStep ==
  Typed /\ TimerForRegistered /\ TimerForEvent /\ [Next]_vars
    => TimerForRegistered' /\ TimerForEvent'
<1> SUFFICES ASSUME Typed, TimerForRegistered, TimerForEvent, [Next]_vars
             PROVE  TimerForRegistered' /\ TimerForEvent'
  OBVIOUS
<1> DEFINE Goal == TimerForRegistered' /\ TimerForEvent'
<1> USE MainIsNoWorker
    DEF Typed, TypeOK, TimerForRegistered, TimerForEvent, Goto, mainVars
<1>1. CASE Arrive \/ AcceptFails \/ AcceptBusy \/ InitConn
  BY <1>1 DEF Arrive, AcceptFails, AcceptBusy, InitConn, MainAt, Closing
<1>2. ASSUME NEW fd \in Fds, PeerClose(fd) \/ Accept(fd) PROVE Goal
  BY <1>2 DEF PeerClose, Accept, MainAt, Closing
<1>3. ASSUME NEW fd \in Fds, TickClose(fd) PROVE Goal
  BY <1>3 DEF TickClose
<1>4. CASE EpollWait
  <2>1. PICK ready \in SUBSET Live :
          /\ events' = {[fd |-> fd, what |-> "hup"] : fd \in HungUp}
                       \cup {[fd |-> fd, what |-> reg[fd]] : fd \in ready}
                       \cup {[fd |-> fd, what |-> "in"] :
                               fd \in IF ListenReady THEN {Listen} ELSE {}}
          /\ reg' = Disarmed(HungUp \cup ready)
    BY <1>4 DEF EpollWait
  <2>2. \A fd \in Fds : reg'[fd] # "none" => reg[fd] # "none"
    BY <2>1 DEF Disarmed, HungUp, Live, Armed
  <2>3. \A e \in events' : e.what # "hup" /\ e.fd # Listen
                             => e.fd \in Fds /\ reg[e.fd] # "none"
    BY <2>1 DEF HungUp, Live, Armed
  <2>. QED
    BY <1>4, <2>2, <2>3 DEF EpollWait, MainAt, Closing
<1>5. CASE EpollTimeout \/ TickDone \/ DispatchDone
  BY <1>5 DEF EpollTimeout, TickDone, DispatchDone, MainAt, Closing
<1>6. ASSUME NEW e \in events, DispatchClose(e) \/ DispatchListen(e) PROVE Goal
  BY <1>6 DEF DispatchClose, DispatchListen, MainAt, Closing
<1>7. ASSUME NEW e \in events, DispatchTask(e) PROVE Goal
  BY <1>7 DEF DispatchTask
<1>8. CASE Register
  BY <1>8 DEF Register, TimersWith, MainAt, Closing
<1>9. ASSUME NEW t \in Threads, DelFd(t) PROVE Goal
  <2>1. FdOf(t) \in Fds
    BY <1>9, FdOfType DEF DelFd, WorkersAt, Closing, Threads
  <2>2. t = Main => FdOf(t) = mainFd
    BY DEF FdOf
  <2>. QED
    BY <1>9, <2>1, <2>2 DEF DelFd, MainAt
<1>10. ASSUME NEW t \in Threads, CheckClosed(t) PROVE Goal
  <2>1. CASE AlreadyClosed(t)
    BY <1>10, <2>1, ReturnTimer DEF CheckClosed, Closing
  <2>2. CASE ~ AlreadyClosed(t)
    BY <1>10, <2>2 DEF CheckClosed
  <2>. QED
    BY <2>1, <2>2
<1>11. ASSUME NEW t \in Threads, SetClosed(t) PROVE Goal
  BY <1>11 DEF SetClosed
<1>12. ASSUME NEW t \in Threads, CloseFd(t) PROVE Goal
  BY <1>12, ReturnTimer DEF CloseFd, Closing
<1>13. ASSUME NEW w \in Workers, TakeTask(w) \/ OnRead(w) \/ OnWrite(w) PROVE Goal
  BY <1>13 DEF TakeTask, OnRead, OnWrite
<1>14. ASSUME NEW w \in Workers, OnProcess(w) \/ WriteAgain(w) PROVE Goal
  <2>1. FdOf(w) \in Fds
    BY <1>14, FdOfType DEF OnProcess, WriteAgain
  <2>2. \A fd \in Fds : reg'[fd] = "none" <=> reg[fd] = "none"
    BY <1>14, <2>1 DEF OnProcess, WriteAgain, ModFd, Rearmed
  <2>3. ticking => mainFd \in Fds
    BY DEF MainAt
  <2>. QED
    BY <1>14, <2>2, <2>3 DEF OnProcess, WriteAgain, ModFd
<1>15. CASE UNCHANGED vars
  BY <1>15 DEF vars
<1>. QED
  BY <1>1, <1>2, <1>3, <1>4, <1>5, <1>6, <1>7, <1>8, <1>9, <1>10, <1>11, <1>12,
     <1>13, <1>14, <1>15, NextCases

(* The invariant of the types and the timers holds always.                 *)
LEMMA Inductive == Spec => []IInv
<1>1. Init => IInv
  BY TypedInit DEF Init, IInv, TimerForRegistered, TimerForEvent
<1>2. IInv /\ [Next]_vars => IInv'
  BY TypeStep, AtStep, TimerStep DEF IInv, Typed
<1>. QED
  BY <1>1, <1>2, PTL DEF Spec
-----------------------------------------------------------------------------
(* Every reachable state of the server is well typed; in particular the    *)
(* connections counted never exceed MAX_FD.                                *)
THEOREM TypeCorrect == Spec => []TypeOK
  BY Inductive, PTL DEF IInv, Typed

(***************************************************************************)
(* The assertion of HeapTimer::adjust holds whenever DealRead or DealWrite *)
(* calls it, however slow the tasks are and whichever thread closes the    *)
(* connection meanwhile.                                                   *)
(***************************************************************************)
THEOREM TimersAreSet == Spec => []TimerForEvent
  BY Inductive, PTL DEF IInv
-----------------------------------------------------------------------------
(* Where a pending connection is going to be noticed.                      *)
Accepting == pc[Main] \in {"accept", "init", "register"}

ListenCollected == \E e \in events : e.fd = Listen

(* Steps that take no part in accepting leave all of it as it was.         *)
LEMMA StrandedKept ==
  ASSUME NoStrandedBacklog, UNCHANGED <<backlog, edge, cutShort>>,
         Accepting => Accepting', ListenCollected => ListenCollected'
  PROVE  NoStrandedBacklog'
BY DEF NoStrandedBacklog, ListenReady, Accepting, ListenCollected

LEMMA StrandedStep == Typed /\ NoStrandedBacklog /\ [Next]_vars => NoStrandedBacklog'
<1> SUFFICES ASSUME Typed, NoStrandedBacklog, [Next]_vars PROVE NoStrandedBacklog'
  OBVIOUS
<1>a. /\ pc \in [Threads -> {"tick", "wait", "dispatch", "accept", "init", "register",
                             "idle", "read", "write", "process", "again", "del", "check",
                             "set", "close"}]
      /\ backlog \in Nat
      /\ Main \in Threads /\ \A w \in Workers : w # Main
  BY MainIsNoWorker, NumbersAssumption DEF Typed, TypeOK
<1> USE DEF Goto, connVars, mainVars, poolVars, kernelVars
<1>1. CASE Arrive
  <2>1. ListenReady'
    BY <1>1, <1>a DEF Arrive, ListenReady
  <2> QED
    BY <2>1 DEF NoStrandedBacklog
<1>2. CASE EpollWait
  <2>1. backlog' = backlog /\ cutShort' = cutShort /\ ~Accepting /\ ~ListenCollected
    BY <1>2 DEF EpollWait, Accepting, ListenCollected, Typed, MainAt
  <2>2. ListenReady => ListenCollected'
    <3>1. ListenReady => [fd |-> Listen, what |-> "in"] \in events'
      BY <1>2 DEF EpollWait
    <3> QED
      BY <3>1 DEF ListenCollected
  <2> QED
    BY <2>1, <2>2 DEF NoStrandedBacklog, Accepting, ListenCollected
<1>3. ASSUME NEW e \in events, DispatchListen(e) PROVE NoStrandedBacklog'
  <2>1. Accepting'
    BY <1>3, <1>a DEF DispatchListen, Accepting, Threads
  <2> QED
    BY <2>1 DEF NoStrandedBacklog, Accepting
<1>4. ASSUME NEW e \in events, DispatchClose(e) \/ DispatchTask(e)
      PROVE  NoStrandedBacklog'
  <2>1. e.fd # Listen /\ events' = events \ {e}
    BY <1>4 DEF DispatchClose, DispatchTask, Typed, EventsAt
  <2>2. ListenCollected => ListenCollected'
    BY <2>1 DEF ListenCollected
  <2>3. UNCHANGED <<backlog, edge, cutShort>> /\ (Accepting => Accepting')
    BY <1>4 DEF DispatchClose, DispatchTask, Accepting
  <2> QED
    BY <2>2, <2>3, StrandedKept
<1>5. CASE AcceptFails \/ AcceptBusy
  BY <1>5 DEF AcceptFails, AcceptBusy, NoStrandedBacklog
<1>6. ASSUME NEW fd \in Fds, Accept(fd) PROVE NoStrandedBacklog'
  <2>1. Accepting'
    BY <1>6, <1>a DEF Accept, Accepting, Threads
  <2> QED
    BY <2>1 DEF NoStrandedBacklog, Accepting
<1>7. CASE InitConn
  <2>1. Accepting'
    BY <1>7, <1>a DEF InitConn, Accepting, Threads
  <2> QED
    BY <2>1 DEF NoStrandedBacklog, Accepting
<1>8. CASE Register
  <2>1. ListenET => Accepting'
    BY <1>8, <1>a DEF Register, NextTurn, Accepting, Threads
  <2>2. ~ListenET /\ backlog' > 0 => ListenReady'
    BY <1>8 DEF Register, ListenReady
  <2> QED
    BY <2>1, <2>2 DEF NoStrandedBacklog, Accepting
<1>9. ASSUME NEW t \in Threads, pc[t] \in Closing, Return(t)
      PROVE  events' = events /\ cutShort' = cutShort /\ (Accepting => Accepting')
  BY <1>9, <1>a DEF Return, Accepting, Closing, Threads
<1>10. ASSUME NEW t \in Threads,
              DelFd(t) \/ CheckClosed(t) \/ SetClosed(t) \/ CloseFd(t)
       PROVE  NoStrandedBacklog'
  <2>1. UNCHANGED <<backlog, edge>> /\ pc[t] \in Closing
    BY <1>10 DEF DelFd, CheckClosed, SetClosed, CloseFd, Closing
  <2>2. events' = events /\ cutShort' = cutShort /\ (Accepting => Accepting')
    <3>1. CASE DelFd(t) \/ SetClosed(t)
      BY <1>a, <3>1 DEF DelFd, SetClosed, Accepting
    <3>2. CASE CheckClosed(t)
      <4>1. CASE AlreadyClosed(t)
        <5>1. Return(t)
          BY <3>2, <4>1, Zenon DEF CheckClosed
        <5> QED
          BY <1>9, <2>1, <5>1, Zenon
      <4>2. CASE ~AlreadyClosed(t)
        <5>1. pc' = [pc EXCEPT ![t] = "set"] /\ events' = events /\ cutShort' = cutShort
          BY <3>2, <4>2, Zenon DEF CheckClosed
        <5> QED
          BY <1>a, <2>1, <5>1 DEF Accepting, Closing
      <4> QED
        BY <4>1, <4>2
    <3>3. CASE CloseFd(t)
      <4>1. Return(t)
        BY <3>3 DEF CloseFd
      <4> QED
        BY <1>9, <2>1, <4>1, Zenon
    <3> QED
      BY <1>10, <3>1, <3>2, <3>3
  <2> QED
    BY <2>1, <2>2, StrandedKept DEF ListenCollected
<1>11. CASE EpollTimeout \/ TickDone \/ DispatchDone
  BY <1>11, StrandedKept
  DEF EpollTimeout, TickDone, DispatchDone, Accepting, ListenCollected
<1>12. ASSUME NEW fd \in Fds, PeerClose(fd) \/ TickClose(fd) PROVE NoStrandedBacklog'
  BY <1>12, StrandedKept DEF PeerClose, TickClose, Accepting, ListenCollected
<1>13. ASSUME NEW w \in Workers,
              TakeTask(w) \/ OnRead(w) \/ OnWrite(w) \/ OnProcess(w) \/ WriteAgain(w)
       PROVE  NoStrandedBacklog'
  <2>1. UNCHANGED <<backlog, edge, cutShort, events>>
    BY <1>13 DEF TakeTask, OnRead, OnWrite, OnProcess, WriteAgain, ModFd
  <2>2. pc'[Main] = pc[Main]
    BY <1>13, <1>a DEF TakeTask, OnRead, OnWrite, OnProcess, WriteAgain, ModFd, Threads
  <2> QED
    BY <2>1, <2>2, StrandedKept DEF Accepting, ListenCollected
<1>14. CASE UNCHANGED vars
  BY <1>14, StrandedKept DEF vars, Accepting, ListenCollected
<1> QED
  BY <1>1, <1>2, <1>3, <1>4, <1>5, <1>6, <1>7, <1>8, <1>10, <1>11, <1>12, <1>13, <1>14,
     NextCases

(***************************************************************************)
(* Whether listenFd is edge or level triggered, DealListen leaves a        *)
(* pending connection to be reported again, or has run out of descriptors  *)
(* or of room for connections: none is forgotten between the accept loop   *)
(* and the next epoll_wait.                                                *)
(***************************************************************************)
THEOREM NoneStranded == Spec => []NoStrandedBacklog
<1>1. Init => NoStrandedBacklog
  BY DEF Init, NoStrandedBacklog
<1> QED
  BY <1>1, StrandedStep, Inductive, PTL DEF Spec, IInv
-----------------------------------------------------------------------------
(***************************************************************************)
(* Ownership, when tasks are over before the timer of their connection     *)
(* expires, or there are no timers.                                        *)
(***************************************************************************)
Serial == PromptTasks \/ ~ Timeouts

InWork(fd) == \E w \in Workers : running[w] # NoTask /\ running[w].fd = fd
InQueue(fd) == \E i \in 1 .. Len(queue) : queue[i].fd = fd
InEvents(fd) == \E e \in events : e.fd = fd

(* No worker, queued task or event has its connection in common with       *)
(* another one of its kind.                                                *)
OneEach ==
  /\ \A v, w \in Workers :
       running[v] # NoTask /\ running[w] # NoTask /\ running[v].fd = running[w].fd
         => v = w
  /\ \A i, j \in 1 .. Len(queue) : queue[i].fd = queue[j].fd => i = j
  /\ \A d, e \in events : d.fd = e.fd => d = e

(* Nor with one of another kind, and while it has one it is disarmed, but  *)
(* still registered, or ModFd would fail and leave it disarmed for ever.   *)
Apart ==
  /\ \A fd \in Fds :
       /\ InWork(fd) => ~ InQueue(fd) /\ ~ InEvents(fd) /\ mainFd # fd
       /\ InQueue(fd) => ~ InEvents(fd) /\ mainFd # fd /\ reg[fd] = "off"
       /\ InEvents(fd) => mainFd # fd /\ reg[fd] = "off"
  /\ \A w \in Workers : running[w] # NoTask =>
       reg[running[w].fd] \in IF pc[w] \in Closing THEN {"off", "none"} ELSE {"off"}

(* Between accept and Init, and between m_isClose = true and close.        *)
Midway(fd) == \/ mainFd = fd /\ pc[Main] \in {"init", "close"}
              \/ \E w \in Workers : /\ running[w] # NoTask /\ running[w].fd = fd
                                    /\ pc[w] = "close"

(* Exactly the open descriptors are somewhere, and m_isClose is accurate.  *)
OpenSomewhere ==
  /\ \A fd \in Fds :
       /\ sock[fd] = "free" => ~ InWork(fd) /\ ~ InQueue(fd) /\ ~ InEvents(fd)
                               /\ reg[fd] = "none"
       /\ sock[fd] # "free" => InWork(fd) \/ InQueue(fd) \/ InEvents(fd)
                               \/ mainFd = fd \/ Armed(fd)
       /\ isClose[fd] <=> sock[fd] = "free" \/ Midway(fd)
  /\ pc[Main] \in {"init", "register", "set", "close"} => sock[mainFd] # "free"

Owned == /\ OneEach /\ Apart /\ OpenSomewhere
         /\ Timeouts \/ timer = {}

(* Nobody owns anything at the start.                                      *)
LEMMA OwnedInit == Init => Owned
  BY MainIsNoWorker
  DEF Init, Pool!Init, Owned, OneEach, Apart, OpenSomewhere, InWork, InQueue,
      InEvents, Midway, Armed

(* What a step that moves no connection leaves as it is.                   *)
LEMMA SamePlaces ==
  ASSUME UNCHANGED <<queue, running, events>>
  PROVE  /\ OneEach => OneEach'
         /\ \A fd \in Fds : /\ InWork(fd)' <=> InWork(fd)
                            /\ InQueue(fd)' <=> InQueue(fd)
                            /\ InEvents(fd)' <=> InEvents(fd)
  BY DEF OneEach, InWork, InQueue, InEvents

(* A worker that is busy has the descriptor of its task.                   *)
LEMMA WorkerFd ==
  ASSUME Typed
  PROVE  \A w \in Workers : running[w] # NoTask => /\ running[w].fd \in Fds
                                                   /\ InWork(running[w].fd)
  BY DEF Typed, TypeOK, Tasks, InWork

(* A worker that finishes leaves its connection; a collected event becomes *)
(* a task, and a task is taken by a worker, without being in both places.  *)
LEMMA FinishPlaces ==
  ASSUME Typed, OneEach, NEW w \in Workers, running[w] # NoTask,
         Pool!Finish(w), events' = events
  PROVE  /\ OneEach'
         /\ \A fd \in Fds : /\ InWork(fd)' <=> InWork(fd) /\ fd # running[w].fd
                            /\ InQueue(fd)' <=> InQueue(fd)
                            /\ InEvents(fd)' <=> InEvents(fd)
<1>1. running' = [running EXCEPT ![w] = NoTask] /\ queue' = queue
  BY DEF Pool!Finish
<1>2. OneEach'
  BY <1>1 DEF OneEach, Typed, TypeOK
<1>3. \A fd \in Fds : InWork(fd)' <=> InWork(fd) /\ fd # running[w].fd
  BY <1>1 DEF OneEach, InWork, Typed, TypeOK
<1>. QED
  BY <1>1, <1>2, <1>3 DEF InQueue, InEvents

(* What a descriptor that is submitted to the pool is in afterwards.       *)
LEMMA SubmitPlaces ==
  ASSUME Typed, OneEach, Apart, NEW e \in events, DispatchTask(e)
  PROVE  /\ OneEach' /\ e.fd \in Fds
         /\ \A fd \in Fds : /\ InWork(fd)' <=> InWork(fd)
                            /\ InQueue(fd)' <=> InQueue(fd) \/ fd = e.fd
                            /\ InEvents(fd)' <=> InEvents(fd) /\ fd # e.fd
<1> DEFINE k == [op |-> IF e.what = "in" THEN "read" ELSE "write", fd |-> e.fd]
<1>1. /\ running' = running /\ events' = events \ {e}
      /\ queue' = Append(queue, k)
  BY DEF DispatchTask, Pool!Submit
<1>2. e.fd \in Fds
  BY DEF DispatchTask, Typed, TypeOK
<1>3. /\ Len(queue') = Len(queue) + 1 /\ Len(queue) \in Nat
      /\ \A i \in 1 .. Len(queue) : queue'[i] = queue[i]
      /\ queue'[Len(queue) + 1] = k /\ k.fd = e.fd
  BY <1>1 DEF Typed, TypeOK
<1>4. ~ InQueue(e.fd)
  BY <1>2 DEF Apart, InEvents
<1>5. \A i, j \in 1 .. Len(queue') : queue'[i].fd = queue'[j].fd => i = j
  <2>1. \A i \in 1 .. Len(queue') : i \in 1 .. Len(queue) \/ i = Len(queue) + 1
    BY <1>3
  <2>2. \A i \in 1 .. Len(queue) : queue'[i].fd # e.fd
    BY <1>3, <1>4 DEF InQueue
  <2>3. queue'[Len(queue) + 1].fd = e.fd
    BY <1>3
  <2>4. \A i, j \in 1 .. Len(queue) : queue'[i].fd = queue'[j].fd => i = j
    BY <1>3 DEF OneEach
  <2>. QED
    BY <2>1, <2>2, <2>3, <2>4
<1>6. OneEach'
  BY <1>1, <1>5 DEF OneEach
<1>7. \A fd \in Fds : InQueue(fd)' <=> InQueue(fd) \/ fd = e.fd
  BY <1>3 DEF InQueue
<1>8. \A fd \in Fds : InEvents(fd)' <=> InEvents(fd) /\ fd # e.fd
  BY <1>1 DEF InEvents, OneEach
<1>9. \A fd \in Fds : InWork(fd)' <=> InWork(fd)
  BY <1>1 DEF InWork
<1>. QED
  BY <1>2, <1>6, <1>7, <1>8, <1>9

(* What is left of the queue when a worker takes a task.                   *)
LEMMA TakePlaces ==
  ASSUME Typed, OneEach, Apart, NEW w \in Workers, Pool!Take(w), events' = events
  PROVE  /\ OneEach' /\ Head(queue) \in Tasks /\ InQueue(Head(queue).fd)
         /\ running' = [running EXCEPT ![w] = Head(queue)]
         /\ \A fd \in Fds : /\ InWork(fd)' <=> InWork(fd) \/ fd = Head(queue).fd
                            /\ InQueue(fd)' <=> InQueue(fd) /\ fd # Head(queue).fd
                            /\ InEvents(fd)' <=> InEvents(fd)
<1>1. /\ queue # <<>> /\ queue' = Tail(queue) /\ running[w] = NoTask
      /\ running' = [running EXCEPT ![w] = Head(queue)]
      /\ queue \in Seq(Tasks) /\ running \in [Workers -> Tasks \cup {NoTask}]
  BY DEF Pool!Take, Typed, TypeOK
<1>2. /\ Head(queue) \in Tasks /\ Head(queue) = queue[1]
      /\ Len(queue) \in Nat \ {0} /\ Len(queue') = Len(queue) - 1
      /\ \A i \in 1 .. Len(queue') : queue'[i] = queue[i + 1]
  BY <1>1
<1>3. Head(queue).fd \in Fds /\ Head(queue) # NoTask
  BY <1>2, NamesAssumption DEF Tasks
<1>4. InQueue(Head(queue).fd)
  BY <1>2 DEF InQueue
<1>5. ~ InWork(Head(queue).fd)
  BY <1>3, <1>4 DEF Apart
<1>6. \A i, j \in 1 .. Len(queue') : queue'[i].fd = queue'[j].fd => i = j
  <2>1. \A i \in 1 .. Len(queue') : i \in Int /\ i + 1 \in 1 .. Len(queue)
    BY <1>2
  <2>. QED
    BY <1>2, <2>1 DEF OneEach
<1>7. OneEach'
  <2>1. \A u, v \in Workers :
          running'[u] # NoTask /\ running'[v] # NoTask
            /\ running'[u].fd = running'[v].fd => u = v
    BY <1>1, <1>5 DEF OneEach, InWork
  <2>. QED
    BY <1>6, <2>1 DEF OneEach
<1>8. \A fd \in Fds : InWork(fd)' <=> InWork(fd) \/ fd = Head(queue).fd
  BY <1>1, <1>3 DEF InWork
<1>9. \A fd \in Fds : InQueue(fd)' <=> InQueue(fd) /\ fd # Head(queue).fd
  <2>1. \A i \in 2 .. Len(queue) : i - 1 \in 1 .. Len(queue') /\ queue'[i - 1] = queue[i]
    BY <1>2
  <2>2. \A i \in 1 .. Len(queue') : i + 1 \in 2 .. Len(queue)
    BY <1>2
  <2>3. \A i \in 2 .. Len(queue) : queue[i].fd # queue[1].fd
    BY <1>2 DEF OneEach
  <2>4. \A i \in 1 .. Len(queue) : i = 1 \/ i \in 2 .. Len(queue)
    BY <1>2
  <2>. QED
    BY <1>2, <2>1, <2>2, <2>3, <2>4 DEF InQueue
<1>. QED
  BY <1>1, <1>2, <1>4, <1>7, <1>8, <1>9 DEF InEvents

(* Every step preserves that connections have one owner.                   *)
LEMMA OwnedStep == Serial /\ Typed /\ Owned /\ [Next]_vars => Owned'
<1> SUFFICES ASSUME Serial, Typed, Owned, [Next]_vars PROVE Owned'
  OBVIOUS
<1>a. /\ OneEach /\ Apart /\ OpenSomewhere /\ (Timeouts \/ timer = {})
      /\ TypeOK /\ MainAt /\ WorkersAt /\ EventsAt
  BY DEF Owned, Typed
<1>b. \A w \in Workers : running[w] # NoTask => /\ running[w].fd \in Fds
                                                /\ InWork(running[w].fd)
  BY WorkerFd
<1> USE MainIsNoWorker
    DEF Goto, Closing, kernelVars, connVars, mainVars, poolVars
<1>1. CASE Arrive \/ AcceptFails \/ AcceptBusy \/ EpollTimeout \/ TickDone \/ DispatchDone
  <2>1. UNCHANGED <<queue, running, events, sock, reg, isClose, mainFd, timer>>
    BY <1>1 DEF Arrive, AcceptFails, AcceptBusy, EpollTimeout, TickDone, DispatchDone
  <2>2. /\ \A w \in Workers : pc'[w] = pc[w]
        /\ pc'[Main] = pc[Main] \/ {pc[Main], pc'[Main]} \cap
             {"init", "register", "del", "check", "set", "close"} = {}
    BY <1>1, <1>a DEF Arrive, AcceptFails, AcceptBusy, EpollTimeout, TickDone,
                      DispatchDone, TypeOK
  <2>3. \A fd \in Fds : Midway(fd)' <=> Midway(fd)
    BY <2>1, <2>2 DEF Midway
  <2>. QED
    BY <1>a, <2>1, <2>2, <2>3, SamePlaces DEF Owned, Apart, OpenSomewhere, Armed
<1>2. ASSUME NEW fd \in Fds, PeerClose(fd) PROVE Owned'
  <2>1. UNCHANGED <<queue, running, events, reg, isClose, mainFd, timer, pc>>
    BY <1>2 DEF PeerClose
  <2>2. \A f \in Fds : sock'[f] = "free" <=> sock[f] = "free"
    BY <1>2, <1>a DEF PeerClose, TypeOK
  <2>3. \A f \in Fds : Midway(f)' <=> Midway(f)
    BY <2>1 DEF Midway
  <2>4. pc[Main] \in {"init", "register", "set", "close"} => mainFd \in Fds
    BY <1>a DEF MainAt, TypeOK
  <2>. QED
    BY <1>a, <2>1, <2>2, <2>3, <2>4, SamePlaces
    DEF Owned, Apart, OpenSomewhere, Armed
<1>3. ASSUME NEW fd \in Fds, TickClose(fd) PROVE Owned'
  <2>1. UNCHANGED <<queue, running, events, reg, isClose, sock, timer>>
    BY <1>3 DEF TickClose
  <2>2. /\ mainFd = NoFd /\ mainFd' = fd /\ pc'[Main] = "del" /\ events = {}
        /\ \A w \in Workers : pc'[w] = pc[w]
    BY <1>3, <1>a DEF TickClose, MainAt, TypeOK
  <2>3. ~ InWork(fd) /\ ~ InQueue(fd) /\ ~ InEvents(fd)
    BY <1>3, <1>a, <2>2 DEF TickClose, Busy, Serial, InWork, InQueue, InEvents, TypeOK
  <2>4. \A f \in Fds : f # NoFd /\ (Midway(f)' <=> Midway(f))
    BY <2>1, <2>2, NamesAssumption DEF Midway
  <2>. QED
    BY <1>a, <2>1, <2>2, <2>3, <2>4, SamePlaces
    DEF Owned, Apart, OpenSomewhere, Armed
<1>4. ASSUME NEW fd \in Fds, Accept(fd) PROVE Owned'
  <2>1. UNCHANGED <<queue, running, events, reg, isClose, timer>>
    BY <1>4 DEF Accept
  <2>2. /\ mainFd = NoFd /\ mainFd' = fd /\ pc'[Main] = "init"
        /\ \A w \in Workers : pc'[w] = pc[w]
        /\ sock[fd] = "free" /\ sock' = [sock EXCEPT ![fd] = "up"]
        /\ sock \in [Fds -> {"free", "up", "down"}]
    BY <1>4, <1>a DEF Accept, Free, MainAt, TypeOK
  <2>3. Midway(fd)' /\ \A f \in Fds : f # NoFd /\ (f # fd => (Midway(f)' <=> Midway(f)))
    BY <2>1, <2>2, NamesAssumption DEF Midway
  <2>. QED
    BY <1>a, <2>1, <2>2, <2>3, SamePlaces DEF Owned, Apart, OpenSomewhere, Armed
<1>5. CASE EpollWait
  <2>1. PICK ready \in SUBSET Live :
          /\ events' = {[fd |-> fd, what |-> "hup"] : fd \in HungUp}
                       \cup {[fd |-> fd, what |-> reg[fd]] : fd \in ready}
                       \cup {[fd |-> fd, what |-> "in"] :
                               fd \in IF ListenReady THEN {Listen} ELSE {}}
          /\ reg' = Disarmed(HungUp \cup ready)
    BY <1>5 DEF EpollWait
  <2>2. /\ UNCHANGED <<queue, running, sock, isClose, timer, mainFd>>
        /\ mainFd = NoFd /\ events = {} /\ pc'[Main] = "dispatch"
        /\ pc[Main] = "wait" /\ \A w \in Workers : pc'[w] = pc[w]
    BY <1>5, <1>a DEF EpollWait, MainAt, TypeOK
  <2>3. /\ \A fd \in Fds : InEvents(fd)' <=> fd \in HungUp \cup ready
        /\ \A d, e \in events' : d.fd = e.fd => d = e
    <3>1. /\ HungUp \in SUBSET Fds /\ ready \in SUBSET Fds
          /\ HungUp \cap ready = {} /\ Listen \notin HungUp \cup ready
      BY NamesAssumption DEF HungUp, Live
    <3>2. \A fd \in HungUp : [fd |-> fd, what |-> "hup"] \in events'
      BY <2>1
    <3>3. \A fd \in ready : [fd |-> fd, what |-> reg[fd]] \in events'
      BY <2>1
    <3>4. \A fd \in HungUp \cup ready : \E e \in events' : e.fd = fd
      BY <3>2, <3>3
    <3>5. \A e \in events' : \/ e.fd \in HungUp /\ e = [fd |-> e.fd, what |-> "hup"]
                             \/ e.fd \in ready /\ e = [fd |-> e.fd, what |-> reg[e.fd]]
                             \/ e.fd = Listen /\ e = [fd |-> Listen, what |-> "in"]
      BY <2>1
    <3>6. \A fd \in Fds : InEvents(fd)' <=> fd \in HungUp \cup ready
      BY <3>4, <3>5, NamesAssumption DEF InEvents
    <3>. QED
      BY <3>1, <3>5, <3>6
  <2>4. \A fd \in Fds : /\ InWork(fd)' <=> InWork(fd)
                        /\ InQueue(fd)' <=> InQueue(fd)
                        /\ ~ InEvents(fd)
                        /\ Midway(fd)' <=> Midway(fd)
    BY <2>2 DEF InWork, InQueue, InEvents, Midway
  <2>5. OneEach'
    BY <1>a, <2>2, <2>3 DEF OneEach
  <2>6. \A fd \in Fds : /\ fd \in HungUp \cup ready => reg'[fd] = "off" /\ Armed(fd)
                                                      /\ sock[fd] # "free"
                        /\ fd \notin HungUp \cup ready => reg'[fd] = reg[fd]
    BY <2>1 DEF Disarmed, HungUp, Live
  <2>7. Apart'
    <3>1. \A fd \in Fds : /\ InWork(fd) => reg'[fd] = reg[fd] /\ ~ InEvents(fd)'
                          /\ InQueue(fd) => reg'[fd] = reg[fd] /\ ~ InEvents(fd)'
                          /\ fd # NoFd
      <4>1. \A fd \in Fds : InWork(fd) => ~ Armed(fd)
        BY <1>a DEF Apart, InWork, Armed
      <4>2. \A fd \in Fds : InQueue(fd) => ~ Armed(fd)
        BY <1>a DEF Apart, Armed
      <4>. QED
        BY <2>3, <2>6, <4>1, <4>2, NamesAssumption
    <3>. QED
      BY <1>a, <1>b, <2>2, <2>3, <2>4, <2>6, <3>1 DEF Apart
  <2>8. OpenSomewhere'
    BY <1>a, <2>2, <2>3, <2>4, <2>6 DEF OpenSomewhere, Armed
  <2>. QED
    BY <1>a, <2>2, <2>5, <2>7, <2>8 DEF Owned
<1>7. ASSUME NEW e \in events, DispatchClose(e) PROVE Owned'
  <2>1. UNCHANGED <<queue, running, reg, isClose, sock, timer>>
    BY <1>7 DEF DispatchClose
  <2>2. /\ mainFd = NoFd /\ mainFd' = e.fd /\ pc'[Main] = "del"
        /\ e.fd \in Fds /\ events' = events \ {e}
        /\ \A w \in Workers : pc'[w] = pc[w]
    BY <1>7, <1>a DEF DispatchClose, MainAt, EventsAt, TypeOK
  <2>3. \A f \in Fds : /\ InWork(f)' <=> InWork(f)
                       /\ InQueue(f)' <=> InQueue(f)
                       /\ InEvents(f)' <=> InEvents(f) /\ f # e.fd
                       /\ f # NoFd /\ (Midway(f)' <=> Midway(f))
    BY <1>a, <2>1, <2>2, NamesAssumption
    DEF InWork, InQueue, InEvents, OneEach, Midway
  <2>4. OneEach' /\ InEvents(e.fd)
    BY <1>a, <2>1, <2>2 DEF OneEach, InEvents
  <2>5. Apart'
    BY <1>a, <2>1, <2>2, <2>3, <2>4 DEF Apart
  <2>. QED
    BY <1>a, <2>1, <2>2, <2>3, <2>4, <2>5 DEF Owned, OpenSomewhere, Armed
<1>8. ASSUME NEW e \in events, DispatchTask(e) PROVE Owned'
  <2>1. UNCHANGED <<reg, isClose, sock, timer, mainFd, pc, running>>
    BY <1>8 DEF DispatchTask, Pool!Submit
  <2>2. /\ OneEach' /\ e.fd \in Fds /\ InEvents(e.fd)
        /\ \A fd \in Fds : /\ InWork(fd)' <=> InWork(fd)
                           /\ InQueue(fd)' <=> InQueue(fd) \/ fd = e.fd
                           /\ InEvents(fd)' <=> InEvents(fd) /\ fd # e.fd
    BY <1>8, <1>a, SubmitPlaces DEF Typed, InEvents
  <2>3. \A f \in Fds : Midway(f)' <=> Midway(f)
    BY <2>1 DEF Midway
  <2>4. Apart'
    BY <1>a, <2>1, <2>2 DEF Apart
  <2>. QED
    BY <1>a, <2>1, <2>2, <2>3, <2>4 DEF Owned, OpenSomewhere, Armed
<1>9. ASSUME NEW e \in events, DispatchListen(e) PROVE Owned'
  <2>1. /\ UNCHANGED <<queue, running, reg, isClose, sock, timer, mainFd>>
        /\ e.fd = Listen /\ events' = events \ {e}
        /\ pc'[Main] = "accept" /\ pc[Main] = "dispatch"
        /\ \A w \in Workers : pc'[w] = pc[w]
    BY <1>9, <1>a DEF DispatchListen, TypeOK
  <2>2. \A f \in Fds : /\ InWork(f)' <=> InWork(f)
                       /\ InQueue(f)' <=> InQueue(f)
                       /\ InEvents(f)' <=> InEvents(f)
                       /\ Midway(f)' <=> Midway(f)
    BY <2>1, NamesAssumption DEF InWork, InQueue, InEvents, Midway
  <2>3. OneEach'
    BY <1>a, <2>1 DEF OneEach
  <2>. QED
    BY <1>a, <2>1, <2>2, <2>3 DEF Owned, Apart, OpenSomewhere, Armed
<1>10. CASE InitConn
  <2>1. /\ UNCHANGED <<queue, running, events, reg, sock, timer, mainFd>>
        /\ pc[Main] = "init" /\ pc'[Main] = "register"
        /\ \A w \in Workers : pc'[w] = pc[w]
        /\ mainFd \in Fds /\ isClose' = [isClose EXCEPT ![mainFd] = FALSE]
        /\ isClose \in [Fds -> BOOLEAN]
    BY <1>10, <1>a DEF InitConn, MainAt, TypeOK
  <2>2. /\ ~ Midway(mainFd)'
        /\ \A f \in Fds \ {mainFd} : Midway(f)' <=> Midway(f)
    BY <1>a, <1>b, <2>1 DEF Midway, Apart
  <2>. QED
    BY <1>a, <2>1, <2>2, SamePlaces DEF Owned, Apart, OpenSomewhere, Armed
<1>11. CASE Register
  <2>1. /\ UNCHANGED <<queue, running, events, isClose, sock>>
        /\ pc[Main] = "register" /\ pc'[Main] \in {"accept", "dispatch"}
        /\ \A w \in Workers : pc'[w] = pc[w]
        /\ mainFd \in Fds /\ mainFd' = NoFd /\ sock[mainFd] # "free"
        /\ reg' = [reg EXCEPT ![mainFd] = "in"]
        /\ reg \in [Fds -> {"none", "off", "in", "out"}]
        /\ Timeouts \/ timer' = {}
    BY <1>11, <1>a DEF Register, TimersWith, NextTurn, MainAt, TypeOK, OpenSomewhere
  <2>2. \A f \in Fds : f # NoFd /\ (Midway(f)' <=> Midway(f))
    BY <2>1, NamesAssumption DEF Midway
  <2>3. ~ InWork(mainFd) /\ ~ InQueue(mainFd) /\ ~ InEvents(mainFd)
    BY <1>a, <2>1 DEF Apart
  <2>4. Apart'
    BY <1>a, <1>b, <2>1, <2>2, <2>3, SamePlaces DEF Apart
  <2>. QED
    BY <1>a, <2>1, <2>2, <2>3, <2>4, SamePlaces DEF Owned, OpenSomewhere, Armed
<1>12. ASSUME NEW t \in Threads, DelFd(t) PROVE Owned'
  <2>1. /\ UNCHANGED <<queue, running, events, isClose, sock, timer, mainFd>>
        /\ pc[t] = "del" /\ pc' = [pc EXCEPT ![t] = "check"]
        /\ pc' [t] = "check" /\ \A u \in Threads \ {t} : pc'[u] = pc[u]
        /\ reg' = [reg EXCEPT ![FdOf(t)] = "none"]
        /\ reg \in [Fds -> {"none", "off", "in", "out"}]
    BY <1>12, <1>a DEF DelFd, TypeOK
  <2>2. FdOf(t) \in Fds /\ (FdOf(t) = mainFd \/ InWork(FdOf(t)))
    BY <1>a, <1>b, <2>1 DEF FdOf, Threads, MainAt, WorkersAt, TypeOK
  <2>3. \A f \in Fds : Midway(f)' <=> Midway(f)
    BY <2>1 DEF Midway
  <2>4. ~ InQueue(FdOf(t)) /\ ~ InEvents(FdOf(t))
    BY <1>a, <2>2 DEF Apart
  <2>5. t # Main => t \in Workers /\ FdOf(t) = running[t].fd
    BY DEF Threads, FdOf
  <2>6. t = Main => ~ InWork(FdOf(t))
    BY <1>a, <2>2 DEF Apart, FdOf
  <2>7. \A w \in Workers : w # t /\ running[w] # NoTask => running[w].fd # FdOf(t)
    BY <1>a, <1>b, <2>1, <2>5, <2>6 DEF OneEach, WorkersAt
  <2>8. Apart'
    BY <1>a, <1>b, <2>1, <2>2, <2>4, <2>5, <2>7, SamePlaces DEF Apart
  <2>. QED
    BY <1>a, <2>1, <2>2, <2>3, <2>8, SamePlaces DEF Owned, OpenSomewhere, Armed
<1>13. ASSUME NEW t \in Threads, CheckClosed(t) PROVE Owned'
  <2>1. /\ UNCHANGED <<isClose, sock, reg>> /\ pc[t] = "check"
        /\ pc \in [Threads -> MainLabels \cup WorkerLabels]
    BY <1>13, <1>a DEF CheckClosed, TypeOK, MainLabels, WorkerLabels
  <2>2. FdOf(t) \in Fds /\ (t # Main => t \in Workers /\ FdOf(t) = running[t].fd
                                        /\ InWork(FdOf(t)) /\ running[t] # NoTask)
    BY <1>a, <1>b, <2>1 DEF FdOf, Threads, MainAt, WorkersAt, TypeOK
  <2>3. CASE AlreadyClosed(t)
    <3>1. ~ Midway(FdOf(t))
      <4>1. CASE t = Main
        BY <1>a, <1>b, <2>1, <2>2, <4>1 DEF Midway, Apart, FdOf
      <4>2. CASE t # Main
        BY <1>a, <2>1, <2>2, <4>2 DEF Midway, Apart, OneEach
      <4>. QED
        BY <4>1, <4>2
    <3>2. sock[FdOf(t)] = "free"
      BY <1>a, <2>2, <2>3, <3>1 DEF AlreadyClosed, OpenSomewhere
    <3>3. t = Main
      BY <1>a, <2>2, <3>2 DEF OpenSomewhere
    <3>4. /\ UNCHANGED <<queue, running, events>> /\ mainFd' = NoFd
          /\ pc'[Main] \in {"tick", "dispatch"} /\ sock[mainFd] = "free"
          /\ timer' \in SUBSET timer /\ \A w \in Workers : pc'[w] = pc[w]
      BY <1>13, <2>1, <2>3, <3>2, <3>3
      DEF CheckClosed, Return, TimersLeft, FdOf
    <3>5. \A f \in Fds : f # NoFd /\ (Midway(f)' <=> Midway(f))
      BY <2>1, <3>3, <3>4, NamesAssumption DEF Midway
    <3>. QED
      BY <1>a, <2>1, <2>2, <3>3, <3>4, <3>5, SamePlaces
      DEF Owned, Apart, OpenSomewhere, Armed
  <2>4. CASE ~ AlreadyClosed(t)
    <3>1. /\ UNCHANGED <<queue, running, events, timer, mainFd>>
          /\ pc' = [pc EXCEPT ![t] = "set"]
          /\ pc'[t] = "set" /\ \A u \in Threads \ {t} : pc'[u] = pc[u]
      BY <1>13, <2>1, <2>4 DEF CheckClosed
    <3>2. \A f \in Fds : Midway(f)' <=> Midway(f)
      BY <2>1, <3>1 DEF Midway
    <3>3. sock[FdOf(t)] # "free"
      BY <1>a, <2>2, <2>4 DEF AlreadyClosed, OpenSomewhere
    <3>4. t = Main => sock[mainFd] # "free"
      BY <3>3 DEF FdOf
    <3>. QED
      BY <1>a, <2>1, <3>1, <3>2, <3>4, SamePlaces
      DEF Owned, Apart, OpenSomewhere, Armed
  <2>. QED
    BY <2>3, <2>4
<1>14. ASSUME NEW t \in Threads, SetClosed(t) PROVE Owned'
  <2>1. /\ UNCHANGED <<queue, running, events, sock, reg, timer, mainFd>>
        /\ pc[t] = "set" /\ pc'[t] = "close"
        /\ \A u \in Threads \ {t} : pc'[u] = pc[u]
        /\ isClose' = [isClose EXCEPT ![FdOf(t)] = TRUE]
        /\ isClose \in [Fds -> BOOLEAN]
    BY <1>14, <1>a DEF SetClosed, TypeOK
  <2>2. FdOf(t) \in Fds /\ (t = Main => FdOf(t) = mainFd)
        /\ (t # Main => t \in Workers /\ FdOf(t) = running[t].fd
                        /\ InWork(FdOf(t)) /\ running[t] # NoTask)
    BY <1>a, <1>b, <2>1 DEF FdOf, Threads, MainAt, WorkersAt, TypeOK
  <2>f. PICK fd \in Fds : fd = FdOf(t)
    BY <2>2
  <2>3. Midway(fd)' /\ sock[fd] # "free"
    <3>1. Midway(fd)'
      BY <2>f, <2>1, <2>2 DEF Midway
    <3>2. sock[fd] # "free"
      BY <2>f, <1>a, <2>1, <2>2 DEF OpenSomewhere
    <3>. QED
      BY <2>f, <3>1, <3>2
  <2>4. \A f \in Fds \ {fd} : Midway(f)' <=> Midway(f)
    BY <2>f, <2>1, <2>2 DEF Midway
  <2>5. pc'[Main] \in {"init", "register", "set", "close"} => sock[mainFd] # "free"
    BY <2>f, <1>a, <2>1, <2>2, <2>3 DEF OpenSomewhere
  <2>6. Apart'
    BY <2>f, <1>a, <1>b, <2>1, <2>2, SamePlaces DEF Apart
  <2>7. OpenSomewhere'
    BY <2>f, <1>a, <2>1, <2>2, <2>3, <2>4, <2>5, SamePlaces DEF OpenSomewhere, Armed
  <2>. QED
    BY <2>f, <1>a, <2>1, <2>6, <2>7, SamePlaces DEF Owned
<1>15. ASSUME NEW t \in Threads, CloseFd(t) PROVE Owned'
  <2>1. /\ UNCHANGED <<isClose, queue, events>> /\ pc[t] = "close"
        /\ sock' = [sock EXCEPT ![FdOf(t)] = "free"]
        /\ reg' = [reg EXCEPT ![FdOf(t)] = "none"]
        /\ sock \in [Fds -> {"free", "up", "down"}]
        /\ reg \in [Fds -> {"none", "off", "in", "out"}]
        /\ pc' = [pc EXCEPT ![t] = IF t # Main THEN "idle"
                                   ELSE IF ticking THEN "tick" ELSE "dispatch"]
    BY <1>15, <1>a, ReturnTyped DEF CloseFd, TypeOK, Typed
  <2>2. FdOf(t) \in Fds /\ (t = Main => FdOf(t) = mainFd)
        /\ (t # Main => t \in Workers /\ FdOf(t) = running[t].fd
                        /\ InWork(FdOf(t)) /\ running[t] # NoTask)
    BY <1>a, <1>b, <2>1 DEF FdOf, Threads, MainAt, WorkersAt, TypeOK
  <2>f. PICK fd \in Fds : fd = FdOf(t)
    BY <2>2
  <2>3. Midway(fd) /\ isClose[fd]
    BY <2>f, <1>a, <2>1, <2>2 DEF Midway, OpenSomewhere
  <2>4. pc \in [Threads -> MainLabels \cup WorkerLabels]
    BY <2>f, <1>a DEF TypeOK, MainLabels, WorkerLabels
  <2>5. CASE t = Main
    <3>1. /\ running' = running /\ mainFd' = NoFd
          /\ timer' \in SUBSET timer /\ pc'[Main] \in {"tick", "dispatch"}
          /\ \A w \in Workers : pc'[w] = pc[w]
      BY <2>f, <1>15, <2>1, <2>4, <2>5 DEF CloseFd, Return, TimersLeft
    <3>2. ~ InWork(mainFd) /\ ~ InQueue(mainFd) /\ ~ InEvents(mainFd)
      BY <2>f, <1>a, <2>2, <2>5 DEF Apart
    <3>3. \A f \in Fds : f # NoFd /\ (f # mainFd => (Midway(f)' <=> Midway(f)))
      BY <2>f, <2>1, <3>1, NamesAssumption DEF Midway
    <3>4. Apart'
      BY <2>f, <1>a, <1>b, <2>1, <2>2, <2>5, <3>1, <3>2, <3>3, SamePlaces DEF Apart
    <3>. QED
      BY <2>f, <1>a, <2>1, <2>2, <2>3, <2>5, <3>1, <3>2, <3>3, <3>4, SamePlaces
      DEF Owned, OpenSomewhere, Armed
  <2>6. CASE t # Main
    <3>1. /\ Pool!Finish(t) /\ t \in Workers
          /\ UNCHANGED <<mainFd, timer>> /\ pc'[Main] = pc[Main] /\ pc'[t] = "idle"
          /\ \A w \in Workers \ {t} : pc'[w] = pc[w]
          /\ running' = [running EXCEPT ![t] = NoTask]
          /\ running \in [Workers -> Tasks \cup {NoTask}]
      BY <2>f, <1>15, <1>a, <2>1, <2>2, <2>4, <2>6
      DEF CloseFd, Return, TimersLeft, Pool!Finish, TypeOK
    <3>2. /\ OneEach'
          /\ \A f \in Fds : /\ InWork(f)' <=> InWork(f) /\ f # fd
                            /\ InQueue(f)' <=> InQueue(f)
                            /\ InEvents(f)' <=> InEvents(f)
      BY <2>f, <1>a, <2>1, <2>2, <2>6, <3>1, FinishPlaces
    <3>3. \A f \in Fds : f # fd => (Midway(f)' <=> Midway(f))
      BY <2>f, <2>2, <2>6, <3>1 DEF Midway
    <3>4. \A w \in Workers : w # t /\ running[w] # NoTask => running[w].fd # fd
      BY <2>f, <1>a, <2>2, <2>6 DEF OneEach
    <3>5. Apart'
      BY <2>f, <1>a, <1>b, <2>1, <2>2, <2>6, <3>1, <3>2, <3>4 DEF Apart
    <3>6. ~ Midway(fd)' /\ mainFd # fd
      <4>1. mainFd # fd
        BY <2>f, <1>a, <2>2, <2>6 DEF Apart
      <4>2. \A w \in Workers : running'[w] # NoTask => running'[w].fd # fd
        BY <2>f, <3>1, <3>4
      <4>. QED
        BY <2>f, <3>1, <4>1, <4>2 DEF Midway
    <3>7. ~ InQueue(fd) /\ ~ InEvents(fd)
      BY <2>f, <1>a, <2>2, <2>6 DEF Apart
    <3>. QED
      BY <2>f, <1>a, <2>1, <2>2, <2>3, <2>6, <3>1, <3>2, <3>3, <3>5, <3>6, <3>7
      DEF Owned, OpenSomewhere, Armed
  <2>. QED
    BY <2>f, <2>5, <2>6
<1>16. ASSUME NEW w \in Workers, TakeTask(w) PROVE Owned'
  <2>1. /\ UNCHANGED <<events, isClose, sock, reg, timer, mainFd>>
        /\ pc[w] = "idle" /\ pc' = [pc EXCEPT ![w] = Head(queue).op]
        /\ pc'[w] = Head(queue).op /\ \A u \in Threads \ {w} : pc'[u] = pc[u]
        /\ Pool!Take(w) /\ running[w] = NoTask
    BY <1>16, <1>a DEF TakeTask, Pool!Take, TypeOK
  <2>2. /\ OneEach' /\ Head(queue) \in Tasks /\ InQueue(Head(queue).fd)
        /\ running' = [running EXCEPT ![w] = Head(queue)]
        /\ \A f \in Fds : /\ InWork(f)' <=> InWork(f) \/ f = Head(queue).fd
                          /\ InQueue(f)' <=> InQueue(f) /\ f # Head(queue).fd
                          /\ InEvents(f)' <=> InEvents(f)
    BY <1>16, <1>a, <2>1, TakePlaces
  <2>3. /\ Head(queue).fd \in Fds /\ Head(queue).op \in {"read", "write"}
        /\ running \in [Workers -> Tasks \cup {NoTask}] /\ Head(queue) # NoTask
    BY <1>a, <2>2, NamesAssumption DEF Tasks, TypeOK
  <2>4. \A f \in Fds : Midway(f)' <=> Midway(f)
    BY <2>1, <2>2, <2>3 DEF Midway
  <2>5. Apart'
    BY <1>a, <1>b, <2>1, <2>2, <2>3 DEF Apart
  <2>. QED
    BY <1>a, <2>1, <2>2, <2>3, <2>4, <2>5 DEF Owned, OpenSomewhere, Armed
<1>17. ASSUME NEW w \in Workers, OnRead(w) \/ OnWrite(w) PROVE Owned'
  <2>1. /\ UNCHANGED <<queue, running, events, isClose, sock, reg, timer, mainFd>>
        /\ pc[w] \in {"read", "write"} /\ pc'[w] \in {"process", "again", "del"}
        /\ \A u \in Threads \ {w} : pc'[u] = pc[u]
    BY <1>17, <1>a DEF OnRead, OnWrite, TypeOK
  <2>2. \A f \in Fds : Midway(f)' <=> Midway(f)
    BY <2>1 DEF Midway
  <2>. QED
    BY <1>a, <2>1, <2>2, SamePlaces DEF Owned, Apart, OpenSomewhere, Armed
<1>18. ASSUME NEW w \in Workers, OnProcess(w) \/ WriteAgain(w) PROVE Owned'
  <2>1. /\ UNCHANGED <<queue, events, isClose, sock, timer, mainFd>>
        /\ pc[w] \in {"process", "again"} /\ pc'[w] = "idle"
        /\ \A u \in Threads \ {w} : pc'[u] = pc[u]
        /\ Pool!Finish(w) /\ running' = [running EXCEPT ![w] = NoTask]
        /\ running \in [Workers -> Tasks \cup {NoTask}]
        /\ running[w] # NoTask
    BY <1>18, <1>a DEF OnProcess, WriteAgain, ModFd, Pool!Finish, TypeOK, WorkersAt
  <2>2. FdOf(w) = running[w].fd /\ FdOf(w) \in Fds /\ InWork(FdOf(w))
    BY <1>b, <2>1 DEF FdOf
  <2>3. reg[FdOf(w)] = "off"
    BY <1>a, <2>1, <2>2 DEF Apart
  <2>4. /\ reg'[FdOf(w)] \in {"in", "out"}
        /\ \A f \in Fds \ {FdOf(w)} : reg'[f] = reg[f]
    BY <1>18, <1>a, <2>2, <2>3 DEF OnProcess, WriteAgain, ModFd, Rearmed, TypeOK
  <2>5. /\ OneEach'
        /\ \A f \in Fds : /\ InWork(f)' <=> InWork(f) /\ f # FdOf(w)
                          /\ InQueue(f)' <=> InQueue(f)
                          /\ InEvents(f)' <=> InEvents(f)
    BY <1>a, <2>1, <2>2, FinishPlaces
  <2>6. \A f \in Fds : Midway(f)' <=> Midway(f)
    BY <2>1 DEF Midway
  <2>7. \A v \in Workers : v # w /\ running[v] # NoTask => running[v].fd # FdOf(w)
    BY <1>a, <2>1, <2>2 DEF OneEach
  <2>8. ~ InQueue(FdOf(w)) /\ ~ InEvents(FdOf(w)) /\ sock[FdOf(w)] # "free"
    BY <1>a, <2>2 DEF Apart, OpenSomewhere
  <2>9. Apart'
    BY <1>a, <1>b, <2>1, <2>2, <2>4, <2>5, <2>7, <2>8 DEF Apart
  <2>. QED
    BY <1>a, <2>1, <2>2, <2>4, <2>5, <2>6, <2>8, <2>9 DEF Owned, OpenSomewhere, Armed
<1>19. CASE UNCHANGED vars
  <2>1. UNCHANGED <<queue, running, events, isClose, sock, reg, timer, mainFd, pc>>
    BY <1>19 DEF vars
  <2>2. \A f \in Fds : Midway(f)' <=> Midway(f)
    BY <2>1 DEF Midway
  <2>. QED
    BY <1>a, <2>1, <2>2, SamePlaces DEF Owned, Apart, OpenSomewhere, Armed
<1>. QED
  BY <1>1, <1>2, <1>3, <1>4, <1>5, <1>7, <1>8, <1>9, <1>10, <1>11, <1>12,
     <1>13, <1>14, <1>15, <1>16, <1>17, <1>18, <1>19, NextCases
-----------------------------------------------------------------------------
(* The owners of a descriptor, read off its Places.                        *)
LEMMA PlacesAre ==
  ASSUME NEW fd \in Fds, NEW p \in Places(fd)
  PROVE  \/ \E w \in Workers : /\ p = <<"worker", w>>
                               /\ running[w] # NoTask /\ running[w].fd = fd
         \/ \E i \in DOMAIN queue : p = <<"queue", i>> /\ queue[i].fd = fd
         \/ \E e \in events : p = <<"event", e>> /\ e.fd = fd
         \/ p = <<"main", fd>> /\ mainFd = fd
         \/ p = <<"armed", fd>> /\ mainFd # fd /\ Armed(fd)
  BY DEF Places

(* Ownership says that two places are never taken at once.                 *)
LEMMA OwnedExclusive == Typed /\ Owned => Exclusive
<1> SUFFICES ASSUME Typed, Owned, NEW fd \in Fds, NEW p \in Places(fd),
                    NEW q \in Places(fd)
             PROVE  p = q
  BY DEF Exclusive
<1>a. OneEach /\ Apart /\ DOMAIN queue = 1 .. Len(queue)
  BY DEF Owned, Typed, TypeOK
<1>b. InWork(fd) => ~ Armed(fd)
  BY <1>a DEF Apart, InWork, Armed
<1>1. CASE InWork(fd)
  <2>1. \A x \in Places(fd) : \E w \in Workers :
          x = <<"worker", w>> /\ running[w] # NoTask /\ running[w].fd = fd
    BY <1>1, <1>a, <1>b, PlacesAre DEF Apart, InQueue, InEvents
  <2>. QED
    BY <1>a, <2>1 DEF OneEach
<1>2. CASE InQueue(fd)
  <2>1. \A x \in Places(fd) : \E i \in DOMAIN queue :
          x = <<"queue", i>> /\ queue[i].fd = fd
    BY <1>2, <1>a, PlacesAre DEF Apart, InWork, InEvents, Armed
  <2>. QED
    BY <1>a, <2>1 DEF OneEach
<1>3. CASE InEvents(fd)
  <2>1. \A x \in Places(fd) : \E e \in events : x = <<"event", e>> /\ e.fd = fd
    BY <1>3, <1>a, PlacesAre DEF Apart, InWork, InQueue, Armed
  <2>. QED
    BY <1>a, <2>1 DEF OneEach
<1>4. CASE ~ InWork(fd) /\ ~ InQueue(fd) /\ ~ InEvents(fd)
  <2>1. \A x \in Places(fd) : \/ x = <<"main", fd>> /\ mainFd = fd
                              \/ x = <<"armed", fd>> /\ mainFd # fd
    BY <1>4, <1>a, PlacesAre DEF InWork, InQueue, InEvents
  <2>. QED
    BY <2>1
<1>. QED
  BY <1>1, <1>2, <1>3, <1>4

(* Ownership says that every open descriptor has a place.                  *)
LEMMA OwnedNoOrphan == Typed /\ Owned => NoOrphan
<1> SUFFICES ASSUME Typed, Owned, NEW fd \in Fds, sock[fd] # "free"
             PROVE  Places(fd) # {}
  BY DEF NoOrphan
<1>1. InWork(fd) \/ InQueue(fd) \/ InEvents(fd) \/ mainFd = fd \/ Armed(fd)
  BY DEF Owned, OpenSomewhere
<1>2. CASE InWork(fd)
  BY <1>2 DEF InWork, Places
<1>3. CASE InQueue(fd)
  <2>1. PICK i \in DOMAIN queue : queue[i].fd = fd
    BY <1>3 DEF InQueue, Typed, TypeOK
  <2>. QED
    BY <2>1 DEF Places
<1>4. CASE InEvents(fd)
  BY <1>4 DEF InEvents, Places
<1>5. CASE mainFd = fd
  BY <1>5 DEF Places
<1>6. CASE Armed(fd) /\ mainFd # fd
  BY <1>6 DEF Places
<1>. QED
  BY <1>1, <1>2, <1>3, <1>4, <1>5, <1>6

(* Ownership says that a thread closes its own connection.                 *)
LEMMA OwnedCloses == Typed /\ Owned => ClosesOwnConnection
<1> SUFFICES ASSUME Typed, Owned, NEW t \in Threads, pc[t] = "close"
             PROVE  isClose[FdOf(t)] /\ sock[FdOf(t)] # "free"
  BY DEF ClosesOwnConnection
<1>1. FdOf(t) \in Fds
  BY FdOfType DEF Closing
<1>2. CASE t = Main
  BY <1>1, <1>2 DEF Owned, OpenSomewhere, Midway, FdOf
<1>3. CASE t # Main
  <2>1. t \in Workers /\ running[t] # NoTask /\ running[t].fd = FdOf(t)
    BY <1>3 DEF Threads, FdOf, Typed, WorkersAt
  <2>. QED
    BY <1>1, <2>1 DEF Owned, OpenSomewhere, Midway, InWork
<1>. QED
  BY <1>2, <1>3

(* The counter moves by one with the set of connections it counts.         *)
CountExact == IsFiniteSet(Counted) /\ userCount = Cardinality(Counted)

(* Every step preserves the number of users.                               *)
LEMMA CountStep == Typed /\ Owned /\ CountExact /\ [Next]_vars => CountExact'
<1> SUFFICES ASSUME Typed, Owned, CountExact, [Next]_vars PROVE CountExact'
  OBVIOUS
<1>1. CASE InitConn
  <2>1. mainFd \in Fds /\ pc[Main] = "init" /\ isClose[mainFd]
    BY <1>1 DEF InitConn, Typed, TypeOK, MainAt, Owned, OpenSomewhere, Midway
  <2>2. Counted' = Counted \cup {mainFd} /\ mainFd \notin Counted
    BY <1>1, <2>1 DEF InitConn, Counted, Typed, TypeOK
  <2>. QED
    BY <1>1, <2>2, FS_AddElement DEF InitConn, CountExact
<1>2. ASSUME NEW t \in Threads, SetClosed(t) PROVE CountExact'
  <2>1. pc[t] = "set" /\ FdOf(t) \in Fds
    BY <1>2, FdOfType DEF SetClosed, Closing
  <2>2. ~ isClose[FdOf(t)]
    <3>1. CASE t = Main
      BY <2>1, <3>1 DEF Owned, OpenSomewhere, Apart, Midway, FdOf, InWork
    <3>2. CASE t # Main
      <4>1. t \in Workers /\ running[t] # NoTask /\ running[t].fd = FdOf(t)
        BY <2>1, <3>2 DEF Threads, FdOf, Typed, WorkersAt
      <4>. QED
        BY <2>1, <4>1 DEF Owned, OpenSomewhere, Apart, OneEach, Midway, InWork
    <3>. QED
      BY <3>1, <3>2
  <2>3. Counted' = Counted \ {FdOf(t)} /\ FdOf(t) \in Counted
    BY <1>2, <2>1, <2>2 DEF SetClosed, Counted, Typed, TypeOK
  <2>. QED
    BY <1>2, <2>3, FS_RemoveElement DEF SetClosed, CountExact
<1>3. CASE UNCHANGED connVars
  BY <1>3 DEF connVars, CountExact, Counted
<1>. QED
  BY <1>1, <1>2, <1>3, NextCases
  DEF Arrive, PeerClose, TickClose, Accept, EpollWait, EpollTimeout, TickDone,
      DispatchClose, DispatchTask, DispatchListen, DispatchDone, AcceptFails,
      AcceptBusy, Register, DelFd, CheckClosed, CloseFd, TakeTask, OnRead,
      OnWrite, OnProcess, WriteAgain, ModFd, vars

(* Ownership and the count say what m_user_count is.                       *)
LEMMA OwnedCounts == Typed /\ Owned /\ CountExact => UserCountExact
<1> SUFFICES ASSUME Typed, Owned, CountExact PROVE UserCountExact
  OBVIOUS
<1>1. \A fd \in Counted : sock[fd] # "free"
  BY DEF Counted, Owned, OpenSomewhere
<1>2. ASSUME NEW fd \in Fds \ Counted, sock[fd] # "free"
      PROVE  \E t \in Threads : pc[t] \in {"init", "close"} /\ FdOf(t) = fd
  <2>1. Midway(fd)
    BY <1>2 DEF Counted, Owned, OpenSomewhere, Typed, TypeOK
  <2>. QED
    BY <2>1, MainIsNoWorker DEF Midway, FdOf
<1>. QED
  BY <1>1, <1>2 DEF UserCountExact, CountExact

(* The invariant of the owners and the count holds always.                 *)
LEMMA SerialInductive == ASSUME Serial PROVE Spec => [](Typed /\ Owned /\ CountExact)
<1>1. Init => CountExact
  <2>1. Init => Counted = {}
    BY DEF Init, Counted
  <2>. QED
    BY <2>1, FS_EmptySet DEF Init, CountExact
<1>2. Typed /\ Owned /\ CountExact /\ [Next]_vars => (Typed /\ Owned /\ CountExact)'
  BY TypeStep, AtStep, OwnedStep, CountStep DEF Typed
<1>. QED
  BY <1>1, <1>2, TypedInit, OwnedInit, PTL DEF Spec
-----------------------------------------------------------------------------
(***************************************************************************)
(* With timers that expire only when the tasks of their connection are     *)
(* over, or without timers, a connection has one owner at a time.          *)
(***************************************************************************)
THEOREM OneOwner == ASSUME Serial PROVE Spec => []Exclusive
  BY SerialInductive, OwnedExclusive, PTL

(* Under the same condition no open connection is ever without an owner.   *)
THEOREM NoneForgotten == ASSUME Serial PROVE Spec => []NoOrphan
  BY SerialInductive, OwnedNoOrphan, PTL

(* Under the same condition a thread closes no connection but its own.     *)
THEOREM OwnCloses == ASSUME Serial PROVE Spec => []ClosesOwnConnection
  BY SerialInductive, OwnedCloses, PTL

(* Under the same condition m_user_count is the number of users.           *)
THEOREM UsersCounted == ASSUME Serial PROVE Spec => []UserCountExact
  BY SerialInductive, OwnedCounts, PTL
=============================================================================
