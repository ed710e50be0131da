----------------------------- MODULE HttpServer -----------------------------
(***************************************************************************)
(* The reactor of src/server/http_server.cc and the life of a connection:  *)
(* the main thread accepts, waits in epoll_wait, runs the timers and hands *)
(* each ready connection to the thread pool; a worker reads, processes or  *)
(* writes, and arms the descriptor again or closes the connection.         *)
(*                                                                         *)
(* Descriptors are armed with EPOLLONESHOT, which is what is meant to give *)
(* each connection one owner at a time.  The HttpConn objects live in      *)
(* m_users, by descriptor number, so a connection is named by its          *)
(* descriptor and a number that is closed may come back from accept.       *)
(*                                                                         *)
(* The pool is the queue TaskQueue specifies, which ThreadPool is shown to *)
(* implement.  The kernel and the peers are modelled as the code uses them.*)
(* A step is what a thread does between two accesses to state that another *)
(* thread, or the kernel, may change.                                      *)
(***************************************************************************)
EXTENDS Integers, Sequences, FiniteSets

CONSTANTS
  Fds,          \* descriptors the process may have open for connections
  Workers,      \* threads of the pool
  Main,         \* the thread that runs HttpServer::Start
  Listen,       \* listenFd
  NoFd, NoTask, \* no descriptor, no task
  MAX_FD,       \* HttpServer::MAX_FD, the limit DealListen checks
  MaxConns,     \* bound on the connections peers open
  TrigMode,     \* the trigMode of the constructor
  Timeouts,     \* timeoutMS_ > 0
  PromptTasks   \* the environment is fast: see TickClose

ASSUME NamesAssumption == /\ Main \notin Workers
                          /\ {NoFd, Listen} \cap Fds = {}
                          /\ NoFd # Listen
                          /\ NoTask \notin [op : {"read", "write"}, fd : Fds]
ASSUME NumbersAssumption == MAX_FD \in Nat \ {0} /\ MaxConns \in Nat
ASSUME OptionsAssumption == /\ TrigMode \in Int
                            /\ Timeouts \in BOOLEAN
                            /\ PromptTasks \in BOOLEAN

VARIABLES
  opened,     \* connections the peers have opened so far
  backlog,    \* of these, how many accept has not returned yet
  edge,       \* listenFd is on the ready list of epoll (edge triggered)
  cutShort,   \* history: the last accept loop left for want of room
  sock,       \* the socket behind each descriptor: peer up, gone, or none
  reg,        \* its registration in epoll: none, disarmed, or what for
  isClose,    \* HttpConn::m_isClose of m_users[fd]
  userCount,  \* HttpConn::m_user_count
  timer,      \* the descriptors that have a node in m_timer
  events,     \* events of Epoller::eventsList not yet handled
  queue,      \* the tasks of the pool
  running,    \* the task each worker is executing
  pc,         \* what each thread does next
  mainFd,     \* the connection the main thread is setting up or closing
  ticking     \* the main thread is closing it from HeapTimer::tick

kernelVars == <<opened, backlog, edge, sock>>
connVars == <<isClose, userCount>>
mainVars == <<timer, events, mainFd, ticking, cutShort>>
poolVars == <<queue, running>>
vars == <<kernelVars, connVars, mainVars, poolVars, reg, pc>>

Threads == Workers \cup {Main}
Tasks == [op : {"read", "write"}, fd : Fds]

Pool == INSTANCE TaskQueue WITH Task <- Tasks, Worker <- Workers

(* Mutant of ListenET: mode 0 falls through to the cases below it.         *)
ListenETFallsThrough == TrigMode # 1

(* InitEventMode: the modes that do not make the listening socket, or the  *)
(* connections, edge triggered.                                            *)
ListenET == TrigMode \notin {0, 1}
ConnET == TrigMode \notin {0, 2}

Init == /\ opened = 0 /\ backlog = 0 /\ edge = FALSE /\ cutShort = FALSE
        /\ sock = [fd \in Fds |-> "free"]
        /\ reg = [fd \in Fds |-> "none"]
        /\ isClose = [fd \in Fds |-> TRUE]
        /\ userCount = 0
        /\ timer = {}
        /\ events = {}
        /\ Pool!Init
        /\ pc = [t \in Threads |-> IF t = Main THEN "tick" ELSE "idle"]
        /\ mainFd = NoFd /\ ticking = FALSE

Goto(t, label) == pc' = [pc EXCEPT ![t] = label]
-----------------------------------------------------------------------------
(* The peers.                                                              *)

Arrive == /\ opened < MaxConns
          /\ opened' = opened + 1
          /\ backlog' = backlog + 1
          /\ edge' = ListenET
          /\ UNCHANGED <<sock, connVars, mainVars, poolVars, reg, pc>>

(* The peer shuts down or resets its side.                                 *)
PeerClose(fd) == /\ sock[fd] = "up"
                 /\ sock' = [sock EXCEPT ![fd] = "down"]
                 /\ UNCHANGED <<opened, backlog, edge, connVars, mainVars,
                                poolVars, reg, pc>>
-----------------------------------------------------------------------------
(* CloseConn, by the main thread or by a worker: DelFd, then               *)
(* HttpConn::Close, which tests m_isClose, sets it and lowers the count,   *)
(* and closes the descriptor.                                              *)

FdOf(t) == IF t = Main THEN mainFd ELSE running[t].fd

(* Mutant of TimersLeft: whoever closes a connection erases its timer.     *)
TimersLeftErased(t) == timer \ {FdOf(t)}

(* Only tick() pops the node of a connection that was closed.              *)
TimersLeft(t) == IF t = Main /\ ticking THEN timer \ {mainFd} ELSE timer

(* CloseConn returns: into tick(), into the loop over the events, or out   *)
(* of the task.                                                            *)
Return(t) ==
  /\ timer' = TimersLeft(t)
  /\ UNCHANGED <<events, cutShort>>
  /\ IF t = Main
     THEN /\ Goto(Main, IF ticking THEN "tick" ELSE "dispatch")
          /\ mainFd' = NoFd
          /\ ticking' = FALSE
          /\ UNCHANGED poolVars
     ELSE /\ Pool!Finish(t)
          /\ Goto(t, "idle")
          /\ UNCHANGED <<mainFd, ticking>>

DelFd(t) == /\ pc[t] = "del"
            /\ reg' = [reg EXCEPT ![FdOf(t)] = "none"]
            /\ Goto(t, "check")
            /\ UNCHANGED <<kernelVars, connVars, mainVars, poolVars>>

(* Mutant of AlreadyClosed: Close does not test m_isClose.                 *)
AlreadyClosedNever(t) == FALSE

AlreadyClosed(t) == isClose[FdOf(t)]

CheckClosed(t) == /\ pc[t] = "check"
                  /\ IF AlreadyClosed(t)
                     THEN Return(t)
                     ELSE Goto(t, "set") /\ UNCHANGED <<mainVars, poolVars>>
                  /\ UNCHANGED <<kernelVars, connVars, reg>>

SetClosed(t) == /\ pc[t] = "set"
                /\ isClose' = [isClose EXCEPT ![FdOf(t)] = TRUE]
                /\ userCount' = userCount - 1
                /\ Goto(t, "close")
                /\ UNCHANGED <<kernelVars, mainVars, poolVars, reg>>

(* The kernel forgets the registration of a descriptor that is closed.     *)
CloseFd(t) == /\ pc[t] = "close"
              /\ sock' = [sock EXCEPT ![FdOf(t)] = "free"]
              /\ reg' = [reg EXCEPT ![FdOf(t)] = "none"]
              /\ Return(t)
              /\ UNCHANGED <<opened, backlog, edge, connVars>>

CloseConn(t) == DelFd(t) \/ CheckClosed(t) \/ SetClosed(t) \/ CloseFd(t)
-----------------------------------------------------------------------------
(* The timers.                                                             *)

Busy(fd) == \/ \E i \in DOMAIN queue : queue[i].fd = fd
            \/ \E w \in Workers : running[w] # NoTask /\ running[w].fd = fd

(* A node that expired is called back.  Its time was set anew when the     *)
(* last task on the connection was queued, so a task whose wait and        *)
(* execution take less than timeoutMS_, while the wall clock is not set    *)
(* forward, is over by then: that is PromptTasks.                          *)
TickClose(fd) == /\ pc[Main] = "tick"
                 /\ fd \in timer
                 /\ PromptTasks => ~Busy(fd)
                 /\ mainFd' = fd
                 /\ ticking' = TRUE
                 /\ Goto(Main, "del")
                 /\ UNCHANGED <<kernelVars, connVars, timer, events, cutShort,
                                poolVars, reg>>

TickDone == /\ pc[Main] = "tick"
            /\ Goto(Main, "wait")
            /\ UNCHANGED <<kernelVars, connVars, mainVars, poolVars, reg>>
-----------------------------------------------------------------------------
(* epoll_wait.                                                             *)

Armed(fd) == reg[fd] \in {"in", "out"}
HungUp == {fd \in Fds : Armed(fd) /\ sock[fd] = "down"}
Live == {fd \in Fds : Armed(fd) /\ sock[fd] = "up"}
ListenReady == backlog > 0 /\ (ListenET => edge)

(* Mutant of Disarmed: connections are armed without EPOLLONESHOT.         *)
DisarmedNever(fds) == reg

(* EPOLLONESHOT disarms the descriptors that are reported.                 *)
Disarmed(fds) == [fd \in Fds |-> IF fd \in fds THEN "off" ELSE reg[fd]]

(* Every hang-up is reported, and any armed descriptors that have become   *)
(* readable or writable.                                                   *)
EpollWait ==
  /\ pc[Main] = "wait"
  /\ \E ready \in SUBSET Live :
       /\ events' = {[fd |-> fd, what |-> "hup"] : fd \in HungUp}
                    \cup {[fd |-> fd, what |-> reg[fd]] : fd \in ready}
                    \cup {[fd |-> fd, what |-> "in"] :
                            fd \in IF ListenReady THEN {Listen} ELSE {}}
       /\ reg' = Disarmed(HungUp \cup ready)
  /\ events' # {}
  /\ edge' = FALSE
  /\ Goto(Main, "dispatch")
  /\ UNCHANGED <<opened, backlog, sock, connVars, timer, mainFd, ticking,
                 cutShort, poolVars>>

(* The time until the next expiry runs out with nothing to report.         *)
EpollTimeout == /\ pc[Main] = "wait"
                /\ timer # {}
                /\ HungUp = {} /\ ~ListenReady
                /\ Goto(Main, "tick")
                /\ UNCHANGED <<kernelVars, connVars, mainVars, poolVars, reg>>
-----------------------------------------------------------------------------
(* The loop over the events.                                               *)

DispatchClose(e) == /\ pc[Main] = "dispatch"
                    /\ e.what = "hup"
                    /\ events' = events \ {e}
                    /\ mainFd' = e.fd
                    /\ Goto(Main, "del")
                    /\ UNCHANGED <<kernelVars, connVars, timer, ticking,
                                   cutShort, poolVars, reg>>

(* DealRead or DealWrite: the timer is adjusted, which it can only be if   *)
(* the descriptor has a node (see TimerForEvent), and a task is queued.    *)
DispatchTask(e) ==
  /\ pc[Main] = "dispatch"
  /\ e.fd # Listen /\ e.what # "hup"
  /\ events' = events \ {e}
  /\ Pool!Submit([op |-> IF e.what = "in" THEN "read" ELSE "write", fd |-> e.fd])
  /\ UNCHANGED <<kernelVars, connVars, timer, mainFd, ticking, cutShort, reg, pc>>

DispatchListen(e) == /\ pc[Main] = "dispatch"
                     /\ e.fd = Listen
                     /\ events' = events \ {e}
                     /\ Goto(Main, "accept")
                     /\ UNCHANGED <<kernelVars, connVars, timer, mainFd,
                                    ticking, cutShort, poolVars, reg>>

DispatchDone == /\ pc[Main] = "dispatch"
                /\ events = {}
                /\ Goto(Main, "tick")
                /\ UNCHANGED <<kernelVars, connVars, mainVars, poolVars, reg>>
-----------------------------------------------------------------------------
(* DealListen.                                                             *)

Free == {fd \in Fds : sock[fd] = "free"}

(* Mutant of Full: the limit is not tested.                                *)
FullNever == FALSE

Full == userCount >= MAX_FD

(* accept returns -1: no connection is pending, or no descriptor is left.  *)
AcceptFails == /\ pc[Main] = "accept"
               /\ backlog = 0 \/ Free = {}
               /\ cutShort' = (backlog > 0)
               /\ Goto(Main, "dispatch")
               /\ UNCHANGED <<kernelVars, connVars, timer, events, mainFd,
                              ticking, poolVars, reg>>

(* "Server busy!": SendError closes the new descriptor and the loop ends.  *)
AcceptBusy == /\ pc[Main] = "accept"
              /\ backlog > 0 /\ Free # {}
              /\ Full
              /\ backlog' = backlog - 1
              /\ cutShort' = TRUE
              /\ Goto(Main, "dispatch")
              /\ UNCHANGED <<opened, edge, sock, connVars, timer, events,
                             mainFd, ticking, poolVars, reg>>

Accept(fd) == /\ pc[Main] = "accept"
              /\ backlog > 0 /\ fd \in Free
              /\ ~ Full
              /\ backlog' = backlog - 1
              /\ sock' = [sock EXCEPT ![fd] = "up"]
              /\ mainFd' = fd
              /\ Goto(Main, "init")
              /\ UNCHANGED <<opened, edge, connVars, timer, events, ticking,
                             cutShort, poolVars, reg>>

(* AddClient: HttpConn::Init.                                              *)
InitConn == /\ pc[Main] = "init"
            /\ userCount' = userCount + 1
            /\ isClose' = [isClose EXCEPT ![mainFd] = FALSE]
            /\ Goto(Main, "register")
            /\ UNCHANGED <<kernelVars, mainVars, poolVars, reg>>

TimersWith(fd) == IF Timeouts THEN timer \cup {fd} ELSE timer

(* Mutant of NextTurn: one connection is accepted in either mode.          *)
NextTurnOnce == "dispatch"

NextTurn == IF ListenET THEN "accept" ELSE "dispatch"

(* AddClient: HeapTimer::add and AddFd, which fails on a descriptor that   *)
(* somebody closed in the meantime; then the next turn of the loop.        *)
Register == /\ pc[Main] = "register"
            /\ timer' = TimersWith(mainFd)
            /\ reg' = [reg EXCEPT ![mainFd] =
                         IF sock[mainFd] = "free" THEN "none" ELSE "in"]
            /\ mainFd' = NoFd
            /\ Goto(Main, NextTurn)
            /\ UNCHANGED <<kernelVars, connVars, events, ticking, cutShort,
                           poolVars>>
-----------------------------------------------------------------------------
(* The tasks.                                                              *)

TakeTask(w) == /\ pc[w] = "idle"
               /\ Pool!Take(w)
               /\ Goto(w, Head(queue).op)
               /\ UNCHANGED <<kernelVars, connVars, mainVars, reg>>

(* HttpConn::Read, then on to OnProcess or CloseConn.  A live socket gives *)
(* data or EAGAIN, a closed descriptor EBADF.  From a socket whose peer is *)
(* gone a read may still return data, but an edge triggered connection is  *)
(* read until there is none left.                                          *)
OnRead(w) == /\ pc[w] = "read"
             /\ \/ sock[FdOf(w)] = "up" /\ Goto(w, "process")
                \/ sock[FdOf(w)] = "down" /\ ~ConnET /\ Goto(w, "process")
                \/ sock[FdOf(w)] # "up" /\ Goto(w, "del")
             /\ UNCHANGED <<kernelVars, connVars, mainVars, poolVars, reg>>

(* HttpConn::Write, then OnProcess for the next request of a connection    *)
(* that is kept alive, ModFd to write the rest, or CloseConn.              *)
OnWrite(w) == /\ pc[w] = "write"
              /\ \/ sock[FdOf(w)] # "free" /\ Goto(w, "process")
                 \/ sock[FdOf(w)] # "free" /\ Goto(w, "again")
                 \/ Goto(w, "del")
              /\ UNCHANGED <<kernelVars, connVars, mainVars, poolVars, reg>>

(* Mutant of Rearmed: a connection that waits for input is left disarmed.  *)
RearmedForOutput(was, what) == IF was = "none" \/ what = "in" THEN was ELSE what

(* epoll_ctl fails on a descriptor that is not registered.                 *)
Rearmed(was, what) == IF was = "none" THEN was ELSE what

(* ModFd, the last step of a task.  Nobody looks at its result.            *)
ModFd(w, what) ==
  /\ reg' = [reg EXCEPT ![FdOf(w)] = Rearmed(@, what)]
  /\ Pool!Finish(w)
  /\ Goto(w, "idle")
  /\ UNCHANGED <<kernelVars, connVars, mainVars>>

(* HttpConn::Process has a response to send, or waits for more of the      *)
(* request.                                                                *)
OnProcess(w) == pc[w] = "process" /\ (ModFd(w, "out") \/ ModFd(w, "in"))

WriteAgain(w) == pc[w] = "again" /\ ModFd(w, "out")
-----------------------------------------------------------------------------
MainStep == \/ TickDone
            \/ \E e \in events : \/ DispatchClose(e) \/ DispatchTask(e)
                                 \/ DispatchListen(e)
            \/ DispatchDone
            \/ AcceptFails \/ AcceptBusy \/ (\E fd \in Fds : Accept(fd))
            \/ InitConn \/ Register
            \/ CloseConn(Main)

WorkerStep(w) == \/ TakeTask(w) \/ OnRead(w) \/ OnWrite(w)
                 \/ OnProcess(w) \/ WriteAgain(w) \/ CloseConn(w)

(* Nothing to do: the main thread blocks in epoll_wait, every worker on    *)
(* the condition variable, and no peer will come.                          *)
Quiescent == /\ pc[Main] = "wait" /\ HungUp = {} /\ ~ListenReady
             /\ queue = <<>> /\ \A w \in Workers : pc[w] = "idle"
             /\ UNCHANGED vars

Next == \/ Arrive
        \/ \E fd \in Fds : PeerClose(fd) \/ TickClose(fd)
        \/ EpollWait \/ EpollTimeout
        \/ MainStep
        \/ \E w \in Workers : WorkerStep(w)
        \/ Quiescent

Spec == Init /\ [][Next]_vars

(***************************************************************************)
(* The threads are scheduled, and epoll_wait returns when there is         *)
(* something it must report.  No peer has to come, to send or to close,    *)
(* and no timer has to expire.                                             *)
(***************************************************************************)
Fairness == /\ WF_vars(MainStep)
            /\ WF_vars((HungUp # {} \/ ListenReady) /\ EpollWait)
            /\ \A w \in Workers : WF_vars(WorkerStep(w))

FairSpec == Spec /\ Fairness
-----------------------------------------------------------------------------
(* The type of each variable.                                              *)
TypeOK ==
  /\ opened \in 0 .. MaxConns /\ backlog \in 0 .. opened
  /\ edge \in BOOLEAN /\ cutShort \in BOOLEAN
  /\ sock \in [Fds -> {"free", "up", "down"}]
  /\ reg \in [Fds -> {"none", "off", "in", "out"}]
  /\ isClose \in [Fds -> BOOLEAN]
  /\ userCount \in Int /\ userCount <= MAX_FD
  /\ timer \in SUBSET Fds
  /\ events \in SUBSET [fd : Fds \cup {Listen}, what : {"hup", "in", "out"}]
  /\ queue \in Seq(Tasks)
  /\ running \in [Workers -> Tasks \cup {NoTask}]
  /\ pc \in [Threads -> {"tick", "wait", "dispatch", "accept", "init",
                          "register", "idle", "read", "write", "process",
                          "again", "del", "check", "set", "close"}]
  /\ mainFd \in Fds \cup {NoFd} /\ ticking \in BOOLEAN

(***************************************************************************)
(* HeapTimer::adjust asserts that the descriptor has a node (timer.cc:89). *)
(* The assertion cannot fail: as long as an event of a connection is       *)
(* waiting to be handled its timer is set, even if the main thread or a    *)
(* slow worker closed the connection after the event was collected, or     *)
(* the number was given to another connection since.                       *)
(***************************************************************************)
TimerForEvent ==
  Timeouts => \A e \in events : e.what # "hup" /\ e.fd # Listen => e.fd \in timer

(* Where a connection is: what will, or may, act on its HttpConn next.     *)
Places(fd) ==
  {<<"worker", w>> : w \in {v \in Workers : running[v] # NoTask
                                           /\ running[v].fd = fd}}
  \cup {<<"queue", i>> : i \in {j \in DOMAIN queue : queue[j].fd = fd}}
  \cup {<<"event", e>> : e \in {d \in events : d.fd = fd}}
  \cup {<<"main", f>> : f \in {fd} \cap {mainFd}}
  \cup {<<"armed", f>> : f \in {g \in {fd} \ {mainFd} : Armed(g)}}

(***************************************************************************)
(* A connection has one owner at a time.  An HttpConn has no lock: what    *)
(* keeps two threads off it is that its descriptor is disarmed from the    *)
(* moment an event is collected to the last step of the task, so while it  *)
(* is armed, collected, queued, served or closed it is only one of these.  *)
(***************************************************************************)
Exclusive == \A fd \in Fds : \A p, q \in Places(fd) : p = q

(***************************************************************************)
(* No connection is forgotten: every open descriptor is armed, or an event *)
(* of it is to be handled, or a task, or somebody works on it.  A task     *)
(* that returned without arming or closing its descriptor would leak it.   *)
(***************************************************************************)
NoOrphan == \A fd \in Fds : sock[fd] # "free" => Places(fd) # {}

(* Connections that count: accepted, and not past m_user_count-- yet.      *)
Counted == {fd \in Fds : ~ isClose[fd]}

(***************************************************************************)
(* m_user_count is "the number of connected users" (http_conn.hpp:62):     *)
(* the connections that are open, but for those being set up or closed.    *)
(***************************************************************************)
UserCountExact ==
  /\ userCount = Cardinality(Counted)
  /\ \A fd \in Counted : sock[fd] # "free"
  /\ \A fd \in Fds \ Counted : sock[fd] = "free" \/ \E t \in Threads :
        pc[t] \in {"init", "close"} /\ FdOf(t) = fd

(***************************************************************************)
(* A close(2) always closes the connection CloseConn was called for: the   *)
(* descriptor cannot have been closed, and given to another connection,    *)
(* between the test of m_isClose and the close.                            *)
(***************************************************************************)
ClosesOwnConnection ==
  \A t \in Threads : pc[t] = "close" => isClose[FdOf(t)] /\ sock[FdOf(t)] # "free"

(***************************************************************************)
(* An edge triggered listenFd is reported once per arrival, so DealListen  *)
(* must take all that is pending.  A pending connection is only ever left  *)
(* without an event to come if the last accept loop ended for want of a    *)
(* descriptor or because of MAX_FD.                                        *)
(***************************************************************************)
NoStrandedBacklog ==
  backlog > 0 =>
    \/ ListenReady \/ cutShort
    \/ \E e \in events : e.fd = Listen
    \/ pc[Main] \in {"accept", "init", "register"}

(* A connection whose peer is gone is eventually closed by the server.     *)
HangUpsAreClosed ==
  \A fd \in Fds : (sock[fd] = "down") ~> (sock[fd] = "free")

(***************************************************************************)
(* With a level triggered listenFd no connection waits for ever in the     *)
(* backlog while there is room for it.                                     *)
(***************************************************************************)
AcceptsWhileRoom ==
  []<>(backlog = 0 \/ Free = {} \/ Full)
=============================================================================
