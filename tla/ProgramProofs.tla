--------------------------- MODULE ProgramProofs ---------------------------
(***************************************************************************)
(* Theorems about Program, its log included, for any writers, any set of   *)
(* ports, any capacity, any number of lines and of days.                   *)
(*                                                                         *)
(* The inductive invariant IInv says where main and the threads may be     *)
(* (Stages), who holds mtx_ (Holders), what the descriptors refer to       *)
(* (Descriptors), what InitSocket has done (SetUp), when the file is open  *)
(* (Opened) and which day its name is of (Dated).  LineInv adds that each  *)
(* line is in one place (Once), with the range of the numbers of the lines *)
(* and who may have one in hand (Numbered), and when the deque stays empty *)
(* (Disused).  LossInv adds the balance of the lines (Balanced), that the  *)
(* log has a descriptor (LogOpen) and what has left the buffer of stdio    *)
(* (FlushedSoFar); TypesInv the rest of the types.                         *)
(***************************************************************************)
EXTENDS Program, WellFoundedInduction, FiniteSetTheorems, FunctionTheorems,
        SequenceTheorems, TLAPS

(* What main has done of InitSocket when it comes to a call.               *)
Done == [linger    |-> {},
         reuseaddr |-> {"linger"},
         bind      |-> {"linger", "reuseaddr"},
         listen    |-> {"linger", "reuseaddr", "bind"},
         add       |-> {"linger", "reuseaddr", "bind", "listen"},
         nonblock  |-> {"linger", "reuseaddr", "bind", "listen", "add"}]

(* The log is not open yet.                                                *)
Early == SocketCalls \cup {"port", "socket", "nonblock", "openlog"}

Places == Early \cup {"report", "loop", "leave", "exit"}

Leaving == {"drain", "close", "notify", "join", "end"}

Writing == {"idle", "check", "lines", "touch", "rename", "newDay", "restart", "newPart",
            "fclose", "fopen", "count", "push", "fputs", "flush", "fflush", "killed"}

TypedP == /\ pc \in Places
          /\ at \in [Threads -> Writing \cup Leaving \cup {"pop", "done"}]
          /\ mtx \in Threads \cup {Nobody}
          /\ deq \in Seq(Nat)
          /\ line \in [Threads -> Nat]
          /\ counted \in Nat
          /\ day \in Nat \ {0}
          /\ today \in [Producers -> Nat]
          /\ lineCount \in Nat
          /\ toDay \in Nat
          /\ newFile \in [Producers -> [day : Nat, part : Int]]
          /\ fp \in [day : Nat, part : Int]
          /\ files \in [Fds -> {"free", "epoll", "socket", "log"}]
          /\ crossed \in BOOLEAN
          /\ serverIsClose \in BOOLEAN

Stages == /\ \A w \in Producers : at[w] \in Writing \cup Leaving
          /\ at[Flusher] \in {"pop", "fputs", "done"}
          /\ pc \in Early => /\ at[Flusher] = "done" /\ fp = Closed
                             /\ \A w \in Producers : at[w] = "idle"
          /\ pc # "loop" => \A w \in Producers \ {Main} : at[w] = "idle"
          /\ \A w \in Producers : at[w] \in Leaving => w = Main /\ pc = "exit"
          /\ pc \in {"leave", "exit"} => at[Main] \in Leaving \cup {"idle"}
          /\ at[Main] = "end" => at[Flusher] = "done"

Holders == \A w \in Producers :
             /\ at[w] \in {"push", "fputs", "fopen"} => mtx = w
             /\ at[w] = "push" => Len(deq) < Capacity

SetUp == /\ pc \in SocketCalls \cup {"port", "socket", "nonblock", "loop"} => ~serverIsClose
         /\ pc \in {"leave", "exit"} => serverIsClose
         /\ pc \in SocketCalls \cup {"nonblock"} => setUp = Done[pc]
         /\ pc = "socket" => setUp = {}
         /\ pc = "port" => setUp = {}
         /\ pc \in {"openlog", "report", "loop"} /\ ~serverIsClose => SocketCalls \subseteq setUp

Descriptors ==
  /\ \A f \in Fds : files[f] = "epoll" => f = Min(Fds)
  /\ \A f \in Fds : files[f] = "socket" =>
       f = listenFd /\ ~serverIsClose /\ pc \notin {"port", "socket"}
  /\ ~serverIsClose /\ pc \notin {"port", "socket"} =>
       listenFd \in Fds /\ files[listenFd] = "socket"
  /\ pc \in Early \/ (\E w \in Producers : at[w] = "fopen") =>
       \A f \in Fds : files[f] # "log"

Opened == fp = Closed => \/ pc \in Early \/ ~Alive \/ at[Main] = "end"
                         \/ \E w \in Producers : at[w] = "fopen"

Dated ==
  /\ \A w \in Producers :
       /\ at[w] \in {"check", "lines", "touch", "rename", "newDay", "newPart"} => today[w] # 0
       /\ at[w] \in {"restart", "fclose", "fopen"} => newFile[w].day # 0
  /\ ~crossed =>
       /\ \A v, w \in Changing : v = w
       /\ \A w \in Producers :
            /\ at[w] = "newPart" => today[w] = toDay
            /\ at[w] \in {"restart", "fclose", "fopen"} => newFile[w].day = toDay
       /\ fp # Closed =>
            fp.day = toDay \/ \E w \in Producers : at[w] \in {"restart", "fclose"}

IInv == TypedP /\ Stages /\ Holders /\ SetUp /\ Descriptors /\ Opened /\ Dated
-----------------------------------------------------------------------------
(* The operands of ProgramNext, for the proofs by cases.                   *)
ServerStep == CheckPort \/ InitSocket \/ InitLog \/ Start \/ DestroyServer \/ Exit

BeginStep(w) == /\ Begin(w) /\ UNCHANGED serverVars
                /\ pc # "loop" => pc = "report" /\ w = Main

Spurious == Alive /\ SpuriousWakeup(Flusher) /\ UNCHANGED logVars

LEMMA Cases ==
  ASSUME [ProgramNext]_programVars
  PROVE  \/ ServerStep
         \/ \E w \in Producers : BeginStep(w) \/ (Write(w) /\ UNCHANGED serverVars)
         \/ (AsyncWrite \/ Spurious \/ Destructor \/ Midnight) /\ UNCHANGED serverVars
         \/ UNCHANGED programVars
<1>1. CASE Report \/ Loop
  BY <1>1, MainAssumption DEF Report, Loop, BeginStep
<1>2. CASE LogStep /\ UNCHANGED serverVars
  BY <1>2 DEF LogStep, Spurious
<1> QED
  BY <1>1, <1>2 DEF ProgramNext, ServerStep

LEMMA Persons ==
  /\ Main \in Producers /\ Main \in Threads /\ Flusher \in Threads
  /\ Flusher \notin Producers /\ Producers \subseteq Threads
  /\ Threads = Producers \cup {Flusher} /\ Nobody \notin Threads
BY ThreadsAssumption, FlusherAssumption, MainAssumption DEF Threads

(* Every step preserves the types.                                         *)
LEMMA TypedStep == TypedP /\ [ProgramNext]_programVars => TypedP'
<1> SUFFICES ASSUME TypedP, [ProgramNext]_programVars PROVE TypedP'
  OBVIOUS
<1> USE CapacityAssumption, LinesAssumption, Persons DEF TypedP
<1>1. CASE CheckPort
  <2>1. \/ pc' = "socket" /\ UNCHANGED serverIsClose
        \/ pc' = "openlog" /\ serverIsClose' = TRUE
    BY <1>1 DEF CheckPort, InitSocketFails
  <2>2. pc' \in Places /\ serverIsClose' \in BOOLEAN
    BY <2>1 DEF Places, Early
  <2>3. UNCHANGED <<dequeVars, logVars>>
    BY <1>1 DEF CheckPort
  <2> QED
    BY <2>2, <2>3 DEF dequeVars, logVars, lineVars, clockVars, nameVars, fileVars
<1>2. CASE InitSocket
  BY <1>2 DEF InitSocket, Socket, SocketFails, Configure, ConfigureFails, SetFdNonblock,
              InitSocketFails, GoTo, With, Without, dequeVars, lineVars, clockVars, nameVars,
              Places, Early, SocketCalls
<1>3. CASE InitLog
  <2>1. OpenLog(TRUE) \/ OpenLog(FALSE)
    BY <1>3 DEF InitLog
  <2>2. /\ pc' \in Places /\ UNCHANGED serverIsClose
        /\ UNCHANGED <<deq, mtx, line, counted, day, today, newFile, crossed>>
        /\ toDay' = day /\ lineCount' = 0
    BY <1>3, <2>1 DEF InitLog, GoTo, OpenLog, Free, dequeVars, lineVars, clockVars, Places
  <2>3. CASE OpenLog(TRUE)
    <3>1. fp' \in [day : Nat, part : Int]
      BY <2>3 DEF OpenLog
    <3>2. files' \in [Fds -> {"free", "epoll", "socket", "log"}]
      BY <2>3 DEF OpenLog, With
    <3>3. at' \in [Threads -> Writing \cup Leaving \cup {"pop", "done"}]
      BY <2>3 DEF OpenLog
    <3> QED
      BY <2>2, <3>1, <3>2, <3>3
  <2>4. CASE OpenLog(FALSE)
    <3>1. UNCHANGED <<fp, files>>
      BY <2>4 DEF OpenLog, fileVars
    <3>2. at' \in [Threads -> Writing \cup Leaving \cup {"pop", "done"}]
      BY <2>4 DEF OpenLog, Writing
    <3> QED
      BY <2>2, <3>1, <3>2
  <2> QED
    BY <2>1, <2>3, <2>4
<1>4. CASE Start
  BY <1>4 DEF Start, GoTo, dequeVars, logVars, lineVars, clockVars, nameVars, fileVars, Places
<1>5. CASE DestroyServer
  BY <1>5 DEF DestroyServer, GoTo, dequeVars, lineVars, clockVars, nameVars, Places
<1>6. CASE Exit
  BY <1>6 DEF Exit, Destroy, Step, serverVars, dequeVars, lineVars, clockVars, nameVars,
              fileVars, Leaving
<1>7. ASSUME NEW w \in Producers, BeginStep(w) PROVE TypedP'
  BY <1>7 DEF BeginStep, Begin, Free, Step, serverVars, dequeVars, lineVars, nameVars, fileVars,
              Writing
<1>8. ASSUME NEW w \in Producers, Write(w), UNCHANGED serverVars PROVE TypedP'
  <2>1. CASE Check(w) \/ Touch(w)
    BY <1>8, <2>1 DEF Check, CheckDay, CheckLines, Touch, Free, Step, serverVars, dequeVars,
                      lineVars, clockVars, nameVars, fileVars, Writing
  <2>8. CASE NotifyFlusher(w)
    BY <1>8, <2>8 DEF NotifyFlusher, FlushDeque, Flush, Step, serverVars, dequeVars,
                      lineVars, clockVars, nameVars, fileVars, Writing
  <2>10. CASE FopenFails(w)
    BY <1>8, <2>10 DEF FopenFails, Step, serverVars, dequeVars, lineVars, clockVars,
                       nameVars, fileVars, Writing
  <2>9. CASE FlushLine(w)
    <3>1. \E there \in {"idle", "killed"} : at' = [at EXCEPT ![w] = there]
      BY <2>9 DEF FlushLine, Step
    <3>2. at' \in [Threads -> Writing \cup Leaving \cup {"pop", "done"}]
      BY <3>1 DEF Writing
    <3>3. UNCHANGED <<dequeVars, mtx, lineVars, clockVars, nameVars, fileVars>>
      BY <2>9 DEF FlushLine
    <3> QED
      BY <1>8, <3>2, <3>3 DEF serverVars, dequeVars, lineVars, clockVars, nameVars, fileVars
  <2>2. CASE Rename(w)
    <3>1. UNCHANGED <<pc, mtx, deq, line, counted, day, today, fp, files, serverIsClose>>
      BY <1>8, <2>2 DEF Rename, TestDay, NewDay, Restart, NewPart, serverVars, dequeVars,
                        lineVars, clockVars, fileVars
    <3>2. at' \in [Threads -> Writing \cup Leaving \cup {"pop", "done"}]
      BY <2>2 DEF Rename, TestDay, NewDay, Restart, NewPart, Step, Writing
    <3>3. crossed' \in BOOLEAN /\ lineCount' \in Nat /\ toDay' \in Nat
      <4>1. CASE TestDay(w)
        <5>1. crossed' = (crossed \/ Changing # {})
          BY <4>1 DEF TestDay
        <5>2. crossed' \in BOOLEAN
          BY <5>1, Zenon
        <5>3. lineCount' \in Nat /\ toDay' \in Nat
          BY <4>1 DEF TestDay
        <5> QED
          BY <5>2, <5>3
      <4>2. CASE NewDay(w)
        BY <4>2 DEF NewDay
      <4>3. CASE NewPart(w)
        BY <4>3 DEF NewPart
      <4>4. CASE Restart(w)
        BY <4>4 DEF Restart
      <4> QED
        BY <2>2, <4>1, <4>2, <4>3, <4>4 DEF Rename
    <3>4. newFile' \in [Producers -> [day : Nat, part : Int]]
      <4>1. CASE NewDay(w)
        BY <4>1 DEF NewDay
      <4>2. CASE NewPart(w)
        <5>1. lineCount \div MAX_LINES \in Int
          OBVIOUS
        <5> QED
          BY <4>2, <5>1 DEF NewPart
      <4>3. CASE TestDay(w) \/ Restart(w)
        BY <4>3 DEF TestDay, Restart
      <4> QED
        BY <2>2, <4>1, <4>2, <4>3 DEF Rename
    <3> QED
      BY <3>1, <3>2, <3>3, <3>4
  <2>3. CASE Fclose(w)
    BY <1>8, <2>3, SMTT(30) DEF Fclose, Lock, FlushDeque, Flush, Closed, Without, Step,
                                serverVars, dequeVars, lineVars, clockVars, nameVars, Writing
  <2>4. CASE Fopen(w)
    <3>1. Closed \in [day : Nat, part : Int]
      BY DEF Closed
    <3>2. /\ newFile' \in [Producers -> [day : Nat, part : Int]]
          /\ fp' \in [day : Nat, part : Int]
      BY <2>4, <3>1 DEF Fopen
    <3> QED
      BY <1>8, <2>4, <3>2
      DEF Fopen, Unlock, With, Step, serverVars, dequeVars, lineVars, clockVars, Writing
  <2>5. CASE Count(w)
    BY <1>8, <2>5, SMTT(30) DEF Count, Lock, Step, NoDay, serverVars, dequeVars, fileVars,
                                Writing
  <2>6. CASE Push(w)
    BY <1>8, <2>6, SMTT(30) DEF Push, PushBack, Unlock, Step, NoLine, serverVars, clockVars,
                                nameVars, fileVars, Writing
  <2>7. CASE Fputs(w)
    BY <1>8, <2>7 DEF Fputs, Unlock, Step, NoLine, serverVars, dequeVars, clockVars, nameVars,
                      fileVars, Writing
  <2> QED
    BY <1>8, <2>1, <2>2, <2>3, <2>4, <2>5, <2>6, <2>7, <2>8, <2>9, <2>10 DEF Write
<1>9. CASE AsyncWrite /\ UNCHANGED serverVars
  <2>1. CASE Take
    <3>1. deq' \in Seq(Nat) /\ Head(deq) \in Nat
      BY <2>1, SMTT(30) DEF Take, Pop, Empty
    <3> QED
      BY <1>9, <2>1, <3>1
      DEF Take, Pop, Step, serverVars, clockVars, nameVars, fileVars, Writing
  <2>2. CASE Sleep
    BY <1>9, <2>2 DEF Sleep, PopWaits, serverVars, logVars, lineVars, clockVars, nameVars,
                      fileVars
  <2>3. CASE Leave
    BY <1>9, <2>3 DEF Leave, PopClosed, Step, serverVars, lineVars, clockVars, nameVars,
                      fileVars
  <2>4. CASE PutLine
    BY <1>9, <2>4 DEF PutLine, Free, Step, NoLine, serverVars, dequeVars, clockVars, nameVars,
                      fileVars
  <2> QED
    BY <1>9, <2>1, <2>2, <2>3, <2>4 DEF AsyncWrite
<1>10. CASE Destructor /\ UNCHANGED serverVars
  <2>1. CASE Drain
    BY <1>10, <2>1 DEF Drain, Flush, serverVars, logVars, lineVars, clockVars, nameVars,
                       fileVars
  <2>2. CASE Drained
    BY <1>10, <2>2 DEF Drained, Step, serverVars, dequeVars, lineVars, clockVars, nameVars,
                       fileVars, Leaving
  <2>3. CASE CloseDeque
    BY <1>10, <2>3, SMTT(30) DEF CloseDeque, Close, Step, serverVars, lineVars, clockVars,
                                 nameVars, fileVars, Leaving
  <2>4. CASE NotifyAll
    BY <1>10, <2>4 DEF NotifyAll, CloseNotify, Step, serverVars, lineVars, clockVars, nameVars,
                       fileVars, Leaving
  <2>5. CASE Join
    BY <1>10, <2>5, SMTT(30) DEF Join, Free, FlushDeque, Flush, Without, Closed, Step,
                                 serverVars, dequeVars, lineVars, clockVars, nameVars, Leaving
  <2> QED
    BY <1>10, <2>1, <2>2, <2>3, <2>4, <2>5 DEF Destructor
<1>11. CASE Spurious /\ UNCHANGED serverVars
  BY <1>11 DEF Spurious, SpuriousWakeup, serverVars, logVars, lineVars, clockVars, nameVars,
               fileVars
<1>12. CASE Midnight /\ UNCHANGED serverVars
  BY <1>12 DEF Midnight, serverVars, dequeVars, lineVars, nameVars, fileVars
<1>13. CASE UNCHANGED programVars
  BY <1>13 DEF programVars, serverVars, dequeVars, logVars, lineVars, clockVars, nameVars,
               fileVars
<1> QED
  BY <1>1, <1>2, <1>3, <1>4, <1>5, <1>6, <1>7, <1>8, <1>9, <1>10, <1>11, <1>12, <1>13, Cases
  DEF ServerStep
-----------------------------------------------------------------------------
(* Only main touches its own place, the socket and serverIsClose.          *)
LEMMA SetUpStep == TypedP /\ SetUp /\ [ProgramNext]_programVars => SetUp'
<1> SUFFICES ASSUME TypedP, SetUp, [ProgramNext]_programVars PROVE SetUp'
  OBVIOUS
<1> USE DEF SetUp
<1>1. CASE CheckPort
  BY <1>1 DEF CheckPort, InitSocketFails, SocketCalls
<1>2. CASE InitSocket
  <2>1. CASE Socket \/ SocketFails
    BY <2>1 DEF Socket, SocketFails, InitSocketFails, GoTo, SocketCalls, Done
  <2>2. CASE \/ Configure("linger", "reuseaddr") \/ Configure("reuseaddr", "bind")
             \/ Configure("bind", "listen") \/ Configure("listen", "add")
             \/ Configure("add", "nonblock")
    BY <2>2 DEF Configure, GoTo, SocketCalls, Done
  <2>3. ASSUME NEW call \in SocketCalls, ConfigureFails(call)
        PROVE  SetUp'
    BY <2>3 DEF ConfigureFails, InitSocketFails, SocketCalls
  <2>4. CASE SetFdNonblock
    BY <2>4 DEF SetFdNonblock, GoTo, SocketCalls, Done
  <2> QED
    BY <1>2, <2>1, <2>2, <2>3, <2>4 DEF InitSocket
<1>3. CASE InitLog
  BY <1>3 DEF InitLog, GoTo, SocketCalls
<1>4. CASE Start
  BY <1>4 DEF Start, GoTo, SocketCalls, TypedP
<1>5. CASE DestroyServer
  BY <1>5 DEF DestroyServer, GoTo, SocketCalls
<1>6. CASE UNCHANGED serverVars
  BY <1>6 DEF serverVars
<1>7. CASE UNCHANGED programVars
  BY <1>6, <1>7 DEF programVars
<1> QED
  BY <1>1, <1>2, <1>3, <1>4, <1>5, <1>6, <1>7, Cases DEF ServerStep, BeginStep, Exit

(* A thread that writes a line moves, and moves nobody else.               *)
LEMMA WriteMoves ==
  ASSUME TypedP, NEW w \in Producers, Write(w)
  PROVE  /\ Alive /\ at[w] \in Writing \ {"idle", "killed"}
         /\ \E there \in Writing : at' = [at EXCEPT ![w] = there]
<1> USE DEF Step, Writing
<1>1. CASE Check(w)
  BY <1>1 DEF Check, CheckDay, CheckLines
<1>2. CASE Touch(w) \/ Rename(w) \/ Fclose(w)
  BY <1>2 DEF Touch, Rename, TestDay, NewDay, Restart, NewPart, Fclose
<1>3. CASE Fopen(w) \/ FopenFails(w)
  BY <1>3 DEF Fopen, FopenFails
<1>4. CASE Count(w)
  BY <1>4 DEF Count
<1>5. CASE Push(w) \/ Fputs(w) \/ NotifyFlusher(w)
  BY <1>5 DEF Push, Fputs, NotifyFlusher
<1>6. CASE FlushLine(w)
  BY <1>6 DEF FlushLine
<1> QED
  BY <1>1, <1>2, <1>3, <1>4, <1>5, <1>6 DEF Write

(* The stages of main and of the threads follow each other.                *)
LEMMA StagesStep ==
  TypedP /\ Stages /\ SetUp /\ [ProgramNext]_programVars => Stages'
<1> SUFFICES ASSUME TypedP, Stages, SetUp, [ProgramNext]_programVars PROVE Stages'
  OBVIOUS
<1> USE Persons DEF Stages
<1>0. at \in [Threads -> Writing \cup Leaving \cup {"pop", "done"}] /\ pc \in Places
  BY DEF TypedP
<1>1. CASE CheckPort
  BY <1>1 DEF CheckPort, InitSocketFails, logVars, fileVars, Early
<1>2. CASE InitSocket
  <2>1. UNCHANGED <<at, fp>>
    BY <1>2 DEF InitSocket
  <2>2. pc \in Early /\ pc' \in Early
    BY <1>2 DEF InitSocket, Socket, SocketFails, Configure, ConfigureFails,
                SetFdNonblock, InitSocketFails, GoTo, SocketCalls, Early
  <2> QED
    BY <2>1, <2>2 DEF Early, SocketCalls
<1>3. CASE InitLog
  <2>1. pc = "openlog" /\ pc' = "report" /\ (OpenLog(TRUE) \/ OpenLog(FALSE))
    BY <1>3 DEF InitLog, GoTo
  <2>2. pc \in Early /\ pc' \notin Early
    BY <2>1 DEF Early, SocketCalls
  <2>3. \/ \E s \in {"pop", "done"} : at' = [at EXCEPT ![Flusher] = s]
        \/ at' = [at EXCEPT ![Main] = "killed"]
    <3>1. CASE OpenLog(TRUE)
      BY <3>1 DEF OpenLog
    <3>2. CASE OpenLog(FALSE)
      BY <3>2 DEF OpenLog
    <3> QED
      BY <2>1, <3>1, <3>2
  <2> QED
    BY <1>0, <2>1, <2>2, <2>3 DEF Writing, Leaving
<1>4. CASE Start
  BY <1>4 DEF Start, GoTo, logVars, fileVars, Early, SocketCalls
<1>5. CASE DestroyServer
  BY <1>5 DEF DestroyServer, GoTo, Early, SocketCalls
<1>6. CASE Exit
  <2>1. /\ pc = "exit" /\ UNCHANGED <<pc, fp>> /\ at[Main] = "idle"
        /\ \E s \in {"drain", "join"} : at' = [at EXCEPT ![Main] = s]
    BY <1>6 DEF Exit, Destroy, Step, serverVars, fileVars
  <2> QED
    BY <1>0, <2>1 DEF Leaving, Early, SocketCalls
<1>7. ASSUME NEW w \in Producers, BeginStep(w) PROVE Stages'
  <2>1. /\ pc \in {"loop", "report"} /\ (pc # "loop" => w = Main)
        /\ UNCHANGED <<pc, fp>> /\ at' = [at EXCEPT ![w] = "check"] /\ at[w] = "idle"
    BY <1>7 DEF BeginStep, Begin, Step, serverVars, fileVars
  <2> QED
    BY <1>0, <2>1 DEF Writing, Early, SocketCalls, Leaving
<1>8. ASSUME NEW w \in Producers, Write(w), UNCHANGED serverVars PROVE Stages'
  <2>1. PICK there \in Writing : at' = [at EXCEPT ![w] = there]
    BY <1>8, WriteMoves
  <2>2. at[w] \in Writing \ {"idle", "killed"} /\ at[w] \notin Leaving
    BY <1>8, WriteMoves DEF Writing, Leaving
  <2>3. pc \notin Early /\ UNCHANGED pc /\ (pc # "loop" => w = Main)
    BY <1>8, <2>2 DEF Writing, serverVars
  <2>4. pc \notin {"leave", "exit"} /\ at[Main] \notin Leaving
    BY <2>2, <2>3 DEF Writing, Leaving
  <2> QED
    BY <1>0, <2>1, <2>2, <2>3, <2>4 DEF Writing, Leaving
<1>9. CASE AsyncWrite /\ UNCHANGED serverVars
  <2>1. /\ UNCHANGED <<pc, fp>> /\ at[Flusher] # "done"
        /\ \/ UNCHANGED at
           \/ \E s \in {"pop", "fputs", "done"} : at' = [at EXCEPT ![Flusher] = s]
    BY <1>9 DEF AsyncWrite, Take, Sleep, Leave, PutLine, Step, serverVars, logVars, fileVars
  <2> QED
    BY <1>0, <2>1 DEF Leaving, Writing
<1>10. CASE Destructor /\ UNCHANGED serverVars
  <2>1. /\ UNCHANGED pc /\ at[Main] \in Leaving
        /\ \/ UNCHANGED at
           \/ \E s \in Leaving : /\ at' = [at EXCEPT ![Main] = s]
                                 /\ s = "end" => at[Flusher] = "done"
    BY <1>10 DEF Destructor, Drain, Drained, CloseDeque, NotifyAll, Join, Step,
                 serverVars, logVars, Leaving
  <2>2. pc = "exit" /\ pc \notin Early
    BY <2>1 DEF Early, SocketCalls
  <2>3. CASE UNCHANGED at
    BY <2>1, <2>2, <2>3
  <2>4. ASSUME NEW s \in Leaving, at' = [at EXCEPT ![Main] = s],
               s = "end" => at[Flusher] = "done"
        PROVE  Stages'
    BY <1>0, <2>1, <2>2, <2>4
  <2> QED
    BY <2>1, <2>3, <2>4
<1>11. CASE (Spurious \/ Midnight) /\ UNCHANGED serverVars
  BY <1>11 DEF Spurious, Midnight, serverVars, logVars, fileVars
<1>12. CASE UNCHANGED programVars
  BY <1>12 DEF programVars, serverVars, logVars, fileVars
<1> QED
  BY <1>1, <1>2, <1>3, <1>4, <1>5, <1>6, <1>7, <1>8, <1>9, <1>10, <1>11, <1>12, Cases
  DEF ServerStep
-----------------------------------------------------------------------------
(* A step that is not of a producer brings no producer to a place where it *)
(* holds mtx_ or changes the file, and takes none from there.              *)
Aside == {"push", "fputs", "fclose", "fopen", "check", "lines", "touch", "rename", "newDay",
          "restart", "newPart"}

LEMMA OthersMove ==
  ASSUME TypedP, Stages,
         \/ ServerStep
         \/ (AsyncWrite \/ Spurious \/ Destructor \/ Midnight) /\ UNCHANGED serverVars
         \/ UNCHANGED programVars
  PROVE  \A w \in Producers : at[w] \in Aside \/ at'[w] \in Aside => at[w] = at'[w]
<1> USE Persons DEF TypedP, Aside, Step
<1>1. CASE CheckPort \/ InitSocket \/ Start \/ DestroyServer
  BY <1>1 DEF CheckPort, InitSocket, Start, DestroyServer, logVars
<1>2. CASE InitLog
  <2>0. at[Main] = "idle"
    BY <1>2 DEF InitLog, GoTo, Stages, Early
  <2>1. CASE OpenLog(TRUE)
    BY <2>1 DEF OpenLog
  <2>2. CASE OpenLog(FALSE)
    BY <2>0, <2>2 DEF OpenLog
  <2> QED
    BY <1>2, <2>1, <2>2 DEF InitLog
<1>3. CASE Exit
  BY <1>3 DEF Exit, Destroy
<1>4. CASE AsyncWrite
  BY <1>4 DEF AsyncWrite, Take, Sleep, Leave, PutLine, logVars
<1>5. CASE Spurious \/ Midnight \/ UNCHANGED programVars
  BY <1>5 DEF Spurious, Midnight, logVars, programVars
<1>6. CASE Destructor
  BY <1>6, SMTT(30) DEF Destructor, Drain, Drained, CloseDeque, NotifyAll, Join, logVars
<1> QED
  BY <1>1, <1>2, <1>3, <1>4, <1>5, <1>6 DEF ServerStep

(* Nor does it take mtx_, or make the deque longer.                        *)
LEMMA OthersHold ==
  ASSUME TypedP, Stages,
         \/ ServerStep
         \/ (AsyncWrite \/ Spurious \/ Destructor \/ Midnight) /\ UNCHANGED serverVars
         \/ UNCHANGED programVars
  PROVE  UNCHANGED mtx /\ (Len(deq) < Capacity => Len(deq') < Capacity)
<1> USE CapacityAssumption DEF TypedP, Free
<1>1. CASE CheckPort \/ Start
  BY <1>1 DEF CheckPort, Start, logVars, dequeVars
<1>2. CASE InitSocket \/ DestroyServer
  BY <1>2 DEF InitSocket, DestroyServer, dequeVars
<1>3. CASE InitLog
  BY <1>3 DEF InitLog, OpenLog, dequeVars
<1>4. CASE Exit
  BY <1>4 DEF Exit, Destroy, dequeVars
<1>5. CASE Take
  BY <1>5 DEF Take, Pop, Empty
<1>6. CASE Sleep \/ Leave \/ PutLine
  BY <1>6 DEF Sleep, Leave, PutLine, PopWaits, PopClosed, dequeVars, logVars
<1>7. CASE Drain \/ Drained \/ NotifyAll
  BY <1>7 DEF Drain, Drained, NotifyAll, Flush, CloseNotify, dequeVars, logVars
<1>8. CASE CloseDeque
  BY <1>8 DEF CloseDeque, Close
<1>9. CASE Join
  BY <1>9 DEF Join, FlushDeque, Flush, dequeVars
<1>10. CASE Spurious \/ Midnight \/ UNCHANGED programVars
  BY <1>10 DEF Spurious, SpuriousWakeup, Midnight, dequeVars, logVars, programVars
<1> QED
  BY <1>1, <1>2, <1>3, <1>4, <1>5, <1>6, <1>7, <1>8, <1>9, <1>10
  DEF ServerStep, AsyncWrite, Destructor

(* A thread holds mtx_ from full() to push_back, so its room stays free.   *)
LEMMA HoldersStep ==
  TypedP /\ Stages /\ Holders /\ [ProgramNext]_programVars => Holders'
<1> SUFFICES ASSUME TypedP, Stages, Holders, [ProgramNext]_programVars,
                    NEW v \in Producers
             PROVE  /\ at'[v] \in {"push", "fputs", "fopen"} => mtx' = v
                    /\ at'[v] = "push" => Len(deq') < Capacity
  BY DEF Holders
<1> USE Persons, CapacityAssumption DEF Step
<1>0. /\ at \in [Threads -> Writing \cup Leaving \cup {"pop", "done"}]
      /\ deq \in Seq(Nat)
      /\ at[v] \in {"push", "fputs", "fopen"} => mtx = v
      /\ at[v] = "push" => Len(deq) < Capacity
  BY DEF TypedP, Holders
<1>1. ASSUME NEW w \in Producers, BeginStep(w)
      PROVE  UNCHANGED <<mtx, deq>> /\ at' = [at EXCEPT ![w] = "check"]
  BY <1>1 DEF BeginStep, Begin, Free, dequeVars
<1>2. ASSUME NEW w \in Producers, Write(w)
      PROVE  /\ at'[v] \in {"push", "fputs", "fopen"} => mtx' = v
             /\ at'[v] = "push" => Len(deq') < Capacity
  <2>1. CASE Check(w) \/ Rename(w) \/ FopenFails(w)
    BY <1>0, <2>1 DEF Check, CheckDay, CheckLines, Rename, TestDay, NewDay, Restart, NewPart,
                      FopenFails, dequeVars
  <2>2. CASE Touch(w)
    BY <1>0, <2>2 DEF Touch, Free, dequeVars
  <2>3. CASE NotifyFlusher(w)
    BY <1>0, <2>3 DEF NotifyFlusher, FlushDeque, Flush, dequeVars
  <2>4. CASE FlushLine(w)
    BY <1>0, <2>4 DEF FlushLine, dequeVars
  <2>5. CASE Fclose(w)
    BY <1>0, <2>5 DEF Fclose, Lock, FlushDeque, Flush, dequeVars
  <2>6. CASE Fopen(w)
    BY <1>0, <2>6 DEF Fopen, Unlock, dequeVars
  <2>7. CASE Count(w)
    BY <1>0, <2>7 DEF Count, Lock, Full, dequeVars
  <2>8. CASE Push(w)
    BY <1>0, <2>8 DEF Push, Unlock
  <2>9. CASE Fputs(w)
    BY <1>0, <2>9 DEF Fputs, Unlock, dequeVars
  <2> QED
    BY <1>2, <2>1, <2>2, <2>3, <2>4, <2>5, <2>6, <2>7, <2>8, <2>9 DEF Write
<1>3. CASE \/ ServerStep
           \/ (AsyncWrite \/ Spurious \/ Destructor \/ Midnight) /\ UNCHANGED serverVars
           \/ UNCHANGED programVars
  BY <1>0, <1>3, OthersMove, OthersHold DEF Aside
<1>4. ASSUME NEW w \in Producers, BeginStep(w)
      PROVE  /\ at'[v] \in {"push", "fputs", "fopen"} => mtx' = v
             /\ at'[v] = "push" => Len(deq') < Capacity
  BY <1>0, <1>1, <1>4
<1> QED
  BY <1>2, <1>3, <1>4, Cases
-----------------------------------------------------------------------------
(* The least of a set of numbers.                                          *)
LEMMA Least ==
  ASSUME NEW S \in SUBSET Nat, S # {}
  PROVE  Min(S) \in S
<1> DEFINE R == OpToRel(<, Nat)
<1>1. IsWellFoundedOn(R, Nat)
  BY NatLessThanWellFounded
<1>2. \A x, y \in Nat : x < y => <<x, y>> \in R
  BY DEF OpToRel
<1> HIDE DEF R
<1>3. PICK x \in S : \A y \in S : ~(<<y, x>> \in R)
  BY <1>1, WFMin
<1>4. ASSUME NEW y \in S PROVE x <= y
  <2>1. x \in Nat /\ y \in Nat
    OBVIOUS
  <2>2. ~(y < x)
    BY <1>2, <1>3, <2>1, Zenon
  <2> QED
    BY <2>1, <2>2
<1> QED
  BY <1>4 DEF Min

(* There are descriptors besides any two.                                  *)
LEMMA ThirdFd ==
  ASSUME NEW a, NEW b
  PROVE  \E f \in Fds : f # a /\ f # b
<1>1. IsFiniteSet({a}) /\ Cardinality({a}) = 1
  BY FS_Singleton
<1>2. IsFiniteSet({a} \cup {b}) /\ Cardinality({a} \cup {b}) <= 2
  <2>1. CASE b \in {a}
    BY <1>1, <2>1, FS_AddElement
  <2>2. CASE b \notin {a}
    BY <1>1, <2>2, FS_AddElement
  <2> QED
    BY <2>1, <2>2
<1>3. ASSUME Fds \subseteq {a} \cup {b} PROVE FALSE
  <2>1. Cardinality(Fds) <= Cardinality({a} \cup {b})
    BY <1>2, <1>3, FS_Subset
  <2>2. /\ Cardinality(Fds) >= 3 /\ Cardinality(Fds) \in Nat
        /\ Cardinality({a} \cup {b}) \in Nat
    BY <1>2, FdsAssumption, FS_CardinalityType, Zenon
  <2> QED
    BY <1>2, <2>1, <2>2
<1> QED
  BY <1>3

(* While the log has no descriptor the next one is free.                   *)
LEMMA NextFd ==
  ASSUME TypedP, Descriptors, \A f \in Fds : files[f] # "log"
  PROVE  Min(Unused) \in Fds /\ files[Min(Unused)] = "free"
<1>1. PICK f \in Fds : f # Min(Fds) /\ f # listenFd
  BY ThirdFd
<1>2. files[f] = "free"
  BY <1>1 DEF TypedP, Descriptors
<1>3. Unused # {} /\ Unused \in SUBSET Nat
  BY <1>2, FdsAssumption DEF Unused
<1>4. Min(Unused) \in Unused
  BY <1>3, Least
<1> QED
  BY <1>4 DEF Unused

(* InitSocket leaves the socket open when all its calls succeeded only, and*)
(* the other descriptors are those of the epoll instance and of the log.   *)
LEMMA DescriptorsStep ==
  TypedP /\ Stages /\ Holders /\ SetUp /\ Descriptors /\ [ProgramNext]_programVars
    => Descriptors'
<1> SUFFICES ASSUME TypedP, Stages, Holders, SetUp, Descriptors, [ProgramNext]_programVars
             PROVE  Descriptors'
  OBVIOUS
<1>0. /\ at \in [Threads -> Writing \cup Leaving \cup {"pop", "done"}]
      /\ files \in [Fds -> {"free", "epoll", "socket", "log"}]
  BY DEF TypedP
<1>a. pc \in Early => \A w \in Producers : at[w] # "fopen"
  BY DEF Stages
<1>b. pc \in Early => \A f \in Fds : files[f] # "log"
  BY DEF Descriptors
<1> USE Persons DEF Descriptors
<1>1. CASE CheckPort
  <2>1. pc = "port" /\ ~serverIsClose
    BY <1>1 DEF CheckPort, SetUp
  <2> QED
    BY <1>1, <1>a, <1>b, <2>1
    DEF CheckPort, InitSocketFails, Early, SocketCalls, logVars, fileVars
<1>2. CASE InitSocket
  <2>1. UNCHANGED at
    BY <1>2 DEF InitSocket
  <2>2. CASE Socket
    <3>1. pc = "socket" /\ pc \in Early /\ pc' = "linger" /\ ~serverIsClose
      BY <2>2 DEF Socket, GoTo, Early, SetUp
    <3>2. Min(Unused) \in Fds /\ files[Min(Unused)] = "free"
      BY <1>b, <3>1, NextFd
    <3>3. /\ files' = [files EXCEPT ![Min(Unused)] = "socket"]
          /\ listenFd' = Min(Unused) /\ UNCHANGED serverIsClose
      BY <2>2 DEF Socket, With
    <3> QED
      BY <1>0, <1>a, <1>b, <2>1, <3>1, <3>2, <3>3
  <2>3. CASE SocketFails
    <3>1. pc = "socket" /\ pc \in Early /\ pc' = "openlog" /\ serverIsClose'
      BY <2>3 DEF SocketFails, InitSocketFails, Early
    <3> QED
      BY <1>a, <1>b, <2>1, <2>3, <3>1 DEF SocketFails
  <2>4. ASSUME NEW here, NEW there, Configure(here, there),
               here \in SocketCalls, there \in SocketCalls \cup {"nonblock"}
        PROVE  Descriptors'
    <3>1. /\ pc \in Early /\ pc' \in Early /\ UNCHANGED <<files, listenFd, serverIsClose>>
          /\ pc \notin {"port", "socket"} /\ pc' \notin {"port", "socket"}
      BY <2>4 DEF Configure, GoTo, Early, SocketCalls
    <3> QED
      BY <1>a, <1>b, <2>1, <3>1
  <2>5. ASSUME NEW call \in SocketCalls, ConfigureFails(call)
        PROVE  Descriptors'
    <3>1. /\ pc \in Early /\ serverIsClose' /\ pc' = "openlog"
          /\ files' = Without("socket")
      BY <2>5 DEF ConfigureFails, InitSocketFails, Early
    <3>2. /\ \A f \in Fds : files'[f] # "socket"
          /\ \A f \in Fds : files'[f] = files[f] \/ files'[f] = "free"
      BY <1>0, <3>1 DEF Without
    <3> QED
      BY <1>0, <1>a, <1>b, <2>1, <3>1, <3>2
  <2>6. CASE SetFdNonblock
    <3>1. /\ pc \in Early /\ pc' \in Early /\ UNCHANGED <<files, listenFd, serverIsClose>>
          /\ pc \notin {"port", "socket"} /\ pc' \notin {"port", "socket"}
      BY <2>6 DEF SetFdNonblock, GoTo, Early, SocketCalls
    <3> QED
      BY <1>a, <1>b, <2>1, <3>1
  <2> QED
    BY <1>2, <2>2, <2>3, <2>4, <2>5, <2>6 DEF InitSocket, SocketCalls
<1>3. CASE InitLog
  <2>1. /\ pc = "openlog" /\ pc \in Early /\ pc' = "report"
        /\ UNCHANGED <<listenFd, serverIsClose>>
    BY <1>3 DEF InitLog, GoTo, Early
  <2>2. /\ pc' \notin Early /\ \A w \in Producers : at'[w] # "fopen"
    BY <1>0, <1>3, <1>a, <2>1, OthersMove DEF ServerStep, Early, SocketCalls, Aside
  <2>3. CASE OpenLog(TRUE)
    <3>1. files' = [files EXCEPT ![Min(Unused)] = "log"]
      BY <2>3 DEF OpenLog, With
    <3>2. Min(Unused) \in Fds /\ files[Min(Unused)] = "free"
      BY <1>b, <2>1, NextFd
    <3> QED
      BY <1>0, <2>1, <2>2, <3>1, <3>2
  <2>4. CASE OpenLog(FALSE)
    BY <2>1, <2>2, <2>4 DEF OpenLog, fileVars
  <2> QED
    BY <1>3, <2>3, <2>4 DEF InitLog
<1>4. CASE Start
  BY <1>4 DEF Start, GoTo, logVars, fileVars, Early, SocketCalls
<1>5. CASE DestroyServer
  <2>1. /\ pc = "leave" /\ pc' = "exit" /\ serverIsClose /\ serverIsClose'
        /\ UNCHANGED <<at, listenFd>>
        /\ files' = [f \in Fds |-> IF f \in CloseListenFd \cup CloseEpollFd THEN "free"
                                                                         ELSE files[f]]
    BY <1>5 DEF DestroyServer, GoTo, SetUp
  <2>2. \A f \in Fds : files'[f] = files[f] \/ files'[f] = "free"
    BY <2>1
  <2> QED
    BY <2>1, <2>2 DEF Early, SocketCalls
<1>6. CASE Exit
  BY <1>0, <1>6 DEF Exit, Destroy, Step, serverVars, fileVars
<1>7. ASSUME NEW w \in Producers, BeginStep(w) PROVE Descriptors'
  BY <1>0, <1>7 DEF BeginStep, Begin, Step, serverVars, fileVars
<1>8. ASSUME NEW w \in Producers, Write(w), UNCHANGED serverVars PROVE Descriptors'
  <2>0. UNCHANGED <<pc, listenFd, serverIsClose>>
    BY <1>8 DEF serverVars
  <2>1. CASE Fclose(w)
    BY <1>0, <2>0, <2>1 DEF Fclose, Without
  <2>2. CASE Fopen(w)
    <3>1. /\ at[w] = "fopen" /\ at' = [at EXCEPT ![w] = "count"]
          /\ files' = [files EXCEPT ![Min(Unused)] = "log"] /\ mtx = w
      BY <2>2 DEF Fopen, Step, With, Unlock
    <3>2. Min(Unused) \in Fds /\ files[Min(Unused)] = "free"
      BY <3>1, NextFd
    <3>3. pc' \notin Early /\ \A v \in Producers : at'[v] # "fopen"
      BY <1>0, <1>a, <2>0, <3>1 DEF Holders
    <3> QED
      BY <1>0, <2>0, <3>1, <3>2, <3>3
  <2>3. ASSUME ~Fclose(w), ~Fopen(w) PROVE Descriptors'
    <3>1. UNCHANGED files /\ \E s \in Writing \ {"fopen"} : at' = [at EXCEPT ![w] = s]
      <4>1. CASE Check(w) \/ Touch(w) \/ Rename(w) \/ FopenFails(w) \/ Count(w)
        BY <4>1 DEF Check, CheckDay, CheckLines, Touch, Rename, TestDay, NewDay, Restart,
                    NewPart, FopenFails, Count, Step, Writing, fileVars
      <4>2. CASE Push(w) \/ Fputs(w) \/ NotifyFlusher(w) \/ FlushLine(w)
        BY <4>2 DEF Push, Fputs, NotifyFlusher, FlushLine, Step, Writing, fileVars
      <4> QED
        BY <1>8, <2>3, <4>1, <4>2 DEF Write
    <3> QED
      BY <1>0, <2>0, <3>1
  <2> QED
    BY <2>1, <2>2, <2>3
<1>9. CASE (AsyncWrite \/ Spurious \/ Midnight) /\ UNCHANGED serverVars
  <2>1. UNCHANGED files
    BY <1>9 DEF AsyncWrite, Take, Sleep, Leave, PutLine, Spurious, Midnight, logVars, fileVars
  <2> QED
    BY <1>9, <2>1, OthersMove DEF serverVars, Aside
<1>10. CASE Destructor /\ UNCHANGED serverVars
  <2>1. \A f \in Fds : files'[f] = files[f] \/ (files[f] = "log" /\ files'[f] = "free")
    BY <1>0, <1>10 DEF Destructor, Drain, Drained, CloseDeque, NotifyAll, Join, Without,
                       logVars, fileVars
  <2> QED
    BY <1>10, <2>1, OthersMove DEF serverVars, Aside
<1>11. CASE UNCHANGED programVars
  BY <1>11 DEF programVars, serverVars, logVars, fileVars
<1> QED
  BY <1>1, <1>2, <1>3, <1>4, <1>5, <1>6, <1>7, <1>8, <1>9, <1>10, <1>11, Cases
  DEF ServerStep
-----------------------------------------------------------------------------
(* No record of a file that is open is that of no file.                    *)
LEMMA NotClosed == \A f : f.day # 0 => f # Closed
BY DEF Closed

(* The file is closed before the log is opened, after it was destroyed, and*)
(* while a thread holds mtx_ to change it.                                 *)
LEMMA OpenedStep ==
  TypedP /\ Stages /\ Opened /\ Dated /\ [ProgramNext]_programVars => Opened'
<1> SUFFICES ASSUME TypedP, Stages, Opened, Dated, [ProgramNext]_programVars, fp' = Closed
             PROVE  \/ pc' \in Early \/ ~Alive' \/ at'[Main] = "end"
                    \/ \E w \in Producers : at'[w] = "fopen"
  BY DEF Opened
<1> USE Persons
<1>0. at \in [Threads -> Writing \cup Leaving \cup {"pop", "done"}]
  BY DEF TypedP
<1>a. fp = Closed => \/ pc \in Early \/ ~Alive \/ at[Main] = "end"
                     \/ \E w \in Producers : at[w] = "fopen"
  BY DEF Opened
<1>1. CASE CheckPort \/ InitSocket
  <2>1. pc' \in Early
    BY <1>1 DEF CheckPort, InitSocket, Socket, SocketFails, Configure, ConfigureFails,
                SetFdNonblock, InitSocketFails, GoTo, SocketCalls, Early
  <2> QED
    BY <2>1
<1>2. CASE InitLog
  <2>1. CASE OpenLog(TRUE)
    <3>1. fp'.day # 0
      BY <2>1 DEF OpenLog, TypedP
    <3> QED
      BY <3>1, NotClosed
  <2>2. CASE OpenLog(FALSE)
    BY <1>0, <2>2 DEF OpenLog, Alive
  <2> QED
    BY <1>2, <2>1, <2>2 DEF InitLog
<1>3. CASE Start \/ DestroyServer \/ Exit
  <2>1. UNCHANGED fp /\ pc \in {"report", "leave", "exit"}
    BY <1>3 DEF Start, DestroyServer, Exit, Destroy, GoTo, logVars, fileVars
  <2>2. \/ ~Alive \/ at[Main] = "end" \/ \E w \in Producers : at[w] = "fopen"
    BY <1>a, <2>1 DEF Early, SocketCalls
  <2>3. UNCHANGED at \/ (at[Main] = "idle" /\ \E s \in Leaving : at' = [at EXCEPT ![Main] = s])
    BY <1>3 DEF Start, DestroyServer, Exit, Destroy, Step, logVars, Leaving
  <2> QED
    BY <1>0, <2>2, <2>3 DEF Alive
<1>4. ASSUME NEW w \in Producers, BeginStep(w)
      PROVE  \E v \in Producers : at'[v] = "fopen"
  <2>1. /\ Alive /\ at[w] = "idle" /\ at' = [at EXCEPT ![w] = "check"]
        /\ UNCHANGED fp /\ pc \in {"loop", "report"}
    BY <1>4 DEF BeginStep, Begin, Step, fileVars
  <2>2. at[Main] # "end" /\ pc \notin Early
    BY <2>1 DEF Stages, Leaving, Early, SocketCalls
  <2> QED
    BY <1>0, <1>a, <2>1, <2>2
<1>5. ASSUME NEW w \in Producers, Write(w)
      PROVE  ~Alive' \/ \E v \in Producers : at'[v] = "fopen"
  <2>0. Alive /\ at[w] \in Writing \ {"idle", "killed"}
    BY <1>5, WriteMoves
  <2>1. at[Main] # "end" /\ pc \notin Early
    BY <2>0 DEF Stages, Writing, Leaving
  <2>2. fp = Closed => \E v \in Producers : at[v] = "fopen"
    BY <1>a, <2>0, <2>1
  <2>3. CASE Fclose(w)
    BY <1>0, <2>3 DEF Fclose, Step
  <2>4. CASE Fopen(w)
    <3>1. fp'.day # 0
      BY <2>4 DEF Fopen, Step, Dated
    <3> QED
      BY <3>1, NotClosed
  <2>5. CASE FopenFails(w)
    BY <1>0, <2>5 DEF FopenFails, Step, Alive
  <2>6. ASSUME ~Fclose(w), ~Fopen(w), ~FopenFails(w)
        PROVE  UNCHANGED fp /\ at[w] # "fopen" /\ \A v \in Producers \ {w} : at'[v] = at[v]
    <3>1. CASE Check(w) \/ Touch(w) \/ Rename(w) \/ Count(w)
      BY <1>0, <3>1 DEF Check, CheckDay, CheckLines, Touch, Rename, TestDay, NewDay, Restart,
                        NewPart, Count, Step, fileVars
    <3>2. CASE Push(w) \/ Fputs(w) \/ NotifyFlusher(w) \/ FlushLine(w)
      BY <1>0, <3>2 DEF Push, Fputs, NotifyFlusher, FlushLine, Step, fileVars
    <3> QED
      BY <1>5, <2>6, <3>1, <3>2 DEF Write
  <2> QED
    BY <2>2, <2>3, <2>4, <2>5, <2>6
<1>6. CASE (AsyncWrite \/ Spurious \/ Midnight) /\ UNCHANGED serverVars
  <2>1. UNCHANGED <<fp, pc>> /\ \A w \in Producers : at'[w] = at[w]
    BY <1>0, <1>6 DEF AsyncWrite, Take, Sleep, Leave, PutLine, Spurious, Midnight, Step,
                      serverVars, logVars, fileVars
  <2> QED
    BY <1>a, <2>1 DEF Alive
<1>7. CASE Destructor /\ UNCHANGED serverVars
  <2>1. CASE Join
    BY <1>0, <2>1 DEF Join, Step
  <2>2. CASE Drain \/ Drained \/ CloseDeque \/ NotifyAll
    <3>1. /\ UNCHANGED <<fp, pc>> /\ at[Main] \in Leaving \ {"end"}
          /\ \A w \in Producers \ {Main} : at'[w] = at[w]
      BY <1>0, <1>7, <2>2 DEF Drain, Drained, CloseDeque, NotifyAll, Step, Leaving,
                              serverVars, logVars, fileVars
    <3> QED
      BY <1>a, <3>1 DEF Alive, Leaving
  <2> QED
    BY <1>7, <2>1, <2>2 DEF Destructor
<1>8. CASE UNCHANGED programVars
  BY <1>a, <1>8 DEF programVars, serverVars, logVars, fileVars, Alive
<1> QED
  BY <1>1, <1>2, <1>3, <1>4, <1>5, <1>6, <1>7, <1>8, Cases DEF ServerStep

(* The name computed for the file is of the day toDay_ was set to, unless  *)
(* two threads compute one at a time.                                      *)
LEMMA DatedStep ==
  TypedP /\ Stages /\ Dated /\ [ProgramNext]_programVars => Dated'
<1> SUFFICES ASSUME TypedP, Stages, Dated, [ProgramNext]_programVars PROVE Dated'
  OBVIOUS
<1> USE Persons
<1>0. /\ at \in [Threads -> Writing \cup Leaving \cup {"pop", "done"}]
      /\ today \in [Producers -> Nat] /\ newFile \in [Producers -> [day : Nat, part : Int]]
      /\ crossed \in BOOLEAN /\ day # 0
  BY DEF TypedP
<1>1. CASE InitLog
  <2>1. \A w \in Producers : at'[w] \notin Aside
    <3>1. \A w \in Producers : at[w] = "idle"
      BY <1>1 DEF InitLog, GoTo, Stages, Early
    <3> QED
      BY <1>1, <3>1, OthersMove DEF ServerStep, Aside
  <2>2. CASE OpenLog(TRUE)
    <3>1. fp'.day = toDay'
      BY <2>2 DEF OpenLog
    <3> QED
      BY <2>1, <3>1 DEF Dated, Changing, Aside
  <2>3. CASE OpenLog(FALSE)
    <3>1. fp' = Closed
      BY <1>1, <2>3 DEF OpenLog, fileVars, InitLog, GoTo, Stages, Early
    <3> QED
      BY <2>1, <3>1 DEF Dated, Changing, Aside
  <2> QED
    BY <1>1, <2>2, <2>3 DEF InitLog
<1>2. ASSUME UNCHANGED <<today, newFile, crossed, toDay>>, UNCHANGED fp \/ fp' = Closed,
             \A w \in Producers : at[w] \in Aside \/ at'[w] \in Aside => at[w] = at'[w]
      PROVE  Dated'
  BY <1>2 DEF Dated, Changing, Aside
<1>3. CASE CheckPort \/ InitSocket \/ Start \/ DestroyServer \/ Exit
  <2>1. UNCHANGED <<today, newFile, crossed, toDay, fp>>
    BY <1>3 DEF CheckPort, InitSocket, Start, DestroyServer, Exit, Destroy, logVars,
                nameVars, fileVars, clockVars
  <2> QED
    BY <1>2, <1>3, <2>1, OthersMove DEF ServerStep
<1>4. CASE (AsyncWrite \/ Spurious \/ Destructor \/ Midnight) /\ UNCHANGED serverVars
  <2>1. UNCHANGED <<today, newFile, crossed, toDay>> /\ (UNCHANGED fp \/ fp' = Closed)
    BY <1>4 DEF AsyncWrite, Take, Sleep, Leave, PutLine, Spurious, Midnight, Destructor,
                Drain, Drained, CloseDeque, NotifyAll, Join, logVars, nameVars, fileVars,
                clockVars
  <2> QED
    BY <1>2, <1>4, <2>1, OthersMove
<1>5. CASE UNCHANGED programVars
  BY <1>2, <1>5 DEF programVars, logVars, nameVars, fileVars, clockVars
<1>6. ASSUME NEW w \in Producers, BeginStep(w) PROVE Dated'
  <2>1. /\ at[w] = "idle" /\ at' = [at EXCEPT ![w] = "check"]
        /\ today' = [today EXCEPT ![w] = day]
        /\ UNCHANGED <<newFile, crossed, toDay, fp>>
    BY <1>6 DEF BeginStep, Begin, Step, nameVars, fileVars
  <2>2. Changing' = Changing
    BY <1>0, <2>1 DEF Changing
  <2> QED
    BY <1>0, <2>1, <2>2 DEF Dated
<1>7. ASSUME NEW w \in Producers, Write(w) PROVE Dated'
  <2>1. CASE Check(w) \/ Touch(w)
    <3>1. /\ at[w] \in {"check", "lines", "touch"}
          /\ UNCHANGED <<today, newFile, crossed, toDay, fp>>
          /\ \E s \in {"touch", "lines", "count", "rename"} : at' = [at EXCEPT ![w] = s]
      BY <2>1 DEF Check, CheckDay, CheckLines, Touch, Step, clockVars, nameVars, fileVars
    <3>2. Changing' = Changing
      BY <1>0, <3>1 DEF Changing
    <3> QED
      BY <1>0, <3>1, <3>2 DEF Dated
  <2>2. CASE Rename(w)
    <3>1. CASE TestDay(w)
      <4>1. /\ at[w] = "rename" /\ UNCHANGED <<today, newFile, toDay, fp>>
            /\ at' = [at EXCEPT ![w] = IF toDay # today[w] THEN "newDay" ELSE "newPart"]
            /\ crossed' = (crossed \/ Changing # {})
        BY <3>1 DEF TestDay, Step, clockVars, fileVars
      <4>2. Changing' = Changing \cup {w}
        BY <1>0, <4>1 DEF Changing
      <4>3. ~crossed' => Changing = {} /\ Changing' = {w}
        BY <4>1, <4>2
      <4> QED
        BY <1>0, <4>1, <4>3 DEF Dated
    <3>2. CASE NewDay(w)
      <4>1. /\ at[w] = "newDay" /\ at' = [at EXCEPT ![w] = "restart"]
            /\ newFile' = [newFile EXCEPT ![w] = [day |-> today[w], part |-> 0]]
            /\ toDay' = today[w] /\ UNCHANGED <<today, crossed, fp>>
        BY <3>2 DEF NewDay, Step, clockVars, fileVars
      <4>2. w \in Changing /\ Changing' = Changing
        BY <1>0, <4>1 DEF Changing
      <4>3. newFile'[w].day = today[w] /\ today[w] # 0
        BY <1>0, <4>1 DEF Dated
      <4>4. ~crossed => Changing = {w}
        BY <4>2 DEF Dated
      <4>5. \A v \in Producers \ {w} : newFile'[v] = newFile[v] /\ at'[v] = at[v]
        BY <1>0, <4>1
      <4>6. ~crossed => \A v \in Producers \ {w} :
                          at[v] \notin {"newPart", "restart", "fclose", "fopen"}
        BY <4>4 DEF Changing
      <4>7. at'[w] = "restart"
        BY <1>0, <4>1
      <4>8. ~crossed' => \A v \in Producers :
              /\ at'[v] = "newPart" => today'[v] = toDay'
              /\ at'[v] \in {"restart", "fclose", "fopen"} => newFile'[v].day = toDay'
        BY <4>1, <4>3, <4>5, <4>6, <4>7
      <4>9. \A v \in Producers :
              /\ at'[v] \in {"check", "lines", "touch", "rename", "newDay", "newPart"}
                   => today'[v] # 0
              /\ at'[v] \in {"restart", "fclose", "fopen"} => newFile'[v].day # 0
        BY <4>1, <4>3, <4>5, <4>7 DEF Dated
      <4>10. ~crossed' => \A u, v \in Changing' : u = v
        BY <4>1, <4>2, <4>4
      <4> QED
        BY <4>7, <4>8, <4>9, <4>10 DEF Dated
    <3>3. CASE Restart(w)
      <4>1. /\ at[w] = "restart" /\ at' = [at EXCEPT ![w] = "fclose"]
            /\ UNCHANGED <<today, newFile, crossed, toDay, fp>>
        BY <3>3 DEF Restart, Step, clockVars, fileVars
      <4>2. Changing' = Changing
        BY <1>0, <4>1 DEF Changing
      <4> QED
        BY <1>0, <4>1, <4>2 DEF Dated
    <3>4. CASE NewPart(w)
      <4>1. /\ at[w] = "newPart" /\ at' = [at EXCEPT ![w] = "fclose"]
            /\ newFile' = [newFile EXCEPT ![w] =
                              [day |-> today[w], part |-> lineCount \div MAX_LINES]]
            /\ UNCHANGED <<today, crossed, toDay, fp>>
        BY <3>4 DEF NewPart, Step, clockVars, fileVars
      <4>2. Changing' = Changing
        BY <1>0, <4>1 DEF Changing
      <4>3. newFile'[w].day = today[w] /\ today[w] # 0 /\ (~crossed => today[w] = toDay)
        BY <1>0, <4>1 DEF Dated
      <4>4. \A v \in Producers \ {w} : newFile'[v] = newFile[v] /\ at'[v] = at[v]
        BY <1>0, <4>1
      <4>5. at'[w] = "fclose"
        BY <1>0, <4>1
      <4>6. ~crossed' => \A v \in Producers :
              /\ at'[v] = "newPart" => today'[v] = toDay'
              /\ at'[v] \in {"restart", "fclose", "fopen"} => newFile'[v].day = toDay'
        BY <4>1, <4>3, <4>4, <4>5 DEF Dated
      <4>7. \A v \in Producers :
              /\ at'[v] \in {"check", "lines", "touch", "rename", "newDay", "newPart"}
                   => today'[v] # 0
              /\ at'[v] \in {"restart", "fclose", "fopen"} => newFile'[v].day # 0
        BY <4>1, <4>3, <4>4, <4>5 DEF Dated
      <4>8. ~crossed' => \A u, v \in Changing' : u = v
        BY <4>1, <4>2 DEF Dated
      <4> QED
        BY <4>5, <4>6, <4>7, <4>8 DEF Dated
    <3> QED
      BY <2>2, <3>1, <3>2, <3>3, <3>4 DEF Rename
  <2>3. CASE Fclose(w)
    <3>1. /\ at[w] = "fclose" /\ at' = [at EXCEPT ![w] = "fopen"] /\ fp' = Closed
          /\ UNCHANGED <<today, newFile, crossed, toDay>>
      BY <2>3 DEF Fclose, Step, clockVars, nameVars
    <3>2. Changing' = Changing
      BY <1>0, <3>1 DEF Changing
    <3> QED
      BY <1>0, <3>1, <3>2 DEF Dated
  <2>4. CASE Fopen(w)
    <3>1. /\ at[w] = "fopen" /\ at' = [at EXCEPT ![w] = "count"] /\ fp' = newFile[w]
          /\ UNCHANGED <<today, crossed, toDay>>
          /\ newFile' = [newFile EXCEPT ![w] = Closed]
      BY <2>4 DEF Fopen, Step, clockVars
    <3>2. w \in Changing /\ Changing' = Changing \ {w}
      BY <1>0, <3>1 DEF Changing
    <3>3. ~crossed => fp'.day = toDay
      BY <3>1, <3>2 DEF Dated
    <3>4. \A v \in Producers \ {w} : newFile'[v] = newFile[v]
      BY <1>0, <3>1
    <3>5. ~crossed' =>
            /\ \A u, v \in Changing' : u = v
            /\ \A v \in Producers :
                 /\ at'[v] = "newPart" => today'[v] = toDay'
                 /\ at'[v] \in {"restart", "fclose", "fopen"} => newFile'[v].day = toDay'
      BY <1>0, <3>1, <3>2, <3>4 DEF Dated
    <3>6. \A v \in Producers :
            /\ at'[v] \in {"check", "lines", "touch", "rename", "newDay", "newPart"}
                 => today'[v] # 0
            /\ at'[v] \in {"restart", "fclose", "fopen"} => newFile'[v].day # 0
      BY <1>0, <3>1, <3>4 DEF Dated
    <3> QED
      BY <3>1, <3>3, <3>5, <3>6 DEF Dated
  <2>5. CASE Count(w)
    <3>1. /\ at[w] = "count" /\ UNCHANGED <<newFile, crossed, toDay, fp>>
          /\ \E s \in {"push", "fputs"} : at' = [at EXCEPT ![w] = s]
          /\ today' = [today EXCEPT ![w] = NoDay]
      BY <2>5 DEF Count, Step, fileVars
    <3>2. Changing' = Changing
      BY <1>0, <3>1 DEF Changing
    <3> QED
      BY <1>0, <3>1, <3>2 DEF Dated
  <2>6. CASE FopenFails(w) \/ Push(w) \/ Fputs(w) \/ NotifyFlusher(w) \/ FlushLine(w)
    <3>1. /\ at[w] \in {"fopen", "push", "fputs", "flush", "fflush"}
          /\ \E s \in {"killed", "flush", "fflush", "idle"} : at' = [at EXCEPT ![w] = s]
          /\ UNCHANGED <<today, newFile, crossed, toDay, fp>>
      BY <2>6 DEF FopenFails, Push, Fputs, NotifyFlusher, FlushLine, Step, clockVars,
                  nameVars, fileVars
    <3>2. Changing' \subseteq Changing
      BY <1>0, <3>1 DEF Changing
    <3> QED
      BY <1>0, <3>1, <3>2 DEF Dated
  <2> QED
    BY <1>7, <2>1, <2>2, <2>3, <2>4, <2>5, <2>6 DEF Write
<1> QED
  BY <1>1, <1>3, <1>4, <1>5, <1>6, <1>7, Cases DEF ServerStep
-----------------------------------------------------------------------------
(* The invariant holds at the start, and always.                           *)
LEMMA InitIInv == ProgramInit => IInv
<1> SUFFICES ASSUME ProgramInit PROVE IInv
  OBVIOUS
<1> USE Persons DEF ProgramInit, LogInit
<1>1. pc = "port" /\ pc \in Early /\ pc \in Places /\ pc \notin SocketCalls
  BY DEF Early, Places, SocketCalls
<1>2. at = [t \in Threads |-> IF t = Flusher THEN "done" ELSE "idle"]
  OBVIOUS
<1>3. (\A w \in Producers : at[w] = "idle") /\ at[Flusher] = "done"
  BY <1>2
<1>4. fp = Closed /\ ~serverIsClose /\ setUp = {} /\ crossed = FALSE
  OBVIOUS
<1>5. TypedP
  <2>1. deq \in Seq(Nat)
    BY DEF Init
  <2>2. Closed \in [day : Nat, part : Int]
    BY DEF Closed
  <2>3. at \in [Threads -> Writing \cup Leaving \cup {"pop", "done"}]
    BY <1>2 DEF Writing
  <2>4. /\ line \in [Threads -> Nat] /\ today \in [Producers -> Nat]
        /\ newFile \in [Producers -> [day : Nat, part : Int]]
        /\ files \in [Fds -> {"free", "epoll", "socket", "log"}]
    BY <2>2 DEF NoLine, NoDay
  <2>5. /\ mtx \in Threads \cup {Nobody} /\ counted \in Nat /\ day \in Nat \ {0}
        /\ lineCount \in Nat /\ toDay \in Nat
    OBVIOUS
  <2> QED
    BY <1>1, <1>4, <2>1, <2>2, <2>3, <2>4, <2>5 DEF TypedP
<1>6. Stages
  BY <1>1, <1>3, <1>4 DEF Stages, Writing, Leaving
<1>7. Holders /\ SetUp /\ Opened
  BY <1>1, <1>3, <1>4 DEF Holders, SetUp, Opened
<1>8. Descriptors
  <2>1. \A f \in Fds : files[f] = IF f = Min(Fds) THEN "epoll" ELSE "free"
    OBVIOUS
  <2> QED
    BY <1>1, <2>1 DEF Descriptors
<1>9. Dated
  BY <1>3, <1>4 DEF Dated, Changing
<1> QED
  BY <1>5, <1>6, <1>7, <1>8, <1>9 DEF IInv

LEMMA Inductive == ProgramSpec => []IInv
<1>1. IInv /\ [ProgramNext]_programVars => IInv'
  BY TypedStep, StagesStep, HoldersStep, SetUpStep, DescriptorsStep, OpenedStep, DatedStep
  DEF IInv
<1> QED
  BY <1>1, InitIInv, PTL DEF ProgramSpec

(* Whichever call of InitSocket fails, if its result is looked at: the loop*)
(* is entered with a socket for which all of these succeeded, or not at all*)
(* and none is open.  SetFdNonblock may have failed.                       *)
THEOREM SocketAllOrNothing == ProgramSpec => []AllOrNothing
<1>1. IInv => AllOrNothing
  <2> SUFFICES ASSUME IInv PROVE AllOrNothing
    OBVIOUS
  <2>1. SetUp /\ Descriptors /\ serverIsClose \in BOOLEAN
    BY DEF IInv, TypedP
  <2>2. CASE serverIsClose
    BY <2>1, <2>2 DEF AllOrNothing, SetUp, Descriptors
  <2>3. CASE ~serverIsClose
    BY <2>1, <2>3 DEF AllOrNothing, SetUp, Descriptors
  <2> QED
    BY <2>2, <2>3
<1> QED
  BY <1>1, Inductive, PTL

(* A thread told by full() that there is room never has to wait for it in  *)
(* push_back, where it would hold the mutex that the flusher needs.        *)
THEOREM RoomStaysFree == ProgramSpec => []NeverWaitsForRoom
<1>1. IInv => NeverWaitsForRoom
  BY DEF IInv, Holders, NeverWaitsForRoom
<1> QED
  BY <1>1, Inductive, PTL

(* A line is put into a file that is open, and into a file of the day of   *)
(* toDay_ unless two threads had decided for a name at a time, or one has  *)
(* moved toDay_ and not closed the file yet.  This is of every interleaving*)
(* of the test of toDay_, its update, the reset of lineCount_ and the name.*)
THEOREM LinesGoToOpenFile == ProgramSpec => PutsIntoOpenFile
<1> DEFINE Kept == /\ fp # Closed
                   /\ \/ crossed
                      \/ fp.day = toDay
                      \/ \E w \in Producers : at[w] \in {"restart", "fclose"}
<1>1. ASSUME IInv, [ProgramNext]_programVars, written' # written
      PROVE  Kept
  <2> USE Persons, <1>1 DEF Step
  <2>1. fp # Closed => Kept
    BY DEF IInv, Dated, TypedP
  <2>2. ASSUME NEW w \in Producers, Fputs(w)
        PROVE  fp # Closed
    <3>1. Alive /\ at[w] = "fputs" /\ mtx = w
      BY <2>2 DEF Fputs, Unlock
    <3>2. pc \notin Early /\ at[Main] # "end"
      BY <3>1 DEF IInv, Stages, Leaving
    <3>3. \A v \in Producers : at[v] # "fopen"
      BY <3>1 DEF IInv, Holders
    <3> QED
      BY <3>1, <3>2, <3>3 DEF IInv, Opened
  <2>3. ASSUME PutLine PROVE fp # Closed
    <3>1. Alive /\ at[Flusher] = "fputs" /\ mtx = Nobody
      BY <2>3 DEF PutLine, Free
    <3>2. pc \notin Early /\ at[Main] # "end"
      BY <3>1 DEF IInv, Stages
    <3>3. \A v \in Producers : at[v] # "fopen"
      BY <3>1 DEF IInv, Holders
    <3> QED
      BY <3>1, <3>2, <3>3 DEF IInv, Opened
  <2>4. CASE ServerStep
    BY <2>4 DEF ServerStep, CheckPort, InitSocket, InitLog, OpenLog, Start, DestroyServer,
                Exit, Destroy, logVars, diskVars
  <2>5. ASSUME NEW w \in Producers, BeginStep(w) PROVE FALSE
    BY <2>5 DEF BeginStep, Begin, diskVars
  <2>6. ASSUME NEW w \in Producers, Write(w) PROVE Fputs(w)
    BY <2>6 DEF Write, Check, CheckDay, CheckLines, Touch, Rename, TestDay, NewDay, Restart,
                NewPart, Fclose, Fopen, FopenFails, Count, Push, NotifyFlusher, FlushLine,
                Fflush, diskVars
  <2>7. CASE AsyncWrite
    BY <2>1, <2>3, <2>7 DEF AsyncWrite, Take, Sleep, Leave, logVars, diskVars
  <2>8. CASE Spurious \/ Destructor \/ Midnight \/ UNCHANGED programVars
    BY <2>8 DEF Spurious, Destructor, Drain, Drained, CloseDeque, NotifyAll, Join, Fflush,
                Midnight, programVars, logVars, diskVars
  <2> QED
    BY <2>1, <2>2, <2>4, <2>5, <2>6, <2>7, <2>8, Cases
<1>2. IInv /\ [ProgramNext]_programVars =>
        [written' # written =>
           /\ fp # Closed
           /\ \/ crossed
              \/ fp.day = toDay
              \/ \E w \in Producers : at[w] \in {"restart", "fclose"}
        ]_<<dequeVars, logVars>>
  BY <1>1
<1> QED
  BY <1>2, Inductive, PTL DEF ProgramSpec, PutsIntoOpenFile
-----------------------------------------------------------------------------
(* Where n stands in a sequence.                                           *)
Positions(s, n) == {p \in DOMAIN s : s[p] = n}

(* Who has line n in hand.                                                 *)
Hands(n, l) == {t \in Threads : l[t] = n}

Copies(n, l, d, wr) == Cardinality(Hands(n, l)) + Cardinality(Positions(d, n))
                         + Cardinality(Positions(wr, n))

Numbered ==
  /\ written \in Seq(Nat)
  /\ \A t \in Threads : line[t] <= counted
  /\ \A p \in DOMAIN deq : deq[p] \in 1 .. counted
  /\ \A p \in DOMAIN written : written[p] \in 1 .. counted
  /\ \A w \in Producers : line[w] # 0 <=> at[w] \in {"push", "fputs"}
  /\ line[Flusher] # 0 <=> at[Flusher] = "fputs"

(* The deque is not used once ~Log has drained it, or without isAsync_.    *)
Late == {"close", "notify", "join", "end"}

Disused == /\ at[Main] \in Late => deq = <<>>
           /\ ~isAsync => deq = <<>> /\ \A w \in Producers : at[w] # "push"
-----------------------------------------------------------------------------
(* How the counts change.                                                  *)
Is(x, n) == IF x = n THEN 1 ELSE 0

LEMMA HandsFinite ==
  ASSUME NEW n, NEW l
  PROVE  IsFiniteSet(Hands(n, l)) /\ Cardinality(Hands(n, l)) \in Nat
<1>1. IsFiniteSet(Threads)
  BY ThreadsAssumption, FS_Union DEF Threads
<1> QED
  BY <1>1, FS_Subset, FS_CardinalityType DEF Hands

LEMMA PositionsFinite ==
  ASSUME NEW s \in Seq(Nat), NEW n
  PROVE  IsFiniteSet(Positions(s, n)) /\ Cardinality(Positions(s, n)) \in Nat
<1>1. IsFiniteSet(1 .. Len(s)) /\ DOMAIN s = 1 .. Len(s)
  BY FS_Interval
<1> QED
  BY <1>1, FS_Subset, FS_CardinalityType DEF Positions

LEMMA Handed ==
  ASSUME line \in [Threads -> Nat], NEW t \in Threads, NEW x \in Nat,
         line' = [line EXCEPT ![t] = x], line[t] # x, NEW n
  PROVE  Cardinality(Hands(n, line')) =
           Cardinality(Hands(n, line)) + Is(x, n) - Is(line[t], n)
<1>0. Cardinality(Hands(n, line)) \in Nat /\ IsFiniteSet(Hands(n, line))
  BY HandsFinite
<1>1. CASE x = n
  <2>1. Hands(n, line') = Hands(n, line) \cup {t} /\ t \notin Hands(n, line)
    BY <1>1 DEF Hands
  <2>2. Cardinality(Hands(n, line')) = Cardinality(Hands(n, line)) + 1
    BY <1>0, <2>1, FS_AddElement
  <2> QED
    BY <1>0, <1>1, <2>2 DEF Is
<1>2. CASE line[t] = n
  <2>1. Hands(n, line') = Hands(n, line) \ {t} /\ t \in Hands(n, line)
    BY <1>2 DEF Hands
  <2>2. Cardinality(Hands(n, line')) = Cardinality(Hands(n, line)) - 1
    BY <1>0, <2>1, FS_RemoveElement, ZenonT(30)
  <2> QED
    BY <1>0, <1>2, <2>2 DEF Is
<1>3. CASE x # n /\ line[t] # n
  <2>1. Hands(n, line') = Hands(n, line)
    BY <1>3 DEF Hands
  <2> QED
    BY <1>0, <1>3, <2>1 DEF Is
<1> QED
  BY <1>1, <1>2, <1>3

LEMMA Appended ==
  ASSUME NEW s \in Seq(Nat), NEW x \in Nat, NEW n
  PROVE  Cardinality(Positions(Append(s, x), n)) = Cardinality(Positions(s, n)) + Is(x, n)
<1>0. Cardinality(Positions(s, n)) \in Nat /\ IsFiniteSet(Positions(s, n))
  BY PositionsFinite
<1>1. /\ DOMAIN s = 1 .. Len(s) /\ Len(s) \in Nat
      /\ DOMAIN Append(s, x) = 1 .. Len(s) + 1
      /\ \A p \in 1 .. Len(s) : Append(s, x)[p] = s[p]
      /\ Append(s, x)[Len(s) + 1] = x
  OBVIOUS
<1>2. 1 .. Len(s) + 1 = (1 .. Len(s)) \cup {Len(s) + 1} /\ Len(s) + 1 \notin 1 .. Len(s)
  BY <1>1
<1>3. CASE x = n
  <2>1. /\ Positions(Append(s, x), n) = Positions(s, n) \cup {Len(s) + 1}
        /\ Len(s) + 1 \notin Positions(s, n)
    BY <1>1, <1>2, <1>3 DEF Positions
  <2>2. Cardinality(Positions(Append(s, x), n)) = Cardinality(Positions(s, n)) + 1
    BY <1>0, <2>1, FS_AddElement
  <2> QED
    BY <1>3, <2>2 DEF Is
<1>4. CASE x # n
  <2>1. Positions(Append(s, x), n) = Positions(s, n)
    BY <1>1, <1>2, <1>4 DEF Positions
  <2> QED
    BY <1>0, <1>4, <2>1 DEF Is
<1> QED
  BY <1>3, <1>4

LEMMA Tailed ==
  ASSUME NEW s \in Seq(Nat), s # <<>>, NEW n
  PROVE  Cardinality(Positions(Tail(s), n)) = Cardinality(Positions(s, n)) - Is(Head(s), n)
<1>0. /\ Cardinality(Positions(s, n)) \in Nat /\ IsFiniteSet(Positions(s, n))
      /\ Cardinality(Positions(Tail(s), n)) \in Nat /\ IsFiniteSet(Positions(Tail(s), n))
  <2>1. Tail(s) \in Seq(Nat)
    OBVIOUS
  <2> QED
    BY <2>1, PositionsFinite
<1>1. /\ DOMAIN s = 1 .. Len(s) /\ Len(s) \in Nat \ {0} /\ Head(s) = s[1]
      /\ DOMAIN Tail(s) = 1 .. Len(s) - 1
      /\ \A p \in 1 .. Len(s) - 1 : Tail(s)[p] = s[p + 1]
  OBVIOUS
<1> DEFINE S == Positions(Tail(s), n)
           T == Positions(s, n) \ {1}
           f == [p \in S |-> p + 1]
<1>2. f \in Bijection(S, T)
  <2>1. \A p \in S : p \in 1 .. Len(s) - 1 /\ s[p + 1] = n
    BY <1>1 DEF Positions
  <2>2. \A p \in S : p + 1 \in T
    BY <1>1, <2>1 DEF Positions
  <2>3. ASSUME NEW q \in T PROVE q - 1 \in S /\ q = (q - 1) + 1
    <3>1. q \in 1 .. Len(s) /\ q # 1 /\ s[q] = n
      BY <1>1 DEF Positions
    <3>2. q - 1 \in 1 .. Len(s) - 1 /\ q = (q - 1) + 1
      BY <1>1, <3>1
    <3>3. Tail(s)[q - 1] = n
      BY <1>1, <3>1, <3>2
    <3> QED
      BY <1>1, <3>2, <3>3 DEF Positions
  <2> HIDE DEF S, T
  <2>4. \A p, q \in S : p + 1 = q + 1 => p = q
    BY <1>1, <2>1
  <2>5. f \in [S -> T]
    BY <2>2
  <2>6. \A p, q \in S : f[p] = f[q] => p = q
    BY <2>4
  <2>7. \A q \in T : \E p \in S : f[p] = q
    BY <2>3
  <2> QED
    BY <2>5, <2>6, <2>7 DEF Bijection, Injection, Surjection, IsInjective
<1>3. Cardinality(T) = Cardinality(S)
  <2> HIDE DEF S, T, f
  <2>1. ExistsBijection(S, T)
    BY <1>2 DEF ExistsBijection
  <2> QED
    BY <1>0, <2>1, FS_Bijection DEF S
<1>4. CASE Head(s) = n
  <2>1. 1 \in Positions(s, n)
    BY <1>1, <1>4 DEF Positions
  <2>2. Cardinality(T) = Cardinality(Positions(s, n)) - 1
    BY <1>0, <2>1, FS_RemoveElement
  <2> QED
    BY <1>3, <1>4, <2>2 DEF Is
<1>5. CASE Head(s) # n
  <2>1. T = Positions(s, n)
    BY <1>1, <1>5 DEF Positions
  <2>2. Cardinality(Positions(s, n)) = Cardinality(Positions(Tail(s), n))
    <3> HIDE DEF T
    <3> QED
      BY <1>3, <2>1
  <2> QED
    BY <1>0, <1>5, <2>2 DEF Is
<1> QED
  BY <1>4, <1>5
-----------------------------------------------------------------------------
(* The steps that leave every line where it is.                            *)
Holding == {"push", "fputs"}

Stays == /\ UNCHANGED <<line, deq, written, counted>>
         /\ \A w \in Producers : at[w] \in Holding \/ at'[w] \in Holding => at'[w] = at[w]
         /\ at'[Flusher] = "fputs" <=> at[Flusher] = "fputs"
         /\ at'[Main] \in Late => at[Main] \in Late \/ ~isAsync \/ deq = <<>>

(* Nothing changes isAsync_.                                               *)
LEMMA AsyncStays == [ProgramNext]_programVars => UNCHANGED isAsync
<1> SUFFICES ASSUME [ProgramNext]_programVars PROVE UNCHANGED isAsync
  OBVIOUS
<1>1. CASE ServerStep
  BY <1>1 DEF ServerStep, CheckPort, InitSocket, InitLog, OpenLog, Start, DestroyServer,
              Exit, Destroy, logVars
<1>2. ASSUME NEW w \in Producers, BeginStep(w) \/ Write(w) PROVE UNCHANGED isAsync
  BY <1>2 DEF BeginStep, Begin, Write, Check, CheckDay, CheckLines, Touch, Rename, TestDay,
              NewDay, Restart, NewPart, Fclose, Fopen, FopenFails, Count, Push, Fputs,
              NotifyFlusher, FlushLine
<1>3. CASE AsyncWrite \/ Spurious \/ Destructor \/ Midnight \/ UNCHANGED programVars
  BY <1>3 DEF AsyncWrite, Take, Sleep, Leave, PutLine, Spurious, Destructor, Drain, Drained,
              CloseDeque, NotifyAll, Join, Midnight, programVars, logVars
<1> QED
  BY <1>1, <1>2, <1>3, Cases

LEMMA LineMoves ==
  ASSUME TypedP, Stages, [ProgramNext]_programVars
  PROVE  \/ Stays
         \/ \E w \in Producers : Count(w) \/ Push(w) \/ Fputs(w)
         \/ Take \/ PutLine \/ (CloseDeque /\ UNCHANGED serverVars)
<1> USE Persons DEF Holding, Late
<1>0. at \in [Threads -> Writing \cup Leaving \cup {"pop", "done"}]
  BY DEF TypedP
<1>1. CASE CheckPort \/ InitSocket \/ Start \/ DestroyServer \/ UNCHANGED programVars
  BY <1>1 DEF CheckPort, InitSocket, Start, DestroyServer, programVars, dequeVars, logVars,
              lineVars, diskVars, Stays
<1>2. CASE InitLog
  <2>1. UNCHANGED <<line, deq, written, counted>>
    BY <1>2 DEF InitLog, OpenLog, dequeVars, lineVars, diskVars
  <2>2. at[Main] = "idle" /\ at[Flusher] = "done"
    BY <1>2 DEF InitLog, GoTo, Stages, Early
  <2>3. CASE OpenLog(TRUE)
    BY <1>0, <2>1, <2>2, <2>3 DEF OpenLog, Stays
  <2>4. CASE OpenLog(FALSE)
    BY <1>0, <2>1, <2>2, <2>4 DEF OpenLog, Stays
  <2> QED
    BY <1>2, <2>3, <2>4 DEF InitLog
<1>3. CASE Exit
  BY <1>0, <1>3 DEF Exit, Destroy, Step, dequeVars, lineVars, diskVars, Stays
<1>4. ASSUME NEW w \in Producers, BeginStep(w) PROVE Stays
  BY <1>0, <1>4 DEF BeginStep, Begin, Step, dequeVars, lineVars, diskVars, Stays
<1>5. ASSUME NEW w \in Producers, Write(w), ~Count(w), ~Push(w), ~Fputs(w)
      PROVE  Stays
  <2>1. UNCHANGED <<line, deq, written, counted>>
    <3>1. CASE Check(w) \/ Touch(w) \/ Rename(w) \/ Fopen(w) \/ FopenFails(w)
      BY <3>1 DEF Check, CheckDay, CheckLines, Touch, Rename, TestDay, NewDay, Restart, NewPart,
                  Fopen, FopenFails, dequeVars, lineVars, diskVars
    <3>2. CASE Fclose(w) \/ NotifyFlusher(w) \/ FlushLine(w)
      BY <3>2 DEF Fclose, NotifyFlusher, FlushLine, FlushDeque, Flush, Fflush, dequeVars,
                  lineVars, diskVars
    <3> QED
      BY <1>5, <3>1, <3>2 DEF Write
  <2>2. \E s \in Writing \ Holding : at' = [at EXCEPT ![w] = s]
    BY <1>5 DEF Write, Check, CheckDay, CheckLines, Touch, Rename, TestDay, NewDay, Restart,
                NewPart, Fclose, Fopen, FopenFails, NotifyFlusher, FlushLine, Step, Writing
  <2>3. at[w] \notin Holding
    BY <1>5 DEF Write, Check, CheckDay, CheckLines, Touch, Rename, TestDay, NewDay, Restart,
                NewPart, Fclose, Fopen, FopenFails, NotifyFlusher, FlushLine, Step
  <2> QED
    BY <1>0, <2>1, <2>2, <2>3 DEF Stays, Writing
<1>6. CASE Sleep \/ Leave \/ Spurious \/ Midnight
  <2>1. UNCHANGED <<line, deq, written, counted>>
    BY <1>6 DEF Sleep, Leave, PopWaits, PopClosed, Spurious, SpuriousWakeup, Midnight,
                dequeVars, logVars, lineVars, diskVars
  <2>2. \/ UNCHANGED at
        \/ at[Flusher] = "pop" /\ at' = [at EXCEPT ![Flusher] = "done"]
    BY <1>6 DEF Sleep, Leave, Spurious, Midnight, Step, logVars
  <2> QED
    BY <1>0, <2>1, <2>2 DEF Stays
<1>7. CASE Drain \/ Drained \/ NotifyAll \/ Join
  <2>1. UNCHANGED <<line, deq, written, counted>>
    BY <1>7 DEF Drain, Drained, NotifyAll, Join, CloseNotify, Flush, FlushDeque, Fflush,
                dequeVars, logVars, lineVars, diskVars
  <2>2. \/ UNCHANGED at
        \/ /\ at[Main] \notin Holding
           /\ \E s \in Leaving : at' = [at EXCEPT ![Main] = s]
           /\ at[Main] \in Late \/ deq = <<>>
    BY <1>7 DEF Drain, Drained, NotifyAll, Join, Step, Empty, Leaving, logVars
  <2> QED
    BY <1>0, <2>1, <2>2 DEF Stays, Leaving
<1> QED
  BY <1>1, <1>2, <1>3, <1>4, <1>5, <1>6, <1>7, Cases
  DEF ServerStep, AsyncWrite, Destructor
-----------------------------------------------------------------------------
(* Every step preserves the range of the numbers and who holds a line.     *)
LEMMA NumberedStep ==
  TypedP /\ Stages /\ Holders /\ Numbered /\ [ProgramNext]_programVars => Numbered'
<1> SUFFICES ASSUME TypedP, Stages, Holders, Numbered, [ProgramNext]_programVars
             PROVE  Numbered'
  OBVIOUS
<1> USE Persons DEF Numbered
<1>0. /\ at \in [Threads -> Writing \cup Leaving \cup {"pop", "done"}]
      /\ line \in [Threads -> Nat] /\ counted \in Nat /\ deq \in Seq(Nat)
  BY DEF TypedP
<1>1. CASE Stays
  BY <1>1 DEF Stays, Holding
<1>2. ASSUME NEW w \in Producers, Count(w) PROVE Numbered'
  <2>1. /\ at[w] = "count" /\ line' = [line EXCEPT ![w] = counted + 1]
        /\ counted' = counted + 1 /\ UNCHANGED <<deq, written>>
        /\ \E s \in {"push", "fputs"} : at' = [at EXCEPT ![w] = s]
    BY <1>2 DEF Count, Step, dequeVars, diskVars
  <2> QED
    BY <1>0, <2>1
<1>3. ASSUME NEW w \in Producers, Push(w) PROVE Numbered'
  <2>1. /\ at[w] = "push" /\ line' = [line EXCEPT ![w] = 0]
        /\ deq' = Append(deq, line[w]) /\ UNCHANGED <<counted, written>>
        /\ at' = [at EXCEPT ![w] = "flush"]
    BY <1>3 DEF Push, PushBack, Step, NoLine, diskVars
  <2>2. line[w] \in 1 .. counted
    BY <1>0, <2>1
  <2>3. \A p \in DOMAIN deq' : deq'[p] \in 1 .. counted
    BY <1>0, <2>1, <2>2, SMTT(30)
  <2> QED
    BY <1>0, <2>1, <2>3, SMTT(30)
<1>4. ASSUME NEW w \in Producers, Fputs(w) PROVE Numbered'
  <2>1. /\ at[w] = "fputs" /\ line' = [line EXCEPT ![w] = 0]
        /\ written' = Append(written, line[w]) /\ UNCHANGED <<counted, deq>>
        /\ at' = [at EXCEPT ![w] = "flush"]
    BY <1>4 DEF Fputs, Put, Step, NoLine, dequeVars
  <2>2. line[w] \in 1 .. counted
    BY <1>0, <2>1
  <2>3. written' \in Seq(Nat) /\ \A p \in DOMAIN written' : written'[p] \in 1 .. counted
    BY <1>0, <2>1, <2>2
  <2> QED
    BY <1>0, <2>1, <2>3
<1>5. CASE Take
  <2>1. /\ at[Flusher] = "pop" /\ line' = [line EXCEPT ![Flusher] = Head(deq)]
        /\ deq # <<>> /\ deq' = Tail(deq) /\ UNCHANGED <<counted, written>>
        /\ at' = [at EXCEPT ![Flusher] = "fputs"]
    BY <1>5 DEF Take, Pop, Empty, Step, diskVars
  <2>2. Head(deq) \in 1 .. counted /\ \A p \in DOMAIN deq' : deq'[p] \in 1 .. counted
    BY <1>0, <2>1, SMTT(30)
  <2> QED
    BY <1>0, <2>1, <2>2
<1>6. CASE PutLine
  <2>1. /\ at[Flusher] = "fputs" /\ line' = [line EXCEPT ![Flusher] = 0]
        /\ written' = Append(written, line[Flusher]) /\ UNCHANGED <<counted, deq>>
        /\ at' = [at EXCEPT ![Flusher] = "pop"]
    BY <1>6 DEF PutLine, Put, Step, NoLine, dequeVars
  <2>2. line[Flusher] \in 1 .. counted
    BY <1>0, <2>1
  <2>3. written' \in Seq(Nat) /\ \A p \in DOMAIN written' : written'[p] \in 1 .. counted
    BY <1>0, <2>1, <2>2
  <2> QED
    BY <1>0, <2>1, <2>3
<1>7. CASE CloseDeque
  <2>1. /\ at[Main] = "close" /\ deq' = <<>> /\ UNCHANGED <<line, counted, written>>
        /\ at' = [at EXCEPT ![Main] = "notify"]
    BY <1>7 DEF CloseDeque, Close, Step, lineVars, diskVars
  <2> QED
    BY <1>0, <2>1
<1> QED
  BY <1>1, <1>2, <1>3, <1>4, <1>5, <1>6, <1>7, LineMoves

(* Every step leaves the deque empty that is not used any more.            *)
LEMMA DisusedStep ==
  TypedP /\ Stages /\ Disused /\ [ProgramNext]_programVars => Disused'
<1> SUFFICES ASSUME TypedP, Stages, Disused, [ProgramNext]_programVars PROVE Disused'
  OBVIOUS
<1> USE Persons, AsyncStays DEF Disused, Late
<1>0. at \in [Threads -> Writing \cup Leaving \cup {"pop", "done"}]
  BY DEF TypedP
<1>1. CASE Stays
  BY <1>1 DEF Stays, Holding
<1>2. ASSUME NEW w \in Producers, Count(w) PROVE Disused'
  <2>1. /\ at[w] = "count" /\ UNCHANGED deq
        /\ at' = [at EXCEPT ![w] = IF isAsync /\ ~Full THEN "push" ELSE "fputs"]
    BY <1>2 DEF Count, Step, dequeVars
  <2> QED
    BY <1>0, <2>1
<1>3. ASSUME NEW w \in Producers, Push(w) PROVE Disused'
  <2>1. at[w] = "push" /\ at' = [at EXCEPT ![w] = "flush"]
    BY <1>3 DEF Push, Step
  <2>2. at[Main] \notin Late
    BY <2>1 DEF Stages, Leaving
  <2> QED
    BY <1>0, <2>1, <2>2
<1>4. ASSUME NEW w \in Producers, Fputs(w) PROVE Disused'
  BY <1>0, <1>4 DEF Fputs, Step, dequeVars
<1>5. CASE Take
  BY <1>0, <1>5 DEF Take, Pop, Empty, Step
<1>6. CASE PutLine
  BY <1>0, <1>6 DEF PutLine, Step, dequeVars
<1>7. CASE CloseDeque
  BY <1>0, <1>7 DEF CloseDeque, Close, Step
<1> QED
  BY <1>1, <1>2, <1>3, <1>4, <1>5, <1>6, <1>7, LineMoves
-----------------------------------------------------------------------------
(* Every step preserves that each line is in one place.                    *)
Once == \A n \in 1 .. counted : Copies(n, line, deq, written) = 1

LEMMA OnceStep ==
  TypedP /\ Stages /\ Numbered /\ Disused /\ Once /\ [ProgramNext]_programVars => Once'
<1> SUFFICES ASSUME TypedP, Stages, Numbered, Disused, Once, [ProgramNext]_programVars,
                    NEW n \in 1 .. counted'
             PROVE  Copies(n, line', deq', written') = 1
  BY DEF Once
<1> USE Persons
<1>0. /\ line \in [Threads -> Nat] /\ counted \in Nat /\ deq \in Seq(Nat)
      /\ written \in Seq(Nat)
      /\ Cardinality(Hands(n, line)) \in Nat /\ Cardinality(Positions(deq, n)) \in Nat
      /\ Cardinality(Positions(written, n)) \in Nat
  BY HandsFinite, PositionsFinite DEF TypedP, Numbered
<1>1. n \in 1 .. counted => Cardinality(Hands(n, line)) + Cardinality(Positions(deq, n))
                               + Cardinality(Positions(written, n)) = 1
  BY DEF Once, Copies
<1>a. line \in [Threads -> Nat]
  BY <1>0
<1>b. ASSUME NEW t \in Threads, NEW y \in Nat, line' = [line EXCEPT ![t] = y], line[t] # y
      PROVE  Cardinality(Hands(n, line')) =
               Cardinality(Hands(n, line)) + Is(y, n) - Is(line[t], n)
  BY ONLY <1>a, <1>b, Handed
<1>2. CASE Stays
  BY <1>1, <1>2 DEF Stays, Copies
<1>3. ASSUME NEW w \in Producers, Count(w) PROVE Copies(n, line', deq', written') = 1
  <2>1. /\ at[w] = "count" /\ line' = [line EXCEPT ![w] = counted + 1]
        /\ counted' = counted + 1 /\ UNCHANGED <<deq, written>>
    BY <1>3 DEF Count, Step, dequeVars, diskVars
  <2>2. line[w] = 0
    BY <2>1 DEF Numbered
  <2>a. counted + 1 \in Nat /\ line[w] # counted + 1
    BY <1>0, <2>2
  <2>3. Cardinality(Hands(n, line')) =
          Cardinality(Hands(n, line)) + Is(counted + 1, n) - Is(line[w], n)
    BY <1>b, <2>1, <2>a
  <2>4. CASE n = counted + 1
    <3>1. Hands(n, line) = {} /\ Positions(deq, n) = {} /\ Positions(written, n) = {}
      BY <1>0, <2>4 DEF Numbered, Hands, Positions
    <3>2. Is(counted + 1, n) = 1 /\ Is(line[w], n) = 0
      BY <1>0, <2>2, <2>4 DEF Is
    <3> QED
      BY <2>1, <2>3, <3>1, <3>2, FS_EmptySet DEF Copies
  <2>5. CASE n # counted + 1
    <3>1. n \in 1 .. counted
      BY <1>0, <2>1, <2>5
    <3>2. Is(counted + 1, n) = 0 /\ Is(line[w], n) = 0
      BY <1>0, <2>2, <2>5, <3>1 DEF Is
    <3> QED
      BY <1>0, <1>1, <2>1, <2>3, <3>1, <3>2 DEF Copies
  <2> QED
    BY <2>4, <2>5
<1>4. ASSUME NEW t \in Threads, NEW x \in Nat, x # 0, line[t] = x,
             line' = [line EXCEPT ![t] = 0], UNCHANGED counted,
             \/ deq' = Append(deq, x) /\ UNCHANGED written
             \/ written' = Append(written, x) /\ UNCHANGED deq
      PROVE  Copies(n, line', deq', written') = 1
  <2>0. Cardinality(Hands(n, line)) + Cardinality(Positions(deq, n))
          + Cardinality(Positions(written, n)) = 1
    BY <1>1, <1>4
  <2>1. Cardinality(Hands(n, line')) =
          Cardinality(Hands(n, line)) + Is(0, n) - Is(line[t], n)
    BY <1>b, <1>4
  <2>2. Is(0, n) = 0 /\ Is(x, n) \in {0, 1} /\ Is(line[t], n) = Is(x, n)
    BY <1>4 DEF Is
  <2>3. CASE deq' = Append(deq, x) /\ UNCHANGED written
    <3>1. Cardinality(Positions(deq', n)) = Cardinality(Positions(deq, n)) + Is(x, n)
      BY <1>0, <2>3, Appended
    <3>2. Cardinality(Positions(written', n)) = Cardinality(Positions(written, n))
      BY <2>3
    <3> QED
      BY <1>0, <2>0, <2>1, <2>2, <3>1, <3>2 DEF Copies
  <2>4. CASE written' = Append(written, x) /\ UNCHANGED deq
    <3>1. Cardinality(Positions(written', n)) = Cardinality(Positions(written, n)) + Is(x, n)
      BY <1>0, <2>4, Appended
    <3>2. Cardinality(Positions(deq', n)) = Cardinality(Positions(deq, n))
      BY <2>4
    <3> QED
      BY <1>0, <2>0, <2>1, <2>2, <3>1, <3>2 DEF Copies
  <2> QED
    BY <1>4, <2>3, <2>4
<1>5. ASSUME NEW w \in Producers, Push(w) \/ Fputs(w)
      PROVE  Copies(n, line', deq', written') = 1
  <2>1. at[w] \in {"push", "fputs"} /\ line' = [line EXCEPT ![w] = 0] /\ UNCHANGED counted
    BY <1>5 DEF Push, Fputs, Step, NoLine
  <2>2. \/ deq' = Append(deq, line[w]) /\ UNCHANGED written
        \/ written' = Append(written, line[w]) /\ UNCHANGED deq
    BY <1>5 DEF Push, PushBack, Fputs, Put, dequeVars, diskVars
  <2>3. line[w] \in Nat /\ line[w] # 0
    BY <1>0, <2>1 DEF Numbered
  <2> QED
    BY <1>4, <2>1, <2>2, <2>3
<1>6. CASE PutLine
  <2>1. /\ at[Flusher] = "fputs" /\ line' = [line EXCEPT ![Flusher] = 0]
        /\ written' = Append(written, line[Flusher]) /\ UNCHANGED <<counted, deq>>
    BY <1>6 DEF PutLine, Put, Step, NoLine, dequeVars
  <2>2. line[Flusher] \in Nat /\ line[Flusher] # 0
    BY <1>0, <2>1 DEF Numbered
  <2> QED
    BY <1>4, <2>1, <2>2
<1>7. CASE Take
  <2>1. /\ at[Flusher] = "pop" /\ line' = [line EXCEPT ![Flusher] = Head(deq)]
        /\ deq # <<>> /\ deq' = Tail(deq) /\ UNCHANGED <<counted, written>>
    BY <1>7 DEF Take, Pop, Empty, Step, diskVars
  <2>2. line[Flusher] = 0 /\ Head(deq) \in Nat /\ Head(deq) # 0 /\ Flusher \in Threads
    BY <1>0, <2>1 DEF Numbered
  <2>b. line[Flusher] # Head(deq) /\ Head(deq) \in Nat /\ Flusher \in Threads
    BY <2>2
  <2>3. Cardinality(Hands(n, line')) =
          Cardinality(Hands(n, line)) + Is(Head(deq), n) - Is(line[Flusher], n)
    BY <1>b, <2>1, <2>b
  <2>4. Cardinality(Positions(deq', n)) = Cardinality(Positions(deq, n)) - Is(Head(deq), n)
    BY <1>0, <2>1, Tailed
  <2>5. Is(line[Flusher], n) = 0 /\ Is(Head(deq), n) \in {0, 1}
    BY <2>2 DEF Is
  <2> QED
    BY <1>0, <1>1, <2>1, <2>3, <2>4, <2>5 DEF Copies
<1>8. CASE CloseDeque
  <2>1. UNCHANGED <<line, deq, written, counted>>
    BY <1>8 DEF CloseDeque, Close, Step, lineVars, diskVars, Disused, Late
  <2> QED
    BY <1>1, <2>1 DEF Copies
<1> QED
  BY <1>2, <1>3, <1>5, <1>6, <1>7, <1>8, LineMoves

(* At the start no line was counted.                                       *)
LEMMA InitLines == ProgramInit => Numbered /\ Disused /\ Once
<1> SUFFICES ASSUME ProgramInit PROVE Numbered /\ Disused /\ Once
  OBVIOUS
<1> USE Persons DEF ProgramInit, LogInit
<1>1. deq = <<>> /\ written = <<>> /\ counted = 0
  BY DEF Init
<1>2. /\ \A t \in Threads : line[t] = 0
      /\ \A w \in Producers : at[w] = "idle"
      /\ at[Flusher] = "done"
  BY DEF NoLine
<1>3. Numbered /\ Disused
  BY <1>1, <1>2 DEF Numbered, Disused
<1> QED
  BY <1>1, <1>3 DEF Once

LineInv == IInv /\ Numbered /\ Disused /\ Once

LEMMA LinesInductive == ProgramSpec => []LineInv
<1>1. LineInv /\ [ProgramNext]_programVars => (Numbered /\ Disused /\ Once)'
  BY NumberedStep, DisusedStep, OnceStep DEF LineInv, IInv
<1>2. IInv /\ Numbered /\ Disused /\ Once => LineInv
  BY DEF LineInv
<1> QED
  BY <1>1, <1>2, InitLines, Inductive, PTL DEF ProgramSpec

(* Each line that was counted is in the hands of a thread, in the deque or *)
(* in a file, and there once, whoever writes it: neither the overflow into *)
(* the file nor the clear of Close loses one or writes one twice.          *)
THEOREM LinesKept == ProgramSpec => []LineInOnePlace
<1>1. LineInv => LineInOnePlace
  BY DEF LineInv, Once, LineInOnePlace, Copies, Hands, Positions
<1> QED
  BY <1>1, LinesInductive, PTL
-----------------------------------------------------------------------------
(* The lines that were counted are in files, in the deque or in hands.     *)
Carrying(l) == {t \in Threads : l[t] # 0}

Balanced == /\ Len(deq) <= Capacity
            /\ counted = Len(written) + Len(deq) + Cardinality(Carrying(line))

LEMMA CarryingFinite ==
  ASSUME NEW l
  PROVE  IsFiniteSet(Carrying(l)) /\ Cardinality(Carrying(l)) \in Nat
<1>1. IsFiniteSet(Threads)
  BY ThreadsAssumption, FS_Union DEF Threads
<1> QED
  BY <1>1, FS_Subset, FS_CardinalityType DEF Carrying

LEMMA TakenUp ==
  ASSUME line \in [Threads -> Nat], NEW t \in Threads, NEW x \in Nat, x # 0,
         line[t] = 0, line' = [line EXCEPT ![t] = x]
  PROVE  Cardinality(Carrying(line')) = Cardinality(Carrying(line)) + 1
<1>1. Carrying(line') = Carrying(line) \cup {t} /\ t \notin Carrying(line)
  BY DEF Carrying
<1> QED
  BY <1>1, CarryingFinite, FS_AddElement, ZenonT(30)

LEMMA PutDown ==
  ASSUME line \in [Threads -> Nat], NEW t \in Threads, line[t] # 0,
         line' = [line EXCEPT ![t] = 0]
  PROVE  Cardinality(Carrying(line')) = Cardinality(Carrying(line)) - 1
<1>1. Carrying(line') = Carrying(line) \ {t} /\ t \in Carrying(line)
  BY DEF Carrying
<1> QED
  BY <1>1, CarryingFinite, FS_RemoveElement

(* Every step keeps the balance, and the deque within its capacity.        *)
LEMMA BalancedStep ==
  LineInv /\ Balanced /\ [ProgramNext]_programVars => Balanced'
<1> SUFFICES ASSUME LineInv, Balanced, [ProgramNext]_programVars PROVE Balanced'
  OBVIOUS
<1> USE Persons, CapacityAssumption DEF Balanced
<1>0. /\ line \in [Threads -> Nat] /\ counted \in Nat /\ deq \in Seq(Nat)
      /\ written \in Seq(Nat) /\ TypedP /\ Stages /\ Holders
  BY DEF LineInv, IInv, TypedP, Numbered
<1>a. /\ \A w \in Producers : line[w] # 0 <=> at[w] \in {"push", "fputs"}
      /\ line[Flusher] # 0 <=> at[Flusher] = "fputs"
  BY DEF LineInv, Numbered
<1>b. Cardinality(Carrying(line)) \in Nat
  BY CarryingFinite
<1>1. CASE Stays
  BY <1>1 DEF Stays
<1>2. ASSUME NEW w \in Producers, Count(w) PROVE Balanced'
  <2>1. /\ at[w] = "count" /\ line' = [line EXCEPT ![w] = counted + 1]
        /\ counted' = counted + 1 /\ UNCHANGED <<deq, written>>
    BY <1>2 DEF Count, Step, dequeVars, diskVars
  <2>a. counted + 1 \in Nat /\ counted + 1 # 0 /\ line[w] = 0
    <3>1. line[w] = 0
      BY <1>a, <2>1
    <3>2. counted \in Nat
      BY <1>0
    <3> QED
      BY ONLY <3>1, <3>2
  <2>2. Cardinality(Carrying(line')) = Cardinality(Carrying(line)) + 1
    BY <1>0, <2>1, <2>a, TakenUp
  <2> QED
    BY <1>0, <1>b, <2>1, <2>2
<1>3. ASSUME NEW w \in Producers, Push(w) PROVE Balanced'
  <2>1. /\ at[w] = "push" /\ line' = [line EXCEPT ![w] = 0]
        /\ deq' = Append(deq, line[w]) /\ UNCHANGED <<counted, written>>
    BY <1>3 DEF Push, PushBack, Step, NoLine, diskVars
  <2>2. Cardinality(Carrying(line')) = Cardinality(Carrying(line)) - 1
    BY <1>0, <1>a, <2>1, PutDown
  <2>3. Len(deq) < Capacity /\ Len(deq') = Len(deq) + 1
    BY <1>0, <2>1 DEF Holders
  <2> QED
    BY <1>0, <1>b, <2>1, <2>2, <2>3, SMTT(30)
<1>4. ASSUME NEW t \in Threads, line[t] # 0, line' = [line EXCEPT ![t] = 0],
             written' = Append(written, line[t]), UNCHANGED <<counted, deq>>
      PROVE  Balanced'
  <2>1. Cardinality(Carrying(line')) = Cardinality(Carrying(line)) - 1
    BY <1>0, <1>4, PutDown
  <2>2. Len(written') = Len(written) + 1
    BY <1>0, <1>4
  <2> QED
    BY <1>0, <1>b, <1>4, <2>1, <2>2
<1>5. ASSUME NEW w \in Producers, Fputs(w) PROVE Balanced'
  <2>1. /\ at[w] = "fputs" /\ line' = [line EXCEPT ![w] = 0]
        /\ written' = Append(written, line[w]) /\ UNCHANGED <<counted, deq>>
    BY <1>5 DEF Fputs, Put, Step, NoLine, dequeVars
  <2> QED
    BY <1>4, <1>a, <2>1
<1>6. CASE PutLine
  <2>1. /\ at[Flusher] = "fputs" /\ line' = [line EXCEPT ![Flusher] = 0]
        /\ written' = Append(written, line[Flusher]) /\ UNCHANGED <<counted, deq>>
    BY <1>6 DEF PutLine, Put, Step, NoLine, dequeVars
  <2> QED
    BY <1>4, <1>a, <2>1
<1>7. CASE Take
  <2>1. /\ at[Flusher] = "pop" /\ line' = [line EXCEPT ![Flusher] = Head(deq)]
        /\ deq # <<>> /\ deq' = Tail(deq) /\ UNCHANGED <<counted, written>>
    BY <1>7 DEF Take, Pop, Empty, Step, diskVars
  <2>2. Head(deq) = deq[1] /\ 1 \in DOMAIN deq /\ Len(deq') = Len(deq) - 1
    BY <1>0, <2>1
  <2>3. Head(deq) \in Nat /\ Head(deq) # 0
    BY <1>0, <2>2, SMTT(30) DEF LineInv, Numbered
  <2>4. Cardinality(Carrying(line')) = Cardinality(Carrying(line)) + 1
    BY <1>0, <1>a, <2>1, <2>3, TakenUp
  <2>5. Len(deq) \in Nat /\ Len(written) \in Nat
    BY <1>0
  <2> QED
    BY <1>b, <2>1, <2>2, <2>4, <2>5, SMTT(30)
<1>8. CASE CloseDeque
  <2>1. UNCHANGED <<line, deq, written, counted>>
    BY <1>8 DEF CloseDeque, Close, Step, lineVars, diskVars, LineInv, Disused, Late
  <2> QED
    BY <2>1
<1> QED
  BY <1>0, <1>1, <1>2, <1>3, <1>5, <1>6, <1>7, <1>8, LineMoves

LEMMA InitBalanced == ProgramInit => Balanced
<1> SUFFICES ASSUME ProgramInit PROVE Balanced
  OBVIOUS
<1>1. deq = <<>> /\ written = <<>> /\ counted = 0 /\ Carrying(line) = {}
  BY DEF ProgramInit, LogInit, Init, Carrying, NoLine
<1> QED
  BY <1>1, FS_EmptySet, CapacityAssumption DEF Balanced
-----------------------------------------------------------------------------
(* While no writer holds a line, the lines that are in no file are those   *)
(* of the deque and that of the flusher.                                   *)
LEMMA FewValues ==
  ASSUME NEW s \in Seq(Nat)
  PROVE  IsFiniteSet({s[p] : p \in DOMAIN s}) /\ Cardinality({s[p] : p \in DOMAIN s}) <= Len(s)
<1> DEFINE V == {s[p] : p \in DOMAIN s}
           f == [p \in 1 .. Len(s) |-> s[p]]
<1>1. Len(s) \in Nat /\ DOMAIN s = 1 .. Len(s)
  OBVIOUS
<1>2. f \in Surjection(1 .. Len(s), V)
  BY <1>1 DEF Surjection
<1>3. IsFiniteSet(1 .. Len(s)) /\ Cardinality(1 .. Len(s)) = Len(s)
  <2>1. Cardinality(1 .. Len(s)) = IF 1 > Len(s) THEN 0 ELSE Len(s) - 1 + 1
    BY <1>1, FS_Interval, 1 \in Int, Len(s) \in Int
  <2>2. IsFiniteSet(1 .. Len(s))
    BY <1>1, FS_Interval
  <2> QED
    BY ONLY <1>1, <2>1, <2>2
<1> HIDE DEF V, f
<1>4. IsFiniteSet(V) /\ Cardinality(V) <= Cardinality(1 .. Len(s))
  BY <1>2, <1>3, FS_Surjection
<1> QED
  BY <1>3, <1>4 DEF V

LEMMA FewBehind ==
  ASSUME NEW l \in [Threads -> Nat], NEW d \in Seq(Nat), NEW wr \in Seq(Nat),
         NEW c \in Nat, \A n \in 1 .. c : Copies(n, l, d, wr) = 1,
         \A w \in Producers : l[w] = 0, Len(d) <= Capacity
  PROVE  /\ IsFiniteSet({n \in 1 .. c : \A q \in DOMAIN wr : wr[q] # n})
         /\ Cardinality({n \in 1 .. c : \A q \in DOMAIN wr : wr[q] # n}) <= Capacity + 1
<1> DEFINE S == {n \in 1 .. c : \A q \in DOMAIN wr : wr[q] # n}
           V == {d[p] : p \in DOMAIN d}
<1>1. ASSUME NEW n \in S PROVE n \in V \cup {l[Flusher]}
  <2>1. n # 0 /\ Positions(wr, n) = {} /\ Copies(n, l, d, wr) = 1
    BY DEF Positions
  <2>2. Hands(n, l) # {} \/ Positions(d, n) # {}
    <3>1. Cardinality(Hands(n, l)) + Cardinality(Positions(d, n)) # 0
      BY <2>1, FS_EmptySet, HandsFinite, PositionsFinite DEF Copies
    <3>2. SUFFICES ASSUME Hands(n, l) = {}, Positions(d, n) = {} PROVE FALSE
      OBVIOUS
    <3> QED
      BY <3>1, <3>2, FS_EmptySet
  <2>3. \A t \in Hands(n, l) : t = Flusher
    BY <2>1, Persons DEF Hands
  <2> QED
    BY <2>2, <2>3 DEF Hands, Positions
<1>2. IsFiniteSet(V) /\ Cardinality(V) <= Len(d) /\ Len(d) \in Nat
  <2>1. Len(d) \in Nat
    OBVIOUS
  <2> QED
    BY ONLY <2>1, d \in Seq(Nat), FewValues
<1> HIDE DEF S, V
<1>3. Cardinality(V) \in Nat
  BY <1>2, FS_CardinalityType
<1>4. IsFiniteSet(V \cup {l[Flusher]}) /\ Cardinality(V \cup {l[Flusher]}) <= Cardinality(V) + 1
  <2>1. /\ IsFiniteSet(V \cup {l[Flusher]})
        /\ Cardinality(V \cup {l[Flusher]}) =
             IF l[Flusher] \in V THEN Cardinality(V) ELSE Cardinality(V) + 1
    BY <1>2, FS_AddElement
  <2> QED
    BY <1>3, <2>1
<1>5. /\ IsFiniteSet(S) /\ Cardinality(S) <= Cardinality(V \cup {l[Flusher]})
      /\ Cardinality(S) \in Nat /\ Cardinality(V \cup {l[Flusher]}) \in Nat
  <2>1. S \in SUBSET (V \cup {l[Flusher]})
    BY <1>1
  <2> QED
    BY <1>4, <2>1, FS_Subset, FS_CardinalityType
<1> QED
  BY <1>2, <1>3, <1>4, <1>5, CapacityAssumption DEF S

(* The lines that a place of the file passes.                              *)
Behind(s, p) == {n \in 1 .. s[p] - 1 : \A q \in 1 .. p : s[q] # n}

LEMMA OvertakingStep ==
  /\ LineInv /\ Balanced /\ LineInv' /\ Balanced' /\ [ProgramNext]_programVars
  /\ BoundedOvertaking
  => BoundedOvertaking'
<1> SUFFICES ASSUME LineInv, Balanced, LineInv', Balanced', [ProgramNext]_programVars,
                    BoundedOvertaking
             PROVE  BoundedOvertaking'
  OBVIOUS
<1> USE Persons
<1>0. /\ written \in Seq(Nat) /\ TypedP /\ Stages /\ Holders
      /\ line' \in [Threads -> Nat] /\ counted' \in Nat /\ deq' \in Seq(Nat)
      /\ written' \in Seq(Nat)
      /\ \A w \in Producers : line'[w] # 0 <=> at'[w] \in {"push", "fputs"}
      /\ at \in [Threads -> Writing \cup Leaving \cup {"pop", "done"}]
      /\ \A n \in 1 .. counted' : Copies(n, line', deq', written') = 1
      /\ Len(deq') <= Capacity
      /\ \A p \in DOMAIN written' : written'[p] \in 1 .. counted'
  BY DEF LineInv, IInv, TypedP, Numbered, Once, Balanced
<1>1. ASSUME UNCHANGED written PROVE BoundedOvertaking'
  BY <1>1 DEF BoundedOvertaking
<1>2. ASSUME NEW x, written' = Append(written, x), \A w \in Producers : line'[w] = 0
      PROVE  BoundedOvertaking'
  <2> DEFINE L == Len(written) + 1
             S == {n \in 1 .. counted' : \A q \in DOMAIN written' : written'[q] # n}
  <2>1. /\ Len(written) \in Nat /\ DOMAIN written = 1 .. Len(written)
        /\ DOMAIN written' = 1 .. L /\ \A p \in 1 .. Len(written) : written'[p] = written[p]
    <3>1. x \in Nat
      <4>1. Append(written, x) \in Seq(Nat) /\ Append(written, x)[Len(written) + 1] = x
            /\ Len(written) + 1 \in DOMAIN Append(written, x)
        BY <1>0, <1>2
      <4> QED
        BY <4>1
    <3> QED
      BY <1>0, <1>2, <3>1
  <2>2. ASSUME NEW p \in 1 .. Len(written)
        PROVE  Cardinality(Behind(written', p)) <= Capacity + 1
    <3>1. Behind(written', p) = Behind(written, p)
      BY <2>1 DEF Behind
    <3> QED
      BY <2>1, <3>1 DEF BoundedOvertaking, Behind
  <2>3. IsFiniteSet(S) /\ Cardinality(S) <= Capacity + 1
    <3>1. /\ line' \in [Threads -> Nat] /\ deq' \in Seq(Nat) /\ written' \in Seq(Nat)
          /\ counted' \in Nat /\ \A n \in 1 .. counted' : Copies(n, line', deq', written') = 1
      BY <1>0, <1>2
    <3>2. /\ \A w \in Producers : line'[w] = 0
          /\ Len(deq') <= Capacity
      BY <1>0, <1>2
    <3> QED
      BY ONLY <3>1, <3>2, FewBehind
  <2>4. Behind(written', L) \in SUBSET S
    <3>0. L \in 1 .. L
      BY <2>1
    <3>1. L \in DOMAIN written' /\ written'[L] \in 1 .. counted'
      BY <1>0, <2>1, <3>0
    <3> HIDE DEF L
    <3>2. ASSUME NEW n \in Behind(written', L) PROVE n \in S
      <4>1. n \in 1 .. written'[L] - 1 /\ \A q \in 1 .. L : written'[q] # n
        BY DEF Behind
      <4>2. n \in 1 .. counted'
        BY <1>0, <3>1, <4>1
      <4> QED
        BY <2>1, <4>1, <4>2
    <3> HIDE DEF S
    <3> QED
      BY <3>2
  <2>5. Cardinality(Behind(written', L)) <= Capacity + 1
    <3> HIDE DEF S, L
    <3>1. /\ Cardinality(Behind(written', L)) <= Cardinality(S)
          /\ IsFiniteSet(Behind(written', L))
      BY <2>3, <2>4, FS_Subset
    <3>2. Cardinality(Behind(written', L)) \in Nat /\ Cardinality(S) \in Nat
      BY <2>3, <3>1, FS_CardinalityType
    <3> QED
      BY <2>3, <3>1, <3>2, CapacityAssumption
  <2> HIDE DEF S
  <2>6. ASSUME NEW p \in DOMAIN written'
        PROVE  Cardinality(Behind(written', p)) <= Capacity + 1
    <3>1. p \in 1 .. Len(written) \/ p = L
      BY <2>1
    <3> QED
      BY <2>2, <2>5, <3>1
  <2> QED
    BY <2>6 DEF BoundedOvertaking, Behind
<1>3. ASSUME NEW w \in Producers, Fputs(w) PROVE BoundedOvertaking'
  <2>1. /\ mtx = w /\ at' = [at EXCEPT ![w] = "flush"]
        /\ written' = Append(written, line[w])
    BY <1>3 DEF Fputs, Put, Unlock, Step
  <2>2. \A v \in Producers : at'[v] \notin {"push", "fputs"}
    BY <1>0, <2>1 DEF Holders
  <2> QED
    BY <1>0, <1>2, <2>1, <2>2
<1>4. CASE PutLine
  <2>1. /\ mtx = Nobody /\ at' = [at EXCEPT ![Flusher] = "pop"]
        /\ written' = Append(written, line[Flusher])
    BY <1>4 DEF PutLine, Put, Free, Step
  <2>2. \A v \in Producers : at'[v] \notin {"push", "fputs"}
    BY <1>0, <2>1 DEF Holders
  <2> QED
    BY <1>0, <1>2, <2>1, <2>2
<1>5. CASE Stays
  BY <1>1, <1>5 DEF Stays
<1>6. ASSUME NEW w \in Producers, Count(w) \/ Push(w) PROVE UNCHANGED written
  BY <1>6 DEF Count, Push, diskVars
<1>7. CASE Take \/ CloseDeque
  BY <1>1, <1>7 DEF Take, CloseDeque, diskVars
<1> QED
  BY <1>0, <1>1, <1>3, <1>4, <1>5, <1>6, <1>7, LineMoves

(* A line that is put into the file passes no lines but those of the deque *)
(* and the one the flusher has in hand, whoever writes directly and how    *)
(* often: at most Capacity + 1 lines of lower number come later.           *)
THEOREM FewOvertaken == ProgramSpec => []BoundedOvertaking
<1>1. ProgramInit => BoundedOvertaking
  BY DEF ProgramInit, LogInit, BoundedOvertaking
<1> QED
  BY <1>1, InitBalanced, BalancedStep, OvertakingStep, LinesInductive, PTL DEF ProgramSpec
-----------------------------------------------------------------------------
(* The log has a descriptor as long as it has a file, until ~HttpServer    *)
(* closes the number of listenFd; and a file that is closed was flushed.   *)
LogOpen ==
  pc \notin Early /\ (pc = "exit" => listenFd = NoFd) => fp = Closed \/ LogFd # {}

LEMMA LogOpenStep == IInv /\ LogOpen /\ [ProgramNext]_programVars => LogOpen'
<1> SUFFICES ASSUME IInv, LogOpen, [ProgramNext]_programVars PROVE LogOpen'
  OBVIOUS
<1> USE Persons
<1>0. /\ TypedP /\ Stages /\ Descriptors
      /\ files \in [Fds -> {"free", "epoll", "socket", "log"}]
  BY DEF IInv, TypedP
<1>1. CASE CheckPort \/ InitSocket
  <2>1. pc' \in Early
    BY <1>1 DEF CheckPort, InitSocket, Socket, SocketFails, Configure, ConfigureFails,
                SetFdNonblock, InitSocketFails, GoTo, Early, SocketCalls
  <2> QED
    BY <2>1 DEF LogOpen
<1>2. ASSUME files' = With("log"), \A f \in Fds : files[f] # "log" PROVE LogFd' # {}
  <2>1. Min(Unused) \in Fds
    BY <1>0, <1>2, NextFd
  <2>2. files'[Min(Unused)] = "log"
    BY <1>0, <1>2, <2>1 DEF With
  <2> QED
    BY <2>1, <2>2 DEF LogFd
<1>3. CASE InitLog
  <2>1. pc \in Early
    BY <1>3 DEF InitLog, GoTo, Early
  <2>2. CASE OpenLog(TRUE)
    <3>1. files' = With("log") /\ \A f \in Fds : files[f] # "log"
      BY <1>0, <2>1, <2>2 DEF OpenLog, Descriptors
    <3> QED
      BY <1>2, <3>1 DEF LogOpen
  <2>3. CASE OpenLog(FALSE)
    <3>1. fp' = Closed
      BY <1>0, <2>1, <2>3 DEF OpenLog, fileVars, Stages
    <3> QED
      BY <3>1 DEF LogOpen
  <2> QED
    BY <1>3, <2>2, <2>3 DEF InitLog
<1>4. ASSUME UNCHANGED <<fp, files>>, pc \notin Early, pc = "exit" => pc' = "exit",
             UNCHANGED listenFd
      PROVE  LogOpen'
  BY <1>4 DEF LogOpen, LogFd
<1>5. CASE Start \/ Exit
  <2>1. /\ UNCHANGED <<fp, files, listenFd>> /\ pc \notin Early
        /\ pc = "exit" => pc' = "exit"
    BY <1>5 DEF Start, Exit, Destroy, GoTo, logVars, fileVars, serverVars, Early, SocketCalls
  <2> QED
    BY <1>4, <2>1
<1>6. CASE DestroyServer
  <2>1. /\ pc = "leave" /\ UNCHANGED <<fp, listenFd>>
        /\ files' = [f \in Fds |-> IF f \in CloseListenFd \cup CloseEpollFd THEN "free"
                                                                        ELSE files[f]]
    BY <1>6 DEF DestroyServer, GoTo
  <2>2. fp = Closed \/ LogFd # {}
    BY <2>1 DEF LogOpen, Early, SocketCalls
  <2>3. ASSUME listenFd = NoFd, NEW f \in LogFd PROVE f \in LogFd'
    <3>1. f \in Fds /\ files[f] = "log" /\ f # listenFd
      BY <2>3, FdsAssumption DEF LogFd, NoFd
    <3>2. f \notin CloseListenFd \cup CloseEpollFd
      BY <3>1 DEF CloseListenFd, CloseEpollFd
    <3> QED
      BY <2>1, <3>1, <3>2 DEF LogFd
  <2>4. CASE listenFd = NoFd
    BY <2>1, <2>2, <2>3, <2>4 DEF LogOpen
  <2>5. CASE listenFd # NoFd
    <3>1. pc' = "exit"
      BY <1>6 DEF DestroyServer, GoTo
    <3> QED
      BY <2>1, <2>5, <3>1 DEF LogOpen
  <2> QED
    BY <2>4, <2>5
<1>7. ASSUME UNCHANGED serverVars, UNCHANGED <<fp, files>> PROVE LogOpen'
  BY <1>7 DEF LogOpen, LogFd, serverVars
<1>8. ASSUME NEW w \in Producers, BeginStep(w) PROVE LogOpen'
  BY <1>7, <1>8 DEF BeginStep, Begin, fileVars
<1>9. ASSUME NEW w \in Producers, Write(w), UNCHANGED serverVars PROVE LogOpen'
  <2>1. CASE Fclose(w)
    BY <2>1 DEF Fclose, LogOpen
  <2>2. CASE Fopen(w)
    <3>1. files' = With("log") /\ \A f \in Fds : files[f] # "log"
      BY <1>0, <2>2 DEF Fopen, Step, Descriptors
    <3> QED
      BY <1>2, <3>1 DEF LogOpen
  <2>3. ASSUME ~Fclose(w), ~Fopen(w) PROVE UNCHANGED <<fp, files>>
    BY <1>9, <2>3 DEF Write, Check, CheckDay, CheckLines, Touch, Rename, TestDay, NewDay,
                      Restart, NewPart, FopenFails, Count, Push, Fputs, NotifyFlusher,
                      FlushLine, fileVars
  <2> QED
    BY <1>7, <1>9, <2>1, <2>2, <2>3
<1>10. CASE Join
  BY <1>10 DEF Join, LogOpen
<1>11. CASE /\ AsyncWrite \/ Spurious \/ Destructor \/ Midnight
            /\ UNCHANGED serverVars /\ ~Join
  <2>1. UNCHANGED <<fp, files>>
    BY <1>11 DEF AsyncWrite, Take, Sleep, Leave, PutLine, Spurious, Destructor, Drain,
                 Drained, CloseDeque, NotifyAll, Midnight, logVars, fileVars
  <2> QED
    BY <1>7, <1>11, <2>1
<1>12. CASE UNCHANGED programVars
  BY <1>7, <1>12 DEF programVars, logVars, fileVars
<1> QED
  BY <1>1, <1>3, <1>5, <1>6, <1>8, <1>9, <1>10, <1>11, <1>12, Cases DEF ServerStep

(* What has left the buffer of stdio.                                      *)
FlushedSoFar == /\ flushed \in 0 .. Len(written)
                /\ \A w \in Producers : at[w] = "fopen" => flushed = Len(written)

LEMMA FlushMoves ==
  [ProgramNext]_programVars => flushed' \in {flushed, Len(written)}
<1> SUFFICES ASSUME [ProgramNext]_programVars PROVE flushed' \in {flushed, Len(written)}
  OBVIOUS
<1>1. CASE ServerStep
  BY <1>1 DEF ServerStep, CheckPort, InitSocket, InitLog, OpenLog, Start, DestroyServer,
              Exit, Destroy, logVars, diskVars
<1>2. ASSUME NEW w \in Producers, BeginStep(w) \/ Write(w)
      PROVE  flushed' \in {flushed, Len(written)}
  BY <1>2 DEF BeginStep, Begin, Write, Check, CheckDay, CheckLines, Touch, Rename, TestDay,
              NewDay, Restart, NewPart, Fclose, Fopen, FopenFails, Count, Push, Fputs, Put,
              NotifyFlusher, FlushLine, Fflush, diskVars
<1>3. CASE AsyncWrite \/ Spurious \/ Destructor \/ Midnight \/ UNCHANGED programVars
  BY <1>3 DEF AsyncWrite, Take, Sleep, Leave, PutLine, Put, Spurious, Destructor, Drain,
              Drained, CloseDeque, NotifyAll, Join, Fflush, Midnight, programVars, logVars,
              diskVars
<1> QED
  BY <1>1, <1>2, <1>3, Cases

(* The log is open and nobody changes its file: what is flushed is all.    *)
LEMMA LogIsOpen ==
  ASSUME IInv, LogOpen, Alive, at[Main] # "end", pc \notin Early,
         pc = "exit" => listenFd = NoFd, \A w \in Producers : at[w] # "fopen"
  PROVE  fp # Closed /\ LogFd # {}
BY DEF IInv, Opened, LogOpen

LEMMA FlushedStep ==
  LineInv /\ LogOpen /\ FlushedSoFar /\ [ProgramNext]_programVars => FlushedSoFar'
<1> SUFFICES ASSUME LineInv, LogOpen, FlushedSoFar, [ProgramNext]_programVars
             PROVE  FlushedSoFar'
  OBVIOUS
<1> USE Persons
<1>0. /\ written \in Seq(Nat) /\ IInv /\ TypedP /\ Stages /\ Holders
      /\ at \in [Threads -> Writing \cup Leaving \cup {"pop", "done"}]
  BY DEF LineInv, IInv, TypedP, Numbered
<1>1. UNCHANGED written \/ \E x : written' = Append(written, x)
  <2>1. ASSUME NEW w \in Producers, Count(w) \/ Push(w) \/ Fputs(w)
        PROVE  UNCHANGED written \/ \E x : written' = Append(written, x)
    BY <2>1 DEF Count, Push, Fputs, Put, diskVars
  <2>2. CASE Stays \/ Take \/ PutLine \/ CloseDeque
    BY <2>2 DEF Stays, Take, PutLine, Put, CloseDeque, diskVars
  <2> QED
    BY <1>0, <2>1, <2>2, LineMoves
<1>2. flushed' \in 0 .. Len(written')
  <2>1. Len(written) \in Nat /\ Len(written') \in {Len(written), Len(written) + 1}
    BY <1>0, <1>1
  <2>2. flushed \in 0 .. Len(written) /\ flushed' \in {flushed, Len(written)}
    BY FlushMoves DEF FlushedSoFar
  <2> QED
    BY <2>1, <2>2
<1>3. ASSUME NEW v \in Producers, Fclose(v) PROVE flushed' = Len(written')
  <2>1. /\ Alive /\ at[v] = "fclose" /\ mtx = Nobody
        /\ flushed' = IF LogFd # {} THEN Len(written) ELSE flushed
        /\ UNCHANGED written
    BY <1>3 DEF Fclose, Step, Lock, Fflush
  <2>2. \A w \in Producers : at[w] # "fopen"
    BY <1>0, <2>1 DEF Holders
  <2>3. at[Main] # "end" /\ pc \notin Early /\ pc # "exit"
    BY <1>0, <2>1 DEF Stages, Leaving
  <2>4. LogFd # {}
    BY <1>0, <2>1, <2>2, <2>3, LogIsOpen
  <2> QED
    BY <2>1, <2>4
<1>4. ASSUME NEW v \in Producers, at[v] = "fopen" PROVE flushed' = Len(written')
  <2>1. UNCHANGED written
    <3>1. ASSUME NEW w \in Producers, Fputs(w) PROVE FALSE
      BY <1>0, <1>4, <3>1 DEF Fputs, Step, Unlock, Holders
    <3>2. ASSUME PutLine PROVE FALSE
      BY <1>0, <1>4, <3>2 DEF PutLine, Free, Holders
    <3>3. ASSUME NEW w \in Producers, Count(w) \/ Push(w) PROVE UNCHANGED written
      BY <3>3 DEF Count, Push, diskVars
    <3>4. CASE Stays \/ Take \/ CloseDeque
      BY <3>4 DEF Stays, Take, CloseDeque, diskVars
    <3> QED
      BY <1>0, <3>1, <3>2, <3>3, <3>4, LineMoves
  <2> QED
    BY <1>4, <2>1, FlushMoves DEF FlushedSoFar
<1>5. ASSUME NEW v \in Producers, at'[v] = "fopen"
      PROVE  at[v] = "fopen" \/ Fclose(v)
  <2>1. ASSUME NEW w \in Producers, BeginStep(w) PROVE at[v] = "fopen"
    BY <1>0, <1>5, <2>1 DEF BeginStep, Begin, Step
  <2>2. ASSUME NEW w \in Producers, Write(w), ~Fclose(w) PROVE at[v] = "fopen"
    <3>1. \E there \in Writing \ {"fopen"} : at' = [at EXCEPT ![w] = there]
      BY <2>2 DEF Write, Check, CheckDay, CheckLines, Touch, Rename, TestDay, NewDay, Restart,
                  NewPart, Fopen, FopenFails, Count, Push, Fputs, NotifyFlusher, FlushLine,
                  Step, Writing
    <3> QED
      BY <1>0, <1>5, <3>1
  <2>3. ASSUME NEW w \in Producers, Fclose(w), w # v PROVE at[v] = "fopen"
    BY <1>0, <1>5, <2>3 DEF Fclose, Step
  <2>4. ASSUME \/ ServerStep
               \/ (AsyncWrite \/ Spurious \/ Destructor \/ Midnight) /\ UNCHANGED serverVars
               \/ UNCHANGED programVars
        PROVE  at[v] = "fopen"
    BY <1>0, <1>5, <2>4, OthersMove DEF Aside
  <2> QED
    BY <2>1, <2>2, <2>3, <2>4, Cases
<1> QED
  BY <1>2, <1>3, <1>4, <1>5 DEF FlushedSoFar
-----------------------------------------------------------------------------
(* What may be lost: less is bound to be in the deque or in hands.         *)
FewLost == counted - flushed <= Capacity + 1 + Cardinality(Unfinished)

NoneLost == at[Main] = "end" /\ listenFd = NoFd => counted = flushed

LEMMA SubsetCount ==
  ASSUME NEW S \in SUBSET Producers
  PROVE  IsFiniteSet(S) /\ Cardinality(S) \in Nat
BY ThreadsAssumption, FS_Subset, FS_CardinalityType

(* The lines in hands are those of threads that have not come to the end.  *)
LEMMA FewCarried ==
  ASSUME Numbered, NEW S \in SUBSET Producers,
         \A w \in Producers : at[w] \in {"push", "fputs"} => w \in S
  PROVE  Cardinality(Carrying(line)) <= 1 + Cardinality(S)
<1>1. Carrying(line) \in SUBSET (S \cup {Flusher})
  BY Persons DEF Numbered, Carrying
<1>2. IsFiniteSet(S) /\ Cardinality(S) \in Nat
  BY SubsetCount
<1>3. /\ IsFiniteSet(S \cup {Flusher})
      /\ Cardinality(S \cup {Flusher}) =
           IF Flusher \in S THEN Cardinality(S) ELSE Cardinality(S) + 1
  BY <1>2, FS_AddElement
<1>4. Cardinality(Carrying(line)) <= Cardinality(S \cup {Flusher})
  BY <1>1, <1>3, FS_Subset
<1>5. Cardinality(Carrying(line)) \in Nat
  BY CarryingFinite
<1> QED
  BY <1>2, <1>3, <1>4, <1>5

(* A thread joins those that have not come to the end when it counts its   *)
(* line, and it leaves them when it comes back from fflush.                *)
LEMMA UnfinishedMoves ==
  ASSUME TypedP, Stages, [ProgramNext]_programVars
  PROVE  \/ Unfinished \subseteq Unfinished' /\ UNCHANGED counted
         \/ \E w \in Producers :
              \/ Count(w) /\ Unfinished' = Unfinished \cup {w} /\ w \notin Unfinished
              \/ FlushLine(w) /\ Unfinished' = Unfinished \ {w} /\ w \in Unfinished
<1> USE Persons
<1>0. at \in [Threads -> Writing \cup Leaving \cup {"pop", "done"}]
  BY DEF TypedP
<1>1. ASSUME NEW w \in Producers, Count(w)
      PROVE  Unfinished' = Unfinished \cup {w} /\ w \notin Unfinished
  <2>1. /\ at[w] = "count"
        /\ \E s \in {"push", "fputs"} : at' = [at EXCEPT ![w] = s]
    BY <1>1 DEF Count, Step
  <2> QED
    BY <1>0, <2>1 DEF Unfinished
<1>2. ASSUME NEW w \in Producers, FlushLine(w)
      PROVE  \/ Unfinished' = Unfinished \ {w} /\ w \in Unfinished
             \/ Unfinished' = Unfinished /\ UNCHANGED counted
  <2>1. /\ at[w] = "fflush" /\ UNCHANGED counted
        /\ \E s \in {"idle", "killed"} : at' = [at EXCEPT ![w] = s]
    BY <1>2 DEF FlushLine, Step, lineVars
  <2> QED
    BY <1>0, <2>1 DEF Unfinished
<1>3. ASSUME NEW w \in Producers, Write(w), ~Count(w), ~FlushLine(w)
      PROVE  Unfinished \subseteq Unfinished' /\ UNCHANGED counted
  <2>1. CASE Check(w) \/ Touch(w) \/ Rename(w) \/ Fclose(w) \/ Fopen(w) \/ FopenFails(w)
    <3>1. /\ at[w] \in Aside \ {"push", "fputs"} /\ UNCHANGED counted
          /\ \E s \in Writing : at' = [at EXCEPT ![w] = s]
      BY <2>1 DEF Check, CheckDay, CheckLines, Touch, Rename, TestDay, NewDay, Restart, NewPart,
                  Fclose, Fopen, FopenFails, Step, Writing, Aside, lineVars
    <3> QED
      BY <1>0, <3>1 DEF Unfinished, Aside
  <2>2. CASE Push(w) \/ Fputs(w) \/ NotifyFlusher(w)
    <3>1. /\ at[w] \in {"push", "fputs", "flush"} /\ UNCHANGED counted
          /\ \E s \in {"flush", "fflush"} : at' = [at EXCEPT ![w] = s]
      BY <2>2 DEF Push, Fputs, NotifyFlusher, Step, lineVars
    <3> QED
      BY <1>0, <3>1 DEF Unfinished
  <2> QED
    BY <1>3, <2>1, <2>2 DEF Write
<1>4. ASSUME NEW w \in Producers, BeginStep(w)
      PROVE  Unfinished \subseteq Unfinished' /\ UNCHANGED counted
  BY <1>0, <1>4 DEF BeginStep, Begin, Step, Unfinished, lineVars
<1>5. CASE ServerStep
  <2>1. UNCHANGED counted
    BY <1>5 DEF ServerStep, CheckPort, InitSocket, InitLog, OpenLog, Start, DestroyServer,
                Exit, Destroy, logVars, lineVars
  <2>2. CASE InitLog
    <3>1. \A w \in Producers : at[w] = "idle"
      BY <2>2 DEF InitLog, GoTo, Stages, Early
    <3> QED
      BY <2>1, <3>1 DEF Unfinished
  <2>3. CASE Exit
    BY <1>0, <2>1, <2>3 DEF Exit, Destroy, Step, Unfinished
  <2>4. CASE CheckPort \/ InitSocket \/ Start \/ DestroyServer
    <3>1. UNCHANGED at
      BY <2>4 DEF CheckPort, InitSocket, Start, DestroyServer, logVars
    <3> QED
      BY <2>1, <3>1 DEF Unfinished
  <2> QED
    BY <1>5, <2>2, <2>3, <2>4 DEF ServerStep
<1>6. CASE (AsyncWrite \/ Spurious \/ Midnight) /\ UNCHANGED serverVars
  <2>1. UNCHANGED counted /\ \A w \in Producers : at'[w] = at[w]
    BY <1>0, <1>6 DEF AsyncWrite, Take, Sleep, Leave, PutLine, Spurious, Midnight, Step,
                      logVars, lineVars
  <2> QED
    BY <2>1 DEF Unfinished
<1>7. CASE Destructor
  <2>1. /\ UNCHANGED counted /\ at[Main] \in Leaving
        /\ \A w \in Producers \ {Main} : at'[w] = at[w]
    BY <1>0, <1>7 DEF Destructor, Drain, Drained, CloseDeque, NotifyAll, Join, Step, Leaving,
                      logVars, lineVars
  <2> QED
    BY <2>1 DEF Unfinished, Leaving
<1>8. CASE UNCHANGED programVars
  BY <1>8 DEF programVars, logVars, lineVars, Unfinished
<1> QED
  BY <1>1, <1>2, <1>3, <1>4, <1>5, <1>6, <1>7, <1>8, Cases

LossInv == LineInv /\ Balanced /\ LogOpen /\ FlushedSoFar

LEMMA FewLostStep ==
  LossInv /\ FewLost /\ [ProgramNext]_programVars => FewLost'
<1> SUFFICES ASSUME LossInv, FewLost, [ProgramNext]_programVars PROVE FewLost'
  OBVIOUS
<1> USE Persons, CapacityAssumption
<1>0. /\ IInv /\ TypedP /\ Stages /\ Holders /\ Numbered /\ Balanced /\ LogOpen
      /\ FlushedSoFar /\ counted \in Nat /\ written \in Seq(Nat) /\ deq \in Seq(Nat)
      /\ at \in [Threads -> Writing \cup Leaving \cup {"pop", "done"}]
  BY DEF LossInv, LineInv, IInv, TypedP, Numbered
<1>1. /\ flushed \in Nat /\ Len(written) \in Nat /\ flushed <= Len(written)
      /\ flushed' \in {flushed, Len(written)}
  BY <1>0, FlushMoves DEF FlushedSoFar
<1>2. /\ IsFiniteSet(Unfinished) /\ Cardinality(Unfinished) \in Nat
      /\ IsFiniteSet(Unfinished') /\ Cardinality(Unfinished') \in Nat
  <2>1. Unfinished \in SUBSET Producers /\ Unfinished' \in SUBSET Producers
    BY DEF Unfinished
  <2> QED
    BY <2>1, SubsetCount
<1>3. CASE Unfinished \subseteq Unfinished' /\ UNCHANGED counted
  <2>1. Cardinality(Unfinished) <= Cardinality(Unfinished')
    BY <1>2, <1>3, FS_Subset
  <2> QED
    BY <1>0, <1>1, <1>2, <1>3, <2>1 DEF FewLost
<1>4. ASSUME NEW w \in Producers, Count(w), Unfinished' = Unfinished \cup {w},
             w \notin Unfinished
      PROVE  FewLost'
  <2>1. Cardinality(Unfinished') = Cardinality(Unfinished) + 1
    BY <1>2, <1>4, FS_AddElement
  <2>2. counted' = counted + 1
    BY <1>4 DEF Count
  <2> QED
    BY <1>0, <1>1, <1>2, <2>1, <2>2 DEF FewLost
<1>5. ASSUME NEW w \in Producers, FlushLine(w), Unfinished' = Unfinished \ {w},
             w \in Unfinished
      PROVE  FewLost'
  <2>1. Alive /\ at[w] = "fflush" /\ UNCHANGED counted
    BY <1>5 DEF FlushLine, Step, lineVars
  <2>2. at[Main] # "end" /\ pc \notin Early /\ pc # "exit"
    BY <1>0, <2>1 DEF Stages, Leaving
  <2>3. flushed' = Len(written)
    <3>1. CASE fp # Closed
      <4>1. LogFd # {}
        BY <1>0, <2>2, <3>1 DEF LogOpen
      <4> QED
        BY <1>5, <3>1, <4>1 DEF FlushLine, Fflush
    <3>2. CASE fp = Closed
      <4>1. \E v \in Producers : at[v] = "fopen"
        BY <1>0, <2>1, <2>2, <3>2 DEF IInv, Opened
      <4> QED
        BY <1>1, <4>1, <1>0 DEF FlushedSoFar
    <3> QED
      BY <3>1, <3>2
  <2>4. Cardinality(Carrying(line)) <= 1 + Cardinality(Unfinished')
    <3>1. Unfinished' \in SUBSET Producers
      BY DEF Unfinished
    <3>2. \A v \in Producers : at[v] \in {"push", "fputs"} => v \in Unfinished'
      BY <1>5, <2>1 DEF Unfinished
    <3> QED
      BY <1>0, <3>1, <3>2, FewCarried
  <2>5. Cardinality(Carrying(line)) \in Nat /\ Len(deq) \in Nat
    BY <1>0, CarryingFinite
  <2>6. /\ counted = Len(written) + Len(deq) + Cardinality(Carrying(line))
        /\ Len(deq) <= Capacity
    BY <1>0 DEF Balanced
  <2>7. counted' - flushed' = Len(deq) + Cardinality(Carrying(line))
    BY <1>1, <2>1, <2>3, <2>5, <2>6
  <2> QED
    BY <1>2, <2>4, <2>5, <2>6, <2>7 DEF FewLost
<1> QED
  BY <1>0, <1>3, <1>4, <1>5, UnfinishedMoves

LEMMA NoneLostStep ==
  LossInv /\ NoneLost /\ [ProgramNext]_programVars => NoneLost'
<1> SUFFICES ASSUME LossInv, NoneLost, [ProgramNext]_programVars,
                    at'[Main] = "end", listenFd' = NoFd
             PROVE  counted' = flushed'
  BY DEF NoneLost
<1> USE Persons
<1>0. /\ IInv /\ TypedP /\ Stages /\ Holders /\ Numbered /\ Disused /\ Balanced /\ LogOpen
      /\ counted \in Nat /\ written \in Seq(Nat)
      /\ at \in [Threads -> Writing \cup Leaving \cup {"pop", "done"}]
  BY DEF LossInv, LineInv, IInv, TypedP, Numbered
<1>1. CASE Join /\ UNCHANGED serverVars
  <2>1. /\ Alive /\ at[Main] = "join" /\ at[Flusher] = "done" /\ mtx = Nobody
        /\ flushed' = (IF LogFd # {} THEN Len(written) ELSE flushed)
        /\ UNCHANGED <<counted, listenFd>>
    BY <1>1 DEF Join, Step, Free, Fflush, lineVars, serverVars
  <2>2. pc = "exit" /\ pc \notin Early /\ \A w \in Producers : at[w] \in {"idle", "join"}
    BY <1>0, <2>1 DEF Stages, Leaving, Early, SocketCalls
  <2>3. LogFd # {}
    BY <1>0, <2>1, <2>2, LogIsOpen
  <2>4. Carrying(line) = {} /\ deq = <<>>
    BY <1>0, <2>1, <2>2 DEF Carrying, Numbered, Disused, Late
  <2> QED
    BY <1>0, <2>1, <2>3, <2>4, FS_EmptySet DEF Balanced
<1>2. ASSUME ~Join, at[Main] = "end" PROVE counted' = flushed'
  <2>0. /\ pc = "exit" /\ at[Flusher] = "done"
        /\ \A w \in Producers : at[w] \in {"idle", "end"}
    BY <1>0, <1>2 DEF Stages, Leaving
  <2>1. ~ServerStep
    BY <1>2, <2>0 DEF ServerStep, CheckPort, InitSocket, Socket, SocketFails, Configure,
                      ConfigureFails, SetFdNonblock, InitLog, Start, DestroyServer, GoTo,
                      Exit, Destroy, Step, SocketCalls
  <2>2. \A w \in Producers : ~BeginStep(w) /\ ~Write(w)
    <3>1. \A w \in Producers : ~BeginStep(w)
      BY <2>0 DEF BeginStep
    <3>2. \A w \in Producers : ~Write(w)
      BY <1>0, <2>0, WriteMoves DEF Writing
    <3> QED
      BY <3>1, <3>2
  <2>3. UNCHANGED <<counted, flushed, listenFd>>
    <3>1. \/ (AsyncWrite \/ Spurious \/ Destructor \/ Midnight) /\ UNCHANGED serverVars
          \/ UNCHANGED programVars
      BY <2>1, <2>2, Cases
    <3>2. ~Take /\ ~Leave /\ ~PutLine /\ ~Drained /\ ~CloseDeque /\ ~NotifyAll /\ ~Drain
      BY <1>2, <2>0 DEF Take, Leave, PutLine, Drained, CloseDeque, NotifyAll, Drain, Step
    <3> QED
      BY <1>2, <3>1, <3>2 DEF AsyncWrite, Sleep, Spurious, Destructor, Midnight, serverVars,
                              programVars, logVars, lineVars, diskVars
  <2> QED
    BY <1>2, <2>3 DEF NoneLost
<1>3. ASSUME at[Main] # "end" PROVE Join /\ UNCHANGED serverVars
  <2>1. ASSUME NEW w \in Producers, BeginStep(w) \/ Write(w) PROVE FALSE
    <3>1. CASE BeginStep(w)
      BY <1>0, <1>3, <3>1 DEF BeginStep, Begin, Step
    <3>2. CASE Write(w)
      BY <1>0, <1>3, <3>2, WriteMoves DEF Writing
    <3> QED
      BY <2>1, <3>1, <3>2
  <2>2. ASSUME ServerStep PROVE FALSE
    <3>1. CASE InitLog
      <4>1. at[Main] = "idle"
        BY <1>0, <3>1 DEF InitLog, GoTo, Stages, Early
      <4> QED
        BY <1>0, <3>1, <4>1 DEF InitLog, OpenLog
    <3>2. CASE CheckPort \/ InitSocket \/ Start \/ DestroyServer
      BY <1>3, <3>2 DEF CheckPort, InitSocket, Start, DestroyServer, logVars
    <3>3. CASE Exit
      BY <1>0, <3>3 DEF Exit, Destroy, Step
    <3> QED
      BY <2>2, <3>1, <3>2, <3>3 DEF ServerStep
  <2>3. ~Take /\ ~Leave /\ ~PutLine
    BY <1>0, <1>3 DEF Take, Leave, PutLine, Step
  <2>4. ~Drained /\ ~CloseDeque /\ ~NotifyAll
    BY <1>0 DEF Drained, CloseDeque, NotifyAll, Step
  <2> QED
    BY <1>3, <2>1, <2>2, <2>3, <2>4, Cases
    DEF AsyncWrite, Sleep, Spurious, Destructor, Drain, Midnight, programVars, logVars
<1> QED
  BY <1>1, <1>2, <1>3 DEF Stages, Join, Step

LEMMA InitLoss == ProgramInit => LogOpen /\ FlushedSoFar /\ FewLost /\ NoneLost
<1> SUFFICES ASSUME ProgramInit PROVE LogOpen /\ FlushedSoFar /\ FewLost /\ NoneLost
  OBVIOUS
<1> USE Persons, CapacityAssumption
<1>1. /\ pc = "port" /\ written = <<>> /\ counted = 0 /\ flushed = 0
      /\ \A w \in Producers : at[w] = "idle"
  BY DEF ProgramInit, LogInit
<1>2. Unfinished = {}
  BY <1>1 DEF Unfinished
<1> QED
  BY <1>1, <1>2, FS_EmptySet DEF LogOpen, Early, FlushedSoFar, FewLost, NoneLost

LEMMA LossInductive == ProgramSpec => []LossInv
<1>1. LineInv /\ Balanced /\ LogOpen /\ FlushedSoFar => LossInv
  BY DEF LossInv
<1>2. LineInv => IInv
  BY DEF LineInv
<1> QED
  BY <1>1, <1>2, InitBalanced, InitLoss, BalancedStep, LogOpenStep, FlushedStep,
     LinesInductive, PTL DEF ProgramSpec

(* If the process is killed, what is lost is bounded by the capacity, the  *)
(* line of the flusher and one line for each thread within LOG_BASE, also  *)
(* when their flush runs into a change of file.  A program that ends by    *)
(* itself loses nothing, unless ~HttpServer closes a descriptor that       *)
(* InitSocket has given back.                                              *)
THEOREM LossIsBounded == ProgramSpec => []BoundedLoss
<1>1. FewLost /\ NoneLost /\ LossInv => BoundedLoss
  <2> SUFFICES ASSUME FewLost, NoneLost, LossInv PROVE BoundedLoss
    OBVIOUS
  <2>1. counted \in Nat
    BY DEF LossInv, LineInv, IInv, TypedP
  <2> QED
    BY <2>1 DEF BoundedLoss, FewLost, NoneLost
<1> QED
  BY <1>1, InitLoss, FewLostStep, NoneLostStep, LossInductive, PTL DEF ProgramSpec
-----------------------------------------------------------------------------
(* The types of ProgramTypeOK that the proofs above did not need.          *)
WaitStates == {"none", "waitConsumer", "wokenConsumer", "waitProducer", "wokenProducer"}

QueueTyped == /\ isClose \in BOOLEAN /\ closing \in BOOLEAN
              /\ wait \in [Threads -> WaitStates]
              /\ added \in Seq(Nat) /\ popped \in Seq(Nat)

(* The deque of the log is used by its operations only.                    *)
LEMMA QueueMoves ==
  ASSUME [ProgramNext]_programVars
  PROVE  \/ UNCHANGED dequeVars \/ Flush \/ Pop(Flusher) \/ PopWaits(Flusher)
         \/ PopClosed(Flusher) \/ SpuriousWakeup(Flusher) \/ Close \/ CloseNotify
         \/ \E w \in Producers : PushBack(w, line[w])
<1>1. CASE ServerStep
  BY <1>1 DEF ServerStep, CheckPort, InitSocket, InitLog, OpenLog, Start, DestroyServer,
              Exit, Destroy
<1>2. ASSUME NEW w \in Producers, BeginStep(w) \/ Write(w)
      PROVE  UNCHANGED dequeVars \/ Flush \/ PushBack(w, line[w])
  BY <1>2 DEF BeginStep, Begin, Write, Check, CheckDay, CheckLines, Touch, Rename, TestDay,
              NewDay, Restart, NewPart, Fclose, Fopen, FopenFails, Count, Push, Fputs,
              NotifyFlusher, FlushLine, FlushDeque
<1>3. CASE AsyncWrite \/ Spurious \/ Destructor \/ Midnight \/ UNCHANGED programVars
  BY <1>3 DEF AsyncWrite, Take, Sleep, Leave, PutLine, Spurious, Destructor, Drain, Drained,
              CloseDeque, NotifyAll, Join, FlushDeque, Midnight, programVars
<1> QED
  BY <1>1, <1>2, <1>3, Cases

LEMMA NotifiedTyped ==
  ASSUME NEW w \in [Threads -> WaitStates], NEW side \in {"waitConsumer", "waitProducer"},
         NEW v \in NotifyOne(side, w)
  PROVE  v \in [Threads -> WaitStates]
<1>1. Awake[side] \in WaitStates
  BY DEF Awake, WaitStates
<1>2. CASE v = w
  BY <1>2
<1>3. CASE v # w
  <2>1. PICK t \in Asleep(side, w) : v = [w EXCEPT ![t] = Awake[side]]
    BY <1>3 DEF NotifyOne
  <2> QED
    BY <1>1, <2>1
<1> QED
  BY <1>2, <1>3

LEMMA QueueTypedStep ==
  TypedP /\ QueueTyped /\ [ProgramNext]_programVars => QueueTyped'
<1> SUFFICES ASSUME TypedP, QueueTyped, [ProgramNext]_programVars PROVE QueueTyped'
  OBVIOUS
<1>0. /\ deq \in Seq(Nat) /\ line \in [Threads -> Nat] /\ "none" \in WaitStates
      /\ wait \in [Threads -> WaitStates] /\ Flusher \in Threads
  BY Persons DEF TypedP, QueueTyped, WaitStates
<1>1. CASE UNCHANGED dequeVars
  BY <1>1 DEF QueueTyped, dequeVars
<1>2. CASE Flush
  <2>1. wait' \in [Threads -> WaitStates]
    BY <1>0, <1>2, NotifiedTyped DEF Flush
  <2> QED
    BY <1>2, <2>1 DEF QueueTyped, Flush
<1>3. ASSUME NEW w \in Producers, PushBack(w, line[w]) PROVE QueueTyped'
  <2>1. wait' \in [Threads -> WaitStates]
    <3>1. PICK u : u = [wait EXCEPT ![w] = "none"]
      OBVIOUS
    <3>2. u \in [Threads -> WaitStates] /\ wait' \in NotifyOne("waitConsumer", u)
      BY <1>0, <1>3, <3>1 DEF PushBack
    <3> QED
      BY <3>2, NotifiedTyped
  <2>2. line[w] \in Nat
    BY <1>0, Persons
  <2> QED
    BY <1>3, <2>1, <2>2 DEF QueueTyped, PushBack
<1>4. CASE Pop(Flusher)
  <2>1. wait' \in [Threads -> WaitStates]
    <3>1. PICK u : u = [wait EXCEPT ![Flusher] = "none"]
      OBVIOUS
    <3>2. u \in [Threads -> WaitStates] /\ wait' \in NotifyOne("waitProducer", u)
      BY <1>0, <1>4, <3>1 DEF Pop
    <3> QED
      BY <3>2, NotifiedTyped
  <2>2. Head(deq) \in Nat
    BY <1>0, <1>4 DEF Pop, Empty
  <2> QED
    BY <1>4, <2>1, <2>2 DEF QueueTyped, Pop
<1>5. CASE PopWaits(Flusher)
  BY <1>0, <1>5 DEF PopWaits, QueueTyped, WaitStates
<1>6. CASE PopClosed(Flusher)
  BY <1>0, <1>6 DEF PopClosed, QueueTyped, WaitStates
<1>7. CASE SpuriousWakeup(Flusher)
  BY <1>0, <1>7 DEF SpuriousWakeup, QueueTyped, WaitStates, Awake
<1>8. CASE Close
  BY <1>8 DEF Close, QueueTyped
<1>9. CASE CloseNotify
  <2>1. wait' \in [Threads -> WaitStates]
    BY <1>0, <1>9 DEF CloseNotify, Wake, Awake, WaitStates
  <2> QED
    BY <1>9, <2>1 DEF CloseNotify, QueueTyped
<1> QED
  BY <1>1, <1>2, <1>3, <1>4, <1>5, <1>6, <1>7, <1>8, <1>9, QueueMoves

(* What InitSocket leaves, and the flag of the log.                        *)
ServerTyped == /\ isAsync \in BOOLEAN
               /\ port \in Ports
               /\ listenFd \in Fds \cup {NoFd}
               /\ setUp \subseteq SocketCalls

LEMMA ServerTypedStep ==
  IInv /\ ServerTyped /\ [ProgramNext]_programVars => ServerTyped'
<1> SUFFICES ASSUME IInv, ServerTyped, [ProgramNext]_programVars PROVE ServerTyped'
  OBVIOUS
<1> USE AsyncStays DEF ServerTyped
<1>1. CASE UNCHANGED <<port, listenFd, setUp>>
  BY <1>1
<1>2. CASE InitSocket
  <2>1. CASE Socket
    <3>1. \A f \in Fds : files[f] # "log"
      BY <2>1 DEF Socket, GoTo, IInv, Descriptors, Early
    <3>2. Min(Unused) \in Fds
      BY <3>1, NextFd DEF IInv
    <3> QED
      BY <2>1, <3>2 DEF Socket
  <2>2. CASE SocketFails
    BY <2>2 DEF SocketFails
  <2>3. ASSUME NEW here \in SocketCalls, NEW there, Configure(here, there) PROVE ServerTyped'
    BY <2>3 DEF Configure
  <2>4. ASSUME NEW here \in SocketCalls, ConfigureFails(here) PROVE ServerTyped'
    BY <2>4 DEF ConfigureFails
  <2> QED
    BY <1>2, <2>1, <2>2, <2>3, <2>4 DEF InitSocket, SetFdNonblock, SocketCalls
<1>3. CASE CheckPort \/ InitLog \/ Start \/ DestroyServer \/ Exit
  BY <1>1, <1>3 DEF CheckPort, InitLog, Start, DestroyServer, Exit, serverVars
<1>4. CASE UNCHANGED serverVars \/ UNCHANGED programVars
  BY <1>1, <1>4 DEF serverVars, programVars
<1> QED
  BY <1>2, <1>3, <1>4, Cases DEF ServerStep, BeginStep

(* No two descriptors are of the log.                                      *)
OneLog == \A f, g \in LogFd : f = g

LEMMA OneLogStep == IInv /\ OneLog /\ [ProgramNext]_programVars => OneLog'
<1> SUFFICES ASSUME IInv, OneLog, [ProgramNext]_programVars PROVE OneLog'
  OBVIOUS
<1>0. TypedP /\ Descriptors /\ files \in [Fds -> {"free", "epoll", "socket", "log"}]
  BY DEF IInv, TypedP
<1>1. ASSUME UNCHANGED files PROVE OneLog'
  BY <1>1 DEF OneLog, LogFd
<1>2. ASSUME \A f \in Fds : files'[f] = "log" => files[f] = "log" PROVE OneLog'
  BY <1>2 DEF OneLog, LogFd
<1>3. ASSUME files' = With("log"), \A f \in Fds : files[f] # "log" PROVE OneLog'
  <2>1. \A f \in LogFd' : f = Min(Unused)
    BY <1>0, <1>3 DEF With, LogFd
  <2> QED
    BY <2>1 DEF OneLog
<1>4. CASE InitSocket
  <2>1. CASE Socket
    BY <1>0, <1>2, <2>1 DEF Socket, With
  <2>2. ASSUME NEW here, ConfigureFails(here) PROVE OneLog'
    BY <1>0, <1>2, <2>2 DEF ConfigureFails, Without
  <2>3. ASSUME NEW here, NEW there, Configure(here, there) PROVE OneLog'
    BY <1>1, <2>3 DEF Configure
  <2>4. CASE SocketFails
    BY <1>1, <2>4 DEF SocketFails
  <2> QED
    BY <1>1, <1>4, <2>1, <2>2, <2>3, <2>4 DEF InitSocket, SetFdNonblock
<1>5. CASE InitLog
  <2>1. \A f \in Fds : files[f] # "log"
    BY <1>0, <1>5 DEF InitLog, GoTo, Descriptors, Early
  <2>2. CASE OpenLog(TRUE)
    BY <1>3, <2>1, <2>2 DEF OpenLog
  <2>3. CASE OpenLog(FALSE)
    BY <1>1, <2>3 DEF OpenLog, fileVars
  <2> QED
    BY <1>5, <2>2, <2>3 DEF InitLog
<1>6. CASE DestroyServer
  BY <1>0, <1>2, <1>6 DEF DestroyServer
<1>7. CASE CheckPort \/ Start \/ Exit
  BY <1>1, <1>7 DEF CheckPort, Start, Exit, Destroy, logVars, fileVars
<1>8. ASSUME NEW w \in Producers, BeginStep(w) PROVE OneLog'
  BY <1>1, <1>8 DEF BeginStep, Begin, fileVars
<1>9. ASSUME NEW w \in Producers, Write(w) PROVE OneLog'
  <2>1. CASE Fclose(w)
    BY <1>0, <1>2, <2>1 DEF Fclose, Without
  <2>2. CASE Fopen(w)
    <3>1. \A f \in Fds : files[f] # "log"
      BY <1>0, <2>2 DEF Fopen, Step, Descriptors
    <3> QED
      BY <1>3, <2>2, <3>1 DEF Fopen
  <2>3. ASSUME ~Fclose(w), ~Fopen(w) PROVE UNCHANGED files
    BY <1>9, <2>3 DEF Write, Check, CheckDay, CheckLines, Touch, Rename, TestDay, NewDay,
                      Restart, NewPart, FopenFails, Count, Push, Fputs, NotifyFlusher,
                      FlushLine, fileVars
  <2> QED
    BY <1>1, <2>1, <2>2, <2>3
<1>10. CASE Join
  BY <1>0, <1>2, <1>10 DEF Join, Without
<1>11. CASE (AsyncWrite \/ Spurious \/ Destructor \/ Midnight) /\ ~Join
  BY <1>1, <1>11 DEF AsyncWrite, Take, Sleep, Leave, PutLine, Spurious, Destructor, Drain,
                     Drained, CloseDeque, NotifyAll, Midnight, logVars, fileVars
<1>12. CASE UNCHANGED programVars
  BY <1>1, <1>12 DEF programVars, logVars, fileVars
<1> QED
  BY <1>4, <1>5, <1>6, <1>7, <1>8, <1>9, <1>10, <1>11, <1>12, Cases DEF ServerStep

(* No more lines are begun than MaxItems; each was counted in lineCount_   *)
(* at most once.                                                           *)
CountBound == counted + Cardinality(Uncounted) <= MaxItems /\ lineCount <= counted

LEMMA UncountedMoves ==
  ASSUME TypedP, Stages, [ProgramNext]_programVars
  PROVE  \/ /\ Uncounted' \subseteq Uncounted /\ UNCHANGED counted
            /\ lineCount' \in {lineCount, 0}
         \/ \E w \in Producers :
              \/ Begin(w) /\ Uncounted' = Uncounted \cup {w}
              \/ Count(w) /\ Uncounted' = Uncounted \ {w} /\ w \in Uncounted
<1> USE Persons
<1>0. at \in [Threads -> Writing \cup Leaving \cup {"pop", "done"}]
  BY DEF TypedP
<1> DEFINE Less == /\ Uncounted' \subseteq Uncounted /\ UNCHANGED counted
                   /\ lineCount' \in {lineCount, 0}
<1>1. ASSUME NEW w \in Producers, BeginStep(w)
      PROVE  Begin(w) /\ Uncounted' = Uncounted \cup {w}
  <2>1. Begin(w) /\ at' = [at EXCEPT ![w] = "check"]
    BY <1>1 DEF BeginStep, Begin, Step
  <2> QED
    BY <1>0, <2>1 DEF Uncounted
<1>2. ASSUME NEW w \in Producers, Count(w)
      PROVE  Uncounted' = Uncounted \ {w} /\ w \in Uncounted
  <2>1. /\ at[w] = "count"
        /\ \E s \in {"push", "fputs"} : at' = [at EXCEPT ![w] = s]
    BY <1>2 DEF Count, Step
  <2> QED
    BY <1>0, <2>1 DEF Uncounted
<1>3. ASSUME NEW w \in Producers, Write(w), ~Count(w) PROVE Less
  <2>1. UNCHANGED counted /\ lineCount' \in {lineCount, 0}
    BY <1>3 DEF Write, Check, CheckDay, CheckLines, Touch, Rename, TestDay, NewDay, Restart,
                NewPart, Fclose, Fopen, FopenFails, Push, Fputs, NotifyFlusher, FlushLine,
                lineVars, nameVars
  <2>2. CASE Check(w) \/ Touch(w) \/ Rename(w) \/ Fclose(w) \/ Fopen(w) \/ FopenFails(w)
    <3>1. /\ at[w] \in Aside \ {"push", "fputs"}
          /\ \E s \in Writing : at' = [at EXCEPT ![w] = s]
      BY <2>2 DEF Check, CheckDay, CheckLines, Touch, Rename, TestDay, NewDay, Restart, NewPart,
                  Fclose, Fopen, FopenFails, Step, Writing, Aside
    <3> QED
      BY <1>0, <2>1, <3>1 DEF Uncounted, Aside
  <2>3. CASE Push(w) \/ Fputs(w) \/ NotifyFlusher(w) \/ FlushLine(w)
    <3>1. \E s \in {"flush", "fflush", "idle", "killed"} : at' = [at EXCEPT ![w] = s]
      BY <2>3 DEF Push, Fputs, NotifyFlusher, FlushLine, Step
    <3> QED
      BY <1>0, <2>1, <3>1 DEF Uncounted
  <2> QED
    BY <1>3, <2>2, <2>3 DEF Write
<1>4. CASE ServerStep
  <2>1. UNCHANGED counted /\ lineCount' \in {lineCount, 0}
    BY <1>4 DEF ServerStep, CheckPort, InitSocket, InitLog, OpenLog, Start, DestroyServer,
                Exit, Destroy, logVars, lineVars, nameVars
  <2>2. CASE InitLog
    <3>1. /\ \A w \in Producers : at[w] = "idle"
          /\ \E t \in Threads, s \in {"pop", "done", "killed"} : at' = [at EXCEPT ![t] = s]
      <4>1. \A w \in Producers : at[w] = "idle"
        BY <2>2 DEF InitLog, GoTo, Stages, Early
      <4>2. CASE OpenLog(TRUE)
        BY <4>1, <4>2 DEF OpenLog
      <4>3. CASE OpenLog(FALSE)
        BY <4>1, <4>3 DEF OpenLog
      <4> QED
        BY <2>2, <4>1, <4>2, <4>3 DEF InitLog
    <3> QED
      BY <1>0, <2>1, <3>1 DEF Uncounted
  <2>3. CASE Exit
    BY <1>0, <2>1, <2>3 DEF Exit, Destroy, Step, Uncounted
  <2>4. CASE CheckPort \/ InitSocket \/ Start \/ DestroyServer
    <3>1. UNCHANGED at
      BY <2>4 DEF CheckPort, InitSocket, Start, DestroyServer, logVars
    <3> QED
      BY <2>1, <3>1 DEF Uncounted
  <2> QED
    BY <1>4, <2>2, <2>3, <2>4 DEF ServerStep
<1>5. CASE AsyncWrite \/ Spurious \/ Midnight
  <2>1. UNCHANGED <<counted, lineCount>> /\ \A w \in Producers : at'[w] = at[w]
    BY <1>0, <1>5 DEF AsyncWrite, Take, Sleep, Leave, PutLine, Spurious, Midnight, Step,
                      logVars, lineVars, nameVars
  <2> QED
    BY <2>1 DEF Uncounted
<1>6. CASE Destructor
  <2>1. /\ UNCHANGED <<counted, lineCount>>
        /\ UNCHANGED at \/ \E s \in Leaving : at' = [at EXCEPT ![Main] = s]
    BY <1>6 DEF Destructor, Drain, Drained, CloseDeque, NotifyAll, Join, Step, Leaving,
                logVars, lineVars, nameVars
  <2> QED
    BY <1>0, <2>1 DEF Uncounted, Leaving
<1>7. CASE UNCHANGED programVars
  BY <1>7 DEF programVars, logVars, lineVars, nameVars, Uncounted
<1> QED
  BY <1>1, <1>2, <1>3, <1>4, <1>5, <1>6, <1>7, Cases

LEMMA CountBoundStep ==
  TypedP /\ Stages /\ CountBound /\ [ProgramNext]_programVars => CountBound'
<1> SUFFICES ASSUME TypedP, Stages, CountBound, [ProgramNext]_programVars PROVE CountBound'
  OBVIOUS
<1> USE CapacityAssumption
<1>0. counted \in Nat /\ lineCount \in Nat
  BY DEF TypedP
<1>1. /\ IsFiniteSet(Uncounted) /\ Cardinality(Uncounted) \in Nat
      /\ IsFiniteSet(Uncounted') /\ Cardinality(Uncounted') \in Nat
  <2>1. Uncounted \in SUBSET Producers /\ Uncounted' \in SUBSET Producers
    BY DEF Uncounted
  <2> QED
    BY <2>1, SubsetCount
<1>2. CASE /\ Uncounted' \subseteq Uncounted /\ UNCHANGED counted
           /\ lineCount' \in {lineCount, 0}
  <2>1. Cardinality(Uncounted') <= Cardinality(Uncounted)
    BY <1>1, <1>2, FS_Subset
  <2> QED
    BY <1>0, <1>1, <1>2, <2>1 DEF CountBound
<1>3. ASSUME NEW w \in Producers, Begin(w), Uncounted' = Uncounted \cup {w}
      PROVE  CountBound'
  <2>1. Cardinality(Uncounted') <= Cardinality(Uncounted) + 1
    <3>1. Cardinality(Uncounted') = IF w \in Uncounted THEN Cardinality(Uncounted)
                                                        ELSE Cardinality(Uncounted) + 1
      BY <1>1, <1>3, FS_AddElement
    <3> QED
      BY <1>1, <3>1
  <2>2. counted + Cardinality(Uncounted) < MaxItems /\ UNCHANGED <<counted, lineCount>>
    BY <1>3 DEF Begin, lineVars, nameVars
  <2> QED
    BY <1>0, <1>1, <2>1, <2>2 DEF CountBound
<1>4. ASSUME NEW w \in Producers, Count(w), Uncounted' = Uncounted \ {w}, w \in Uncounted
      PROVE  CountBound'
  <2>1. Cardinality(Uncounted') = Cardinality(Uncounted) - 1
    BY <1>1, <1>4, FS_RemoveElement
  <2>2. counted' = counted + 1 /\ lineCount' = lineCount + 1
    BY <1>4 DEF Count
  <2> QED
    BY <1>0, <1>1, <2>1, <2>2 DEF CountBound
<1> QED
  BY <1>2, <1>3, <1>4, UncountedMoves

(* No day is later than the calendar.                                      *)
Named(f) == f.day <= day /\ f.part \in Nat

DatesBound == /\ toDay <= day
              /\ \A w \in Producers : today[w] <= day /\ Named(newFile[w])
              /\ fp # Closed => Named(fp) /\ fp.day # 0

LEMMA Quotient ==
  ASSUME NEW n \in Nat, NEW m \in Nat \ {0}
  PROVE  n \div m \in Nat
<1>1. n \div m \in Int /\ n < m * (n \div m) + m
  OBVIOUS
<1>2. ASSUME NEW q \in Int, q < 0 PROVE m * q + m <= 0
  BY <1>2
<1> QED
  BY <1>1, <1>2

LEMMA DatesBoundStep ==
  IInv /\ DatesBound /\ [ProgramNext]_programVars => DatesBound'
<1> SUFFICES ASSUME IInv, DatesBound, [ProgramNext]_programVars PROVE DatesBound'
  OBVIOUS
<1> USE Persons
<1>0. /\ TypedP /\ day \in Nat \ {0} /\ toDay \in Nat /\ today \in [Producers -> Nat]
      /\ lineCount \in Nat /\ newFile \in [Producers -> [day : Nat, part : Int]]
      /\ fp \in [day : Nat, part : Int]
  BY DEF IInv, TypedP
<1>a. Closed.day = 0 /\ Closed.part = 0
  BY DEF Closed
<1>1. ASSUME UNCHANGED <<toDay, day, today, newFile>>, UNCHANGED fp \/ fp' = Closed
      PROVE  DatesBound'
  BY <1>1 DEF DatesBound, Named
<1>2. CASE InitLog
  <2>1. UNCHANGED <<day, today, newFile>> /\ toDay' = day
    BY <1>2 DEF InitLog, OpenLog, clockVars
  <2>2. fp' = [day |-> day, part |-> 0] \/ UNCHANGED fp
    BY <1>2 DEF InitLog, OpenLog, fileVars
  <2>3. fp' # Closed => fp'.day <= day /\ fp'.part \in Nat /\ fp'.day # 0
    BY <1>0, <2>2 DEF DatesBound, Named
  <2> QED
    BY <1>0, <2>1, <2>3 DEF DatesBound, Named
<1>3. CASE CheckPort \/ InitSocket \/ Start \/ DestroyServer \/ Exit
  BY <1>1, <1>3 DEF CheckPort, InitSocket, Start, DestroyServer, Exit, Destroy, logVars,
                    nameVars, clockVars, fileVars
<1>4. CASE AsyncWrite \/ Spurious \/ Destructor \/ UNCHANGED programVars
  <2>1. UNCHANGED <<toDay, day, today, newFile>> /\ (UNCHANGED fp \/ fp' = Closed)
    BY <1>4 DEF AsyncWrite, Take, Sleep, Leave, PutLine, Spurious, Destructor, Drain,
                Drained, CloseDeque, NotifyAll, Join, programVars, logVars, nameVars,
                clockVars, fileVars
  <2> QED
    BY <1>1, <2>1
<1>5. CASE Midnight
  <2>1. day' = day + 1 /\ UNCHANGED <<toDay, today, newFile, fp>>
    BY <1>5 DEF Midnight, nameVars, fileVars
  <2>2. \A n \in Nat : n <= day => n <= day'
    BY <1>0, <2>1
  <2>3. \A w \in Producers : today[w] \in Nat /\ newFile[w].day \in Nat
    BY <1>0
  <2> QED
    BY <1>0, <2>1, <2>2, <2>3 DEF DatesBound, Named
<1>6. ASSUME NEW w \in Producers, BeginStep(w) PROVE DatesBound'
  <2>1. today' = [today EXCEPT ![w] = day] /\ UNCHANGED <<toDay, day, newFile, fp>>
    BY <1>6 DEF BeginStep, Begin, nameVars, fileVars
  <2> QED
    BY <1>0, <2>1 DEF DatesBound, Named
<1>7. ASSUME NEW w \in Producers, Write(w) PROVE DatesBound'
  <2>1. CASE Rename(w)
    <3>1. ASSUME NEW n \in [day : Nat, part : Nat], n.day = today[w], UNCHANGED <<day, today, fp>>,
                 newFile' = [newFile EXCEPT ![w] = n], toDay' \in {toDay, today[w]}
          PROVE  DatesBound'
      <4>1. \A v \in Producers : newFile'[v] = IF v = w THEN n ELSE newFile[v]
        BY <1>0, <3>1
      <4> QED
        BY <3>1, <4>1 DEF DatesBound, Named
    <3>2. CASE NewDay(w)
      <4>1. [day |-> today[w], part |-> 0] \in [day : Nat, part : Nat]
        BY <1>0
      <4> QED
        BY <3>1, <3>2, <4>1 DEF NewDay, clockVars, fileVars
    <3>3. CASE NewPart(w)
      <4>1. lineCount \div MAX_LINES \in Nat
        BY <1>0, LinesAssumption, Quotient
      <4>2. [day |-> today[w], part |-> lineCount \div MAX_LINES] \in [day : Nat, part : Nat]
        BY <1>0, <4>1
      <4> QED
        BY <3>1, <3>3, <4>2 DEF NewPart, clockVars, fileVars
    <3>4. CASE TestDay(w) \/ Restart(w)
      BY <1>1, <3>4 DEF TestDay, Restart, clockVars, fileVars
    <3> QED
      BY <2>1, <3>2, <3>3, <3>4 DEF Rename
  <2>2. CASE Fopen(w)
    <3>1. /\ at[w] = "fopen" /\ fp' = newFile[w] /\ newFile' = [newFile EXCEPT ![w] = Closed]
          /\ UNCHANGED <<toDay, day, today>>
      BY <2>2 DEF Fopen, Step, clockVars
    <3>2. newFile[w].day # 0
      BY <3>1 DEF IInv, Dated
    <3>3. \A v \in Producers : newFile'[v] = IF v = w THEN Closed ELSE newFile[v]
      BY <1>0, <3>1
    <3> QED
      BY <1>0, <1>a, <3>1, <3>2, <3>3 DEF DatesBound, Named
  <2>3. CASE Count(w)
    <3>1. /\ today' = [today EXCEPT ![w] = 0] /\ UNCHANGED <<toDay, day, newFile, fp>>
      BY <2>3 DEF Count, NoDay, fileVars
    <3> QED
      BY <1>0, <3>1 DEF DatesBound, Named
  <2>4. ASSUME ~Rename(w), ~Fopen(w), ~Count(w) PROVE DatesBound'
    <3>1. UNCHANGED <<toDay, day, today, newFile>> /\ (UNCHANGED fp \/ fp' = Closed)
      BY <1>7, <2>4 DEF Write, Check, CheckDay, CheckLines, Touch, Fclose, FopenFails, Push,
                        Fputs, NotifyFlusher, FlushLine, nameVars, clockVars, fileVars
    <3> QED
      BY <1>1, <3>1
  <2> QED
    BY <2>1, <2>2, <2>3, <2>4
<1> QED
  BY <1>2, <1>3, <1>4, <1>5, <1>6, <1>7, Cases DEF ServerStep

TypesInv == QueueTyped /\ ServerTyped /\ OneLog /\ CountBound /\ DatesBound

LEMMA InitTypes == ProgramInit => TypesInv
<1> SUFFICES ASSUME ProgramInit PROVE TypesInv
  OBVIOUS
<1> USE Persons DEF ProgramInit, LogInit, Init
<1>1. QueueTyped /\ ServerTyped
  <2>1. wait \in [Threads -> WaitStates]
    BY DEF WaitStates
  <2>2. QueueTyped
    <3>1. isClose = FALSE /\ closing = FALSE /\ added = <<>> /\ popped = <<>>
      OBVIOUS
    <3>2. <<>> \in Seq(Nat)
      OBVIOUS
    <3>3. added \in Seq(Nat) /\ popped \in Seq(Nat)
      BY <3>1, <3>2
    <3> QED
      BY ONLY <2>1, <3>1, <3>3 DEF QueueTyped
  <2>3. isAsync \in BOOLEAN /\ port \in Ports
    OBVIOUS
  <2>4. listenFd \in Fds \cup {NoFd} /\ setUp \subseteq SocketCalls
    OBVIOUS
  <2> QED
    BY <2>2, <2>3, <2>4 DEF ServerTyped
<1>2. OneLog
  <2>1. \A f \in Fds : files[f] \in {"epoll", "free"}
    OBVIOUS
  <2> QED
    BY <2>1 DEF OneLog, LogFd
<1>3. CountBound
  <2>1. Uncounted = {}
    BY DEF Uncounted
  <2> QED
    BY <2>1, FS_EmptySet, CapacityAssumption DEF CountBound
<1>4. DatesBound
  BY DEF DatesBound, Named, Closed, NoDay
<1> QED
  BY <1>1, <1>2, <1>3, <1>4 DEF TypesInv

LEMMA TypesTogether == LossInv /\ TypesInv => ProgramTypeOK
<1> SUFFICES ASSUME LossInv, TypesInv PROVE ProgramTypeOK
  OBVIOUS
<1> USE DEF TypesInv
<1>0. TypedP /\ Numbered /\ FlushedSoFar /\ Balanced
  BY DEF LossInv, LineInv, IInv
<1>1. TypeOK
  BY <1>0 DEF TypeOK, TypedP, QueueTyped, WaitStates, Balanced
<1>2. line \in [Threads -> Lines \cup {NoLine}]
  <2>1. Cardinality(Uncounted) \in Nat
    <3>1. Uncounted \in SUBSET Producers
      BY DEF Uncounted
    <3> QED
      BY <3>1, SubsetCount
  <2>2. counted \in Nat /\ counted <= MaxItems
    BY <1>0, <2>1, CapacityAssumption DEF CountBound, TypedP
  <2>3. \A t \in Threads : line[t] \in Nat /\ line[t] <= counted
    BY <1>0 DEF TypedP, Numbered
  <2>4. \A t \in Threads : line[t] \in Lines \cup {NoLine}
    BY <2>2, <2>3, CapacityAssumption DEF Lines, NoLine
  <2> QED
    BY <1>0, <2>4 DEF TypedP
<1>3. counted \in Nat /\ lineCount \in 0 .. counted
  BY <1>0 DEF TypedP, CountBound
<1>4. toDay \in 0 .. day /\ \A w \in Producers : today[w] \in 0 .. day
  BY <1>0 DEF TypedP, DatesBound
<1>5. fp = Closed \/ fp \in [day : 1 .. day, part : Nat]
  <2> SUFFICES ASSUME fp # Closed PROVE fp \in [day : 1 .. day, part : Nat]
    OBVIOUS
  <2>1. fp \in [day : Nat, part : Int] /\ day \in Nat
    BY <1>0 DEF TypedP
  <2>2. fp = [day |-> fp.day, part |-> fp.part] /\ fp.day \in Nat
    BY <2>1
  <2>3. fp.day \in 1 .. day /\ fp.part \in Nat
    BY <2>1, <2>2 DEF DatesBound, Named
  <2> QED
    BY <2>2, <2>3
<1>6. Cardinality(LogFd) <= 1
  <2>1. CASE LogFd = {}
    BY <2>1, FS_EmptySet
  <2>2. ASSUME NEW f \in LogFd PROVE Cardinality(LogFd) <= 1
    <3>1. LogFd = {f}
      BY DEF OneLog
    <3> QED
      BY <3>1, FS_Singleton
  <2> QED
    BY <2>1, <2>2
<1>7. flushed \in 0 .. Len(written)
  BY <1>0 DEF FlushedSoFar
<1>8. LogTypeOK
  BY <1>0, <1>1, <1>2, <1>3, <1>4, <1>5, <1>6, <1>7 DEF LogTypeOK, TypedP, ServerTyped
<1> QED
  BY <1>0, <1>8 DEF ProgramTypeOK, TypedP, ServerTyped

(* Whatever the threads do: the deque is within its capacity, no day is    *)
(* later than the calendar, the file that is open has a name that was      *)
(* computed, one descriptor at most is of the log, and no more left the    *)
(* buffer of stdio than was written.                                       *)
THEOREM ProgramTyped == ProgramSpec => []ProgramTypeOK
<1>1. LossInv => IInv /\ TypedP /\ Stages
  BY DEF LossInv, LineInv, IInv
<1>2. LossInv /\ TypesInv /\ [ProgramNext]_programVars => TypesInv'
  BY <1>1, QueueTypedStep, ServerTypedStep, OneLogStep, CountBoundStep, DatesBoundStep
  DEF TypesInv
<1> QED
  BY <1>2, InitTypes, TypesTogether, LossInductive, PTL DEF ProgramSpec
=============================================================================
