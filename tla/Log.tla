-------------------------------- MODULE Log --------------------------------
(***************************************************************************)
(* The log of log/log.cc: threads that write lines under the mutex mtx_ of *)
(* the Log, its BlockDeque, the thread that takes lines out of it and puts *)
(* them into the file, the change of file by date and by number of lines,  *)
(* the buffer that stdio keeps for the file, and the destructor.           *)
(*                                                                         *)
(* A line is its number, in the order in which the lines are counted under *)
(* mtx_.  write tests whether the file must be changed, computes its name  *)
(* and moves toDay_ and lineCount_ without mtx_, in steps of their own.    *)
(* Program says when the actions may be taken.                             *)
(***************************************************************************)
EXTENDS BlockDeque, FiniteSetsExt

CONSTANTS
  Flusher,     \* writeThread_, the only consumer of the deque
  Main,        \* the thread that runs main and ~Log; it writes lines too
  Nobody,      \* owner of mtx_ when it is free
  Fds,         \* descriptors of the process
  MAX_LINES,   \* lines after which the file is changed
  MaxDay       \* bound on the calendar

ASSUME FlusherAssumption == Consumers = {Flusher}
ASSUME MainAssumption == Main \in Producers /\ Nobody \notin Threads
ASSUME LinesAssumption == MAX_LINES \in Nat \ {0} /\ MaxDay \in Nat

VARIABLES
  isAsync,     \* isAsync_
  mtx,         \* the thread that holds Log::mtx_, or Nobody
  at,          \* where each thread is in write, AsyncWrite_ or ~Log
  line,        \* the line each thread has in its hands, 0 if none
  counted,     \* history: how many lines were counted
  day,         \* the calendar
  today,       \* what a thread that writes has read of the calendar
  lineCount,   \* lineCount_
  toDay,       \* toDay_
  fp,          \* the file that is open: its day and its part, or Closed
  newFile,     \* the name a thread has computed for the next file
  crossed,     \* history: two threads were in Changing at a time
  files,       \* what each descriptor refers to
  written,     \* history: the lines put into files, in order
  flushed      \* how many of them have left the buffer of stdio

clockVars == <<day, today>>
lineVars == <<line, counted>>
nameVars == <<lineCount, toDay, newFile, crossed>>
fileVars == <<fp, files>>
diskVars == <<written, flushed>>
logVars == <<isAsync, mtx, at, lineVars, clockVars, nameVars, fileVars, diskVars>>

Closed == [day |-> 0, part |-> 0]
NoLine == 0
NoDay == 0
Lines == 1 .. MaxItems

(* Log::Log, and a process with one descriptor, of Epoller.                *)
LogInit == /\ Init
           /\ isAsync \in BOOLEAN
           /\ mtx = Nobody
           /\ at = [t \in Threads |-> IF t = Flusher THEN "done" ELSE "idle"]
           /\ line = [t \in Threads |-> NoLine]
           /\ counted = 0
           /\ day = 1
           /\ today = [w \in Producers |-> NoDay]
           /\ lineCount = 0
           /\ toDay = 0
           /\ fp = Closed
           /\ newFile = [w \in Producers |-> Closed]
           /\ crossed = FALSE
           /\ files = [f \in Fds |-> IF f = Min(Fds) THEN "epoll" ELSE "free"]
           /\ written = <<>>
           /\ flushed = 0
-----------------------------------------------------------------------------
(* A thread that fails an assertion or faults ends all of them.            *)
Alive == \A w \in Producers : at[w] # "killed"

Step(t, here, there) == Alive /\ at[t] = here /\ at' = [at EXCEPT ![t] = there]

Free == mtx = Nobody /\ UNCHANGED mtx

Lock(t) == mtx = Nobody /\ mtx' = t

Unlock(t) == mtx = t /\ mtx' = Nobody

(* A descriptor that is opened is the lowest that is not in use.           *)
Unused == {f \in Fds : files[f] = "free"}

With(what) == [files EXCEPT ![Min(Unused)] = what]

Without(what) == [f \in Fds |-> IF files[f] = what THEN "free" ELSE files[f]]

LogFd == {f \in Fds : files[f] = "log"}

(* fputs puts a line into the buffer of stdio, which is written out when   *)
(* it is full.                                                             *)
Put(x) == /\ written' = Append(written, x)
          /\ flushed' \in {flushed} \cup {Len(written) : f \in LogFd}

(* fflush, and fclose, write the buffer to the descriptor.                 *)
Fflush == /\ flushed' = IF LogFd # {} THEN Len(written) ELSE flushed
          /\ UNCHANGED written

(* The part of Log::flush that is about the deque.                         *)
FlushDeque == IF isAsync THEN Flush ELSE UNCHANGED dequeVars

(* Log::init.  When fopen fails its assertion ends the process.            *)
OpenLog(success) ==
  /\ Free
  /\ IF success
       THEN /\ fp' = [day |-> day, part |-> 0]
            /\ files' = With("log")
            /\ at' = [at EXCEPT ![Flusher] = IF isAsync THEN "pop" ELSE "done"]
       ELSE at' = [at EXCEPT ![Main] = "killed"] /\ UNCHANGED fileVars
  /\ toDay' = day
  /\ lineCount' = 0
  /\ UNCHANGED <<dequeVars, isAsync, lineVars, clockVars, newFile, crossed,
                 diskVars>>
-----------------------------------------------------------------------------
(* The threads that will count a line: no more than MaxItems are begun.    *)
Uncounted == {w \in Producers : at[w] \in {"check", "lines", "touch", "rename", "newDay",
                                           "restart", "newPart", "fclose", "fopen", "count"}}

(* LOG_BASE takes mtx_ to read the level; then write reads the time.       *)
Begin(w) == /\ counted + Cardinality(Uncounted) < MaxItems
            /\ Free
            /\ Step(w, "idle", "check")
            /\ today' = [today EXCEPT ![w] = day]
            /\ UNCHANGED <<dequeVars, isAsync, lineVars, day, nameVars, fileVars,
                           diskVars>>

(* Whether the file must be changed is tested without mtx_: another day,   *)
CheckDay(w) == /\ Step(w, "check", IF toDay # today[w] THEN "touch" ELSE "lines")
               /\ UNCHANGED <<dequeVars, isAsync, mtx, lineVars, clockVars, nameVars,
                              fileVars, diskVars>>

(* or MAX_LINES more lines.                                                *)
CheckLines(w) ==
  /\ Step(w, "lines", IF lineCount # 0 /\ lineCount % MAX_LINES = 0 THEN "touch" ELSE "count")
  /\ UNCHANGED <<dequeVars, isAsync, mtx, lineVars, clockVars, nameVars, fileVars, diskVars>>

(* The mutex is taken and released before the name is computed.            *)
Touch(w) == /\ Free
            /\ Step(w, "touch", "rename")
            /\ UNCHANGED <<dequeVars, isAsync, lineVars, clockVars, nameVars,
                           fileVars, diskVars>>

(* The threads that have decided for a name and not opened its file yet.   *)
Changing == {w \in Producers : at[w] \in {"newDay", "restart", "newPart", "fclose", "fopen"}}

(* Without mtx_ the day is tested again.                                   *)
TestDay(w) ==
  /\ Step(w, "rename", IF toDay # today[w] THEN "newDay" ELSE "newPart")
  /\ crossed' = (crossed \/ Changing # {})
  /\ UNCHANGED <<dequeVars, isAsync, mtx, lineVars, clockVars, lineCount, toDay, newFile,
                 fileVars, diskVars>>

(* Mutant of NewDay: the name is made of the day of the last file.         *)
NewDayStale(w) ==
  /\ Step(w, "newDay", "restart")
  /\ newFile' = [newFile EXCEPT ![w] = [day |-> toDay, part |-> 0]]
  /\ toDay' = today[w]
  /\ UNCHANGED <<dequeVars, isAsync, mtx, lineVars, clockVars, lineCount, crossed,
                 fileVars, diskVars>>

(* A new day begins with part 0, and then with no lines.                   *)
NewDay(w) ==
  /\ Step(w, "newDay", "restart")
  /\ newFile' = [newFile EXCEPT ![w] = [day |-> today[w], part |-> 0]]
  /\ toDay' = today[w]
  /\ UNCHANGED <<dequeVars, isAsync, mtx, lineVars, clockVars, lineCount, crossed,
                 fileVars, diskVars>>

(* lineCount_++ under mtx_ is no atomic step: it may undo the reset.       *)
Counting == {w \in Producers : at[w] \in {"push", "fputs"}}

Restart(w) ==
  /\ Step(w, "restart", "fclose")
  /\ lineCount' \in {0} \cup {lineCount : v \in Counting}
  /\ UNCHANGED <<dequeVars, isAsync, mtx, lineVars, clockVars, toDay, newFile, crossed,
                 fileVars, diskVars>>

(* The same day: another part, of the number of lines there are by now.    *)
NewPart(w) ==
  /\ Step(w, "newPart", "fclose")
  /\ newFile' = [newFile EXCEPT ![w] = [day |-> today[w], part |-> lineCount \div MAX_LINES]]
  /\ UNCHANGED <<dequeVars, isAsync, mtx, lineVars, clockVars, lineCount, toDay, crossed,
                 fileVars, diskVars>>

(* Under mtx_: flush, fclose, and then fopen.                              *)
Fclose(w) == /\ Step(w, "fclose", "fopen")
             /\ Lock(w)
             /\ FlushDeque
             /\ Fflush
             /\ fp' = Closed
             /\ files' = Without("log")
             /\ UNCHANGED <<isAsync, lineVars, clockVars, nameVars>>

Fopen(w) == /\ Step(w, "fopen", "count")
            /\ Unlock(w)
            /\ fp' = newFile[w]
            /\ files' = With("log")
            /\ newFile' = [newFile EXCEPT ![w] = Closed]
            /\ UNCHANGED <<dequeVars, isAsync, lineVars, clockVars, lineCount, toDay,
                           crossed, diskVars>>

(* fopen fails, for want of a descriptor perhaps, and so does assert.      *)
FopenFails(w) == /\ Step(w, "fopen", "killed")
                 /\ UNCHANGED <<dequeVars, isAsync, mtx, lineVars, clockVars,
                                nameVars, fileVars, diskVars>>

(* Mutant of Count: the line is counted and formatted without mtx_.        *)
CountUnlocked(w) ==
  /\ Step(w, "count", IF isAsync /\ ~Full THEN "push" ELSE "fputs")
  /\ mtx' = w
  /\ line' = [line EXCEPT ![w] = counted + 1]
  /\ counted' = counted + 1
  /\ lineCount' = lineCount + 1
  /\ today' = [today EXCEPT ![w] = NoDay]
  /\ UNCHANGED <<dequeVars, isAsync, day, toDay, newFile, crossed, fileVars, diskVars>>

(* Mutant of Count: a line of a later part is counted twice.               *)
CountTwice(w) ==
  /\ Step(w, "count", IF isAsync /\ ~Full THEN "push" ELSE "fputs")
  /\ Lock(w)
  /\ line' = [line EXCEPT ![w] = counted + 1]
  /\ counted' = counted + 1
  /\ lineCount' = IF fp.part > 0 THEN lineCount + 2 ELSE lineCount + 1
  /\ today' = [today EXCEPT ![w] = NoDay]
  /\ UNCHANGED <<dequeVars, isAsync, day, toDay, newFile, crossed, fileVars, diskVars>>

(* Under mtx_: the line is counted and formatted, and full() is asked.     *)
Count(w) ==
  /\ Step(w, "count", IF isAsync /\ ~Full THEN "push" ELSE "fputs")
  /\ Lock(w)
  /\ line' = [line EXCEPT ![w] = counted + 1]
  /\ counted' = counted + 1
  /\ lineCount' = lineCount + 1
  /\ today' = [today EXCEPT ![w] = NoDay]
  /\ UNCHANGED <<dequeVars, isAsync, day, toDay, newFile, crossed, fileVars, diskVars>>

(* push_back; that it does not have to wait is NeverWaitsForRoom.          *)
Push(w) == /\ Step(w, "push", "flush")
           /\ PushBack(w, line[w])
           /\ Unlock(w)
           /\ line' = [line EXCEPT ![w] = NoLine]
           /\ UNCHANGED <<isAsync, counted, clockVars, nameVars, fileVars, diskVars>>

(* The deque is full, or there is none: the thread puts the line into the  *)
(* file itself.                                                            *)
Fputs(w) == /\ Step(w, "fputs", "flush")
            /\ Unlock(w)
            /\ Put(line[w])
            /\ line' = [line EXCEPT ![w] = NoLine]
            /\ UNCHANGED <<dequeVars, isAsync, counted, clockVars, nameVars, fileVars>>

(* LOG_BASE then calls flush, without mtx_: it notifies the flusher,       *)
NotifyFlusher(w) == /\ Step(w, "flush", "fflush")
                    /\ FlushDeque
                    /\ UNCHANGED <<isAsync, mtx, lineVars, clockVars, nameVars,
                                   fileVars, diskVars>>

(* Mutant of FlushLine: the buffer of stdio is left as it is.              *)
FlushLineNot(w) == /\ Step(w, "fflush", "idle")
                   /\ UNCHANGED <<dequeVars, isAsync, mtx, lineVars, clockVars,
                                  nameVars, fileVars, diskVars>>

(* and calls fflush, which another thread that has closed the file makes a *)
(* use of freed memory: it may do nothing or end the process.              *)
FlushLine(w) ==
  /\ IF fp # Closed
       THEN Step(w, "fflush", "idle") /\ Fflush
       ELSE (\E there \in {"idle", "killed"} : Step(w, "fflush", there))
              /\ UNCHANGED diskVars
  /\ UNCHANGED <<dequeVars, isAsync, mtx, lineVars, clockVars, nameVars, fileVars>>
-----------------------------------------------------------------------------
(* AsyncWrite_, the loop of the flusher.                                   *)
Take == /\ Step(Flusher, "pop", "fputs")
        /\ Pop(Flusher)
        /\ line' = [line EXCEPT ![Flusher] = Head(deq)]
        /\ UNCHANGED <<isAsync, mtx, counted, clockVars, nameVars, fileVars, diskVars>>

Sleep == /\ Alive /\ at[Flusher] = "pop"
         /\ PopWaits(Flusher)
         /\ UNCHANGED logVars

Leave == /\ Step(Flusher, "pop", "done")
         /\ PopClosed(Flusher)
         /\ UNCHANGED <<isAsync, mtx, lineVars, clockVars, nameVars, fileVars,
                        diskVars>>

(* lock_guard; fputs                                                       *)
PutLine ==
  /\ Step(Flusher, "fputs", "pop")
  /\ Free
  /\ Put(line[Flusher])
  /\ line' = [line EXCEPT ![Flusher] = NoLine]
  /\ UNCHANGED <<dequeVars, isAsync, counted, clockVars, nameVars, fileVars>>
-----------------------------------------------------------------------------
(* ~Log, when main has returned and the workers have no task.              *)
Destroy == /\ Step(Main, "idle", IF isAsync THEN "drain" ELSE "join")
           /\ UNCHANGED <<dequeVars, isAsync, mtx, lineVars, clockVars, nameVars,
                          fileVars, diskVars>>

Drain == /\ at[Main] = "drain"
         /\ ~Empty
         /\ Flush
         /\ UNCHANGED logVars

(* Mutant of Drained: the destructor does not wait for an empty deque.     *)
DrainedAtOnce == /\ Step(Main, "drain", "close")
                 /\ UNCHANGED <<dequeVars, isAsync, mtx, lineVars, clockVars,
                                nameVars, fileVars, diskVars>>

Drained == /\ Step(Main, "drain", "close")
           /\ Empty
           /\ UNCHANGED <<dequeVars, isAsync, mtx, lineVars, clockVars, nameVars,
                          fileVars, diskVars>>

CloseDeque == /\ Step(Main, "close", "notify")
              /\ Close
              /\ UNCHANGED <<isAsync, mtx, lineVars, clockVars, nameVars, fileVars,
                             diskVars>>

NotifyAll == /\ Step(Main, "notify", "join")
             /\ CloseNotify
             /\ UNCHANGED <<isAsync, mtx, lineVars, clockVars, nameVars, fileVars,
                            diskVars>>

(* join, and under mtx_ flush and fclose.                                  *)
Join == /\ Step(Main, "join", "end")
        /\ at[Flusher] = "done"
        /\ Free
        /\ FlushDeque
        /\ Fflush
        /\ fp' = Closed
        /\ files' = Without("log")
        /\ UNCHANGED <<isAsync, lineVars, clockVars, nameVars>>

Midnight == /\ Alive /\ day < MaxDay
            /\ day' = day + 1
            /\ UNCHANGED <<dequeVars, isAsync, mtx, at, lineVars, today, nameVars,
                           fileVars, diskVars>>

Check(w) == CheckDay(w) \/ CheckLines(w)

Rename(w) == TestDay(w) \/ NewDay(w) \/ Restart(w) \/ NewPart(w)

Write(w) == \/ Check(w) \/ Touch(w) \/ Rename(w) \/ Fclose(w) \/ Fopen(w)
            \/ FopenFails(w) \/ Count(w) \/ Push(w) \/ Fputs(w)
            \/ NotifyFlusher(w) \/ FlushLine(w)

AsyncWrite == Take \/ Sleep \/ Leave \/ PutLine

Destructor == Drain \/ Drained \/ CloseDeque \/ NotifyAll \/ Join

(* The steps that no call of the program has to allow.                     *)
LogStep == \/ \E w \in Producers : Write(w)
           \/ AsyncWrite
           \/ Alive /\ SpuriousWakeup(Flusher) /\ UNCHANGED logVars
           \/ Destructor
           \/ Midnight
-----------------------------------------------------------------------------
LogTypeOK == /\ TypeOK
             /\ isAsync \in BOOLEAN
             /\ mtx \in Threads \cup {Nobody}
             /\ line \in [Threads -> Lines \cup {NoLine}]
             /\ counted \in Nat
             /\ lineCount \in 0 .. counted
             /\ toDay \in 0 .. day
             /\ \A w \in Producers : today[w] \in 0 .. day
             /\ fp = Closed \/ fp \in [day : 1 .. day, part : Nat]
             /\ crossed \in BOOLEAN
             /\ files \in [Fds -> {"free", "epoll", "socket", "log"}]
             /\ Cardinality(LogFd) <= 1
             /\ flushed \in 0 .. Len(written)

(* Each line that was counted is in one place: in the hands of a thread,   *)
(* in the deque, or once in a file.  Nothing is lost or written twice, the *)
(* clear of Close included.                                                *)
LineInOnePlace ==
  \A n \in 1 .. counted :
    Cardinality({t \in Threads : line[t] = n})
      + Cardinality({p \in DOMAIN deq : deq[p] = n})
      + Cardinality({p \in DOMAIN written : written[p] = n}) = 1

(* A thread that was told that the deque is not full never has to wait in  *)
(* push_back with mtx_ in its hands, which the flusher needs to go on.     *)
NeverWaitsForRoom == \A w \in Producers : at[w] = "push" => Len(deq) < Capacity

(* Lines that go to the file directly pass the lines of the deque and the  *)
(* one the flusher holds, and no others.                                   *)
BoundedOvertaking ==
  \A p \in DOMAIN written :
    Cardinality({n \in 1 .. written[p] - 1 :
                   \A q \in 1 .. p : written[q] # n}) <= Capacity + 1

(* Lines are put into a file that is open, although whether it is changed, *)
(* and for which, is decided without mtx_.  It is a file of toDay_, but    *)
(* while a thread that has moved toDay_ has not closed the file of the day *)
(* before, or once two threads have decided for a name at a time: one may  *)
(* then open a file of the day before when the other has moved toDay_.     *)
PutsIntoOpenFile ==
  [][written' # written =>
       /\ fp # Closed
       /\ \/ crossed
          \/ fp.day = toDay
          \/ \E w \in Producers : at[w] \in {"restart", "fclose"}
    ]_<<dequeVars, logVars>>

(* The lines that were counted get into files: once the writers pause, as  *)
(* after MaxItems lines, none stays behind in the deque or in a hand.      *)
EveryLineIsWritten ==
  counted > Len(written) ~> ~Alive \/ counted = Len(written)

(* The destructor returns when the flusher sleeps as Close notifies it.    *)
DestructorReturns ==
  closing /\ wait[Flusher] = "waitConsumer" ~> at[Main] = "end"
=============================================================================
