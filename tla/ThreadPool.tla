----------------------------- MODULE ThreadPool -----------------------------
(***************************************************************************)
(* The thread pool of include/thread_pool/thread_pool.hpp: one queue of    *)
(* tasks guarded by one mutex, a condition variable the idle workers wait  *)
(* on, and a flag the destructor raises.                                   *)
(*                                                                         *)
(* The pool has one client: every AddTask and the destructor are called by *)
(* the thread that owns the HttpServer.  A step is what a thread does      *)
(* between two points where another thread can interfere: a mutex          *)
(* operation, a wait, a notification.                                      *)
(***************************************************************************)
EXTENDS Naturals, Sequences, FiniteSets

CONSTANTS
  Workers,   \* the threads the constructor starts and detaches
  Client,    \* the thread that adds tasks and destroys the pool
  Nobody,    \* owner of the mutex when it is free
  MaxTasks   \* bound on the number of AddTask calls

ASSUME WorkersAssumption == /\ Workers # {}
                            /\ IsFiniteSet(Workers)
                            /\ Client \notin Workers
                            /\ Nobody \notin Workers \cup {Client}
ASSUME MaxTasksAssumption == MaxTasks \in Nat

VARIABLES
  mtx,       \* the thread that holds Pool::mtx, or Nobody
  tasks,     \* Pool::tasks
  isClosed,  \* Pool::isClosed
  pc,        \* where each worker is in the loop of its lambda
  cpc,       \* where the client is in AddTask or in the destructor
  added,     \* how many tasks were added: the tasks are named 1..added
  task,      \* the local variable task of each worker, 0 when it has none
  started    \* history: who took which task, in the order they were taken

poolVars == <<mtx, tasks, isClosed>>
vars == <<poolVars, pc, cpc, added, task, started>>

NoTask == 0
Tasks == 1 .. MaxTasks

(* make_shared value-initialises Pool, so isClosed starts out FALSE.       *)
Init == /\ mtx = Nobody
        /\ tasks = <<>>
        /\ isClosed = FALSE
        /\ pc = [w \in Workers |-> "lock"]
        /\ cpc = "idle"
        /\ added = 0
        /\ task = [w \in Workers |-> NoTask]
        /\ started = <<>>
-----------------------------------------------------------------------------
(* The lambda of a worker.                                                 *)

(* The unique_lock is constructed, taken again after a task, or taken back *)
(* by wait() before it returns.                                            *)
Lock(w) == /\ pc[w] = "lock"
           /\ mtx = Nobody
           /\ mtx' = w
           /\ pc' = [pc EXCEPT ![w] = "loop"]
           /\ UNCHANGED <<tasks, isClosed, cpc, added, task, started>>

(* Mutant of MoveFront: the task is taken from back(), pop() is unchanged. *)
MoveFrontBack(w) == /\ pc[w] = "loop"
                    /\ tasks # <<>>
                    /\ task' = [task EXCEPT ![w] = tasks[Len(tasks)]]
                    /\ pc' = [pc EXCEPT ![w] = "pop"]
                    /\ UNCHANGED <<poolVars, cpc, added, started>>

(* auto task = std::move(pool->tasks.front())                              *)
MoveFront(w) == /\ pc[w] = "loop"
                /\ tasks # <<>>
                /\ task' = [task EXCEPT ![w] = Head(tasks)]
                /\ pc' = [pc EXCEPT ![w] = "pop"]
                /\ UNCHANGED <<poolVars, cpc, added, started>>

(* pool->tasks.pop(); locker.unlock()                                      *)
PopTask(w) == /\ pc[w] = "pop"
              /\ tasks' = Tail(tasks)
              /\ started' = Append(started, [task |-> task[w], worker |-> w])
              /\ mtx' = Nobody
              /\ pc' = [pc EXCEPT ![w] = "run"]
              /\ UNCHANGED <<isClosed, cpc, added, task>>

(* A task is a call of OnRead or OnWrite, which always returns.            *)
RunTask(w) == /\ pc[w] = "run"
              /\ task' = [task EXCEPT ![w] = NoTask]
              /\ pc' = [pc EXCEPT ![w] = "lock"]
              /\ UNCHANGED <<poolVars, cpc, added, started>>

(* Mutant of Break: isClosed is tested before the queue.                   *)
BreakEarly(w) == /\ pc[w] = "loop"
                 /\ isClosed
                 /\ mtx' = Nobody
                 /\ pc' = [pc EXCEPT ![w] = "exit"]
                 /\ UNCHANGED <<tasks, isClosed, cpc, added, task, started>>

Break(w) == /\ pc[w] = "loop"
            /\ tasks = <<>>
            /\ isClosed
            /\ mtx' = Nobody
            /\ pc' = [pc EXCEPT ![w] = "exit"]
            /\ UNCHANGED <<tasks, isClosed, cpc, added, task, started>>

Wait(w) == /\ pc[w] = "loop"
           /\ tasks = <<>>
           /\ ~isClosed
           /\ mtx' = Nobody
           /\ pc' = [pc EXCEPT ![w] = "wait"]
           /\ UNCHANGED <<tasks, isClosed, cpc, added, task, started>>

(* A condition variable may wake a waiter nobody notified.                 *)
SpuriousWakeup(w) == /\ pc[w] = "wait"
                     /\ pc' = [pc EXCEPT ![w] = "lock"]
                     /\ UNCHANGED <<poolVars, cpc, added, task, started>>
-----------------------------------------------------------------------------
(* The client: AddTask and the destructor.                                 *)

LockBy(here, there) == /\ cpc = here
                       /\ mtx = Nobody
                       /\ mtx' = Client
                       /\ cpc' = there
                       /\ UNCHANGED <<tasks, isClosed, pc, added, task, started>>

AddTask == added < MaxTasks /\ LockBy("idle", "push")

(* Mutant of Emplace: the caller's function was moved from before.         *)
EmplaceMovedFrom == /\ cpc = "push"
                    /\ added' = added + 1
                    /\ tasks' = Append(tasks, NoTask)
                    /\ mtx' = Nobody
                    /\ cpc' = "notify"
                    /\ UNCHANGED <<isClosed, pc, task, started>>

(* Mutant of Emplace: a worker is notified only if the queue was empty.    *)
EmplaceNotifyFirst == /\ cpc = "push"
                      /\ added' = added + 1
                      /\ tasks' = Append(tasks, added + 1)
                      /\ mtx' = Nobody
                      /\ cpc' = IF tasks = <<>> THEN "notify" ELSE "idle"
                      /\ UNCHANGED <<isClosed, pc, task, started>>

Emplace == /\ cpc = "push"
           /\ added' = added + 1
           /\ tasks' = Append(tasks, added + 1)
           /\ mtx' = Nobody
           /\ cpc' = "notify"
           /\ UNCHANGED <<isClosed, pc, task, started>>

Waiting == {w \in Workers : pc[w] = "wait"}

NotifyOne == /\ cpc = "notify"
             /\ cpc' = "idle"
             /\ \/ Waiting = {} /\ UNCHANGED pc
                \/ \E w \in Waiting : pc' = [pc EXCEPT ![w] = "lock"]
             /\ UNCHANGED <<poolVars, added, task, started>>

Destroy == LockBy("idle", "close")

SetClosed == /\ cpc = "close"
             /\ isClosed' = TRUE
             /\ mtx' = Nobody
             /\ cpc' = "notify_all"
             /\ UNCHANGED <<tasks, pc, added, task, started>>

(* Mutant of NotifyAll: notify_one.                                        *)
NotifyAllOne == /\ cpc = "notify_all"
                /\ cpc' = "destroyed"
                /\ \/ Waiting = {} /\ UNCHANGED pc
                   \/ \E w \in Waiting : pc' = [pc EXCEPT ![w] = "lock"]
                /\ UNCHANGED <<poolVars, added, task, started>>

NotifyAll == /\ cpc = "notify_all"
             /\ cpc' = "destroyed"
             /\ pc' = [w \in Workers |-> IF w \in Waiting THEN "lock" ELSE pc[w]]
             /\ UNCHANGED <<poolVars, added, task, started>>
-----------------------------------------------------------------------------
WorkerStep(w) == \/ Lock(w) \/ MoveFront(w) \/ PopTask(w)
                 \/ RunTask(w) \/ Break(w) \/ Wait(w)

ClientStep == \/ Emplace \/ NotifyOne \/ SetClosed \/ NotifyAll

(* Every thread has ended: the only state in which nothing is left to do.  *)
Terminated == /\ cpc = "destroyed"
              /\ \A w \in Workers : pc[w] = "exit"
              /\ UNCHANGED vars

Next == \/ \E w \in Workers : WorkerStep(w) \/ SpuriousWakeup(w)
        \/ AddTask \/ Destroy
        \/ ClientStep
        \/ Terminated

Spec == Init /\ [][Next]_vars

(***************************************************************************)
(* A running thread is scheduled, and a thread that waits for the mutex is *)
(* not passed over for ever: strong fairness, because the mutex is free    *)
(* only from time to time.  Nothing obliges the client to add a task or to *)
(* destroy the pool, nor a waiter to wake spuriously.                      *)
(***************************************************************************)
Fairness == /\ \A w \in Workers : /\ SF_vars(Lock(w))
                                  /\ WF_vars(WorkerStep(w))
            /\ WF_vars(ClientStep)

FairSpec == Spec /\ Fairness
-----------------------------------------------------------------------------
(* The type of each variable.                                              *)
TypeOK == /\ mtx \in Workers \cup {Client, Nobody}
          /\ tasks \in Seq(Tasks)
          /\ isClosed \in BOOLEAN
          /\ pc \in [Workers -> {"lock", "loop", "pop", "run", "wait", "exit"}]
          /\ cpc \in {"idle", "push", "notify", "close", "notify_all", "destroyed"}
          /\ added \in 0 .. MaxTasks
          /\ task \in [Workers -> Tasks \cup {NoTask}]
          /\ started \in Seq([task : Tasks, worker : Workers])

(***************************************************************************)
(* No task is lost, run twice or overtaken: the tasks taken so far,        *)
(* followed by the tasks in the queue, are exactly the tasks added, in the *)
(* order of the AddTask calls, whatever the workers do.                    *)
(***************************************************************************)
InOrderExactlyOnce ==
  /\ added = Len(started) + Len(tasks)
  /\ \A i \in 1 .. Len(started) : started[i].task = i
  /\ \A i \in 1 .. Len(tasks) : tasks[i] = Len(started) + i

(* Workers that are on their way to taking a task from the queue.          *)
Coming == {w \in Workers : pc[w] \in {"lock", "loop", "pop"}}

(***************************************************************************)
(* No wakeup is lost: while some worker sleeps on the condition variable,  *)
(* each queued task has a worker of its own on the way to it, or the       *)
(* notification the client still owes.  So a task never waits behind a     *)
(* running one while another worker sleeps.                                *)
(***************************************************************************)
NoLostWakeup ==
  Waiting # {} =>
    Len(tasks) <= Cardinality(Coming) + (IF cpc = "notify" THEN 1 ELSE 0)

(* The destructor abandons no task: a worker ends only once every task     *)
(* that was ever added has been taken.                                     *)
ExitOnlyWhenDrained ==
  (\E w \in Workers : pc[w] = "exit") => isClosed /\ Len(started) = added

(* Every task that is added is eventually taken by a worker.               *)
EveryTaskStarts ==
  \A n \in Tasks : (added >= n) ~> (Len(started) >= n)

(* Once the destructor has run every worker returns from its lambda, which *)
(* is what lets the shared Pool be freed.                                  *)
ShutdownCompletes ==
  (cpc = "destroyed") ~> (\A w \in Workers : pc[w] = "exit")

(* The task a worker is executing: none before it has popped it.           *)
Running == [w \in Workers |-> IF pc[w] = "run" THEN task[w] ELSE NoTask]

Abstract == INSTANCE TaskQueue WITH
              Task <- Tasks, Worker <- Workers, NoTask <- NoTask,
              queue <- tasks, running <- Running

(***************************************************************************)
(* The pool, with its mutex, its condition variable and its threads,       *)
(* implements the queue of tasks that HttpServer relies on.                *)
(***************************************************************************)
ImplementsTaskQueue == Abstract!Spec
=============================================================================
