----------------------------- MODULE TaskQueue -----------------------------
(***************************************************************************)
(* What ThreadPool (include/thread_pool/thread_pool.hpp) promises to its   *)
(* callers, with the mutex and the condition variable abstracted away:     *)
(* tasks are handed to the workers in the order in which they were added,  *)
(* each task to one worker, and a worker runs one task at a time.          *)
(* ThreadPool.tla implements this specification, and HttpServer.tla is     *)
(* checked to use its pool in this way only.                               *)
(***************************************************************************)
EXTENDS Sequences

CONSTANTS
  Task,     \* the tasks a caller may add
  Worker,   \* the threads of the pool
  NoTask    \* what a thread runs that has no task

VARIABLES
  queue,    \* tasks added and not yet taken, oldest first
  running   \* the task each worker is executing

queueVars == <<queue, running>>

Init == /\ queue = <<>>
        /\ running = [w \in Worker |-> NoTask]

Submit(t) == /\ queue' = Append(queue, t)
             /\ UNCHANGED running

Take(w) == /\ running[w] = NoTask
           /\ queue # <<>>
           /\ running' = [running EXCEPT ![w] = Head(queue)]
           /\ queue' = Tail(queue)

Finish(w) == /\ running[w] # NoTask
             /\ running' = [running EXCEPT ![w] = NoTask]
             /\ UNCHANGED queue

Next == \/ \E t \in Task : Submit(t)
        \/ \E w \in Worker : Take(w) \/ Finish(w)

Spec == Init /\ [][Next]_queueVars
=============================================================================
