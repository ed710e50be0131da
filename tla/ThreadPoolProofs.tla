-------------------------- MODULE ThreadPoolProofs --------------------------
(***************************************************************************)
(* Theorems about ThreadPool for any finite, non-empty set of workers and  *)
(* any number of tasks.                                                    *)
(***************************************************************************)
EXTENDS ThreadPool, FiniteSetTheorems, TLAPS

(***************************************************************************)
(* The inductive invariant.  MutexHeld is why MoveFront and PopTask act on *)
(* one queue although they are two steps (FrontMoved), which InOrder needs;*)
(* BeforeClose is why nothing is added once a worker may have ended.       *)
(***************************************************************************)
MutexHeld == /\ \A w \in Workers : pc[w] \in {"loop", "pop"} => mtx = w
             /\ cpc \in {"push", "close"} => mtx = Client

FrontMoved == \A w \in Workers :
                /\ pc[w] = "pop" => tasks # <<>> /\ task[w] = Head(tasks)
                /\ pc[w] = "run" => task[w] # NoTask

BeforeClose == /\ cpc = "push" => added < MaxTasks
               /\ isClosed => cpc \in {"notify_all", "destroyed"}

Typed == TypeOK /\ BeforeClose

IInv == Typed /\ MutexHeld /\ FrontMoved /\ InOrderExactlyOnce

(* The operands of Next, for the proofs by cases.                          *)
LEMMA NextCases ==
  ASSUME [Next]_vars
  PROVE  \/ \E w \in Workers : \/ Lock(w) \/ MoveFront(w) \/ PopTask(w)
                               \/ RunTask(w) \/ Break(w) \/ Wait(w)
                               \/ SpuriousWakeup(w)
         \/ AddTask \/ Emplace \/ NotifyOne
         \/ Destroy \/ SetClosed \/ NotifyAll
         \/ UNCHANGED vars
  BY DEF Next, WorkerStep, ClientStep, Terminated

(* No name of a thread stands for two threads.                             *)
LEMMA DistinctThreads ==
  /\ Client # Nobody
  /\ \A w \in Workers : w # Client /\ w # Nobody
  BY WorkersAssumption
-----------------------------------------------------------------------------
(* The types are right at the start.                                       *)
LEMMA TypedInit == Init => Typed
<1> SUFFICES ASSUME Init PROVE Typed
  OBVIOUS
<1>1. <<>> \in Seq(Tasks) /\ <<>> \in Seq([task : Tasks, worker : Workers])
  OBVIOUS
<1>2. TypeOK
  <2>1. mtx \in Workers \cup {Client, Nobody} /\ tasks \in Seq(Tasks)
    BY <1>1 DEF Init
  <2>2. isClosed \in BOOLEAN
    BY DEF Init
  <2>3. pc \in [Workers -> {"lock", "loop", "pop", "run", "wait", "exit"}]
    BY DEF Init
  <2>4. task \in [Workers -> Tasks \cup {NoTask}]
    BY DEF Init
  <2>5. added \in 0 .. MaxTasks
    BY MaxTasksAssumption DEF Init
  <2>6. cpc = "idle" /\ started \in Seq([task : Tasks, worker : Workers])
    BY <1>1 DEF Init
  <2>. QED
    BY <2>1, <2>2, <2>3, <2>4, <2>5, <2>6 DEF TypeOK
<1>3. BeforeClose
  BY DEF Init, BeforeClose
<1>. QED
  BY <1>2, <1>3 DEF Typed

(* Every step preserves the types.                                         *)
LEMMA TypedStep == Typed /\ MutexHeld /\ FrontMoved /\ [Next]_vars => Typed'
<1> SUFFICES ASSUME Typed, MutexHeld, FrontMoved, [Next]_vars PROVE Typed'
  OBVIOUS
<1> USE MaxTasksAssumption DEF Typed, TypeOK, BeforeClose, poolVars, Tasks, NoTask
<1>1. ASSUME NEW w \in Workers, Lock(w) PROVE Typed'
  BY <1>1 DEF Lock
<1>2. ASSUME NEW w \in Workers, MoveFront(w) PROVE Typed'
  BY <1>2 DEF MoveFront
<1>3. ASSUME NEW w \in Workers, PopTask(w) PROVE Typed'
  <2>1. tasks # <<>> /\ task[w] = Head(tasks)
    BY <1>3 DEF PopTask, FrontMoved
  <2>2. Head(tasks) \in 1 .. MaxTasks /\ Tail(tasks) \in Seq(1 .. MaxTasks)
    BY <2>1
  <2>3. started' \in Seq([task : 1 .. MaxTasks, worker : Workers])
    BY <1>3, <2>1, <2>2 DEF PopTask
  <2>. QED
    BY <1>3, <2>2, <2>3 DEF PopTask
<1>4. ASSUME NEW w \in Workers, RunTask(w) PROVE Typed'
  BY <1>4 DEF RunTask
<1>5. ASSUME NEW w \in Workers, Break(w) PROVE Typed'
  BY <1>5 DEF Break
<1>6. ASSUME NEW w \in Workers, Wait(w) PROVE Typed'
  BY <1>6 DEF Wait
<1>7. ASSUME NEW w \in Workers, SpuriousWakeup(w) PROVE Typed'
  BY <1>7 DEF SpuriousWakeup
<1>8. CASE AddTask
  BY <1>8 DEF AddTask, LockBy
<1>9. CASE Emplace
  BY <1>9 DEF Emplace
<1>10. CASE NotifyOne
  BY <1>10 DEF NotifyOne, Waiting
<1>11. CASE Destroy
  BY <1>11 DEF Destroy, LockBy
<1>12. CASE SetClosed
  BY <1>12 DEF SetClosed
<1>13. CASE NotifyAll
  BY <1>13 DEF NotifyAll
<1>14. CASE UNCHANGED vars
  BY <1>14 DEF vars
<1>. QED
  BY <1>1, <1>2, <1>3, <1>4, <1>5, <1>6, <1>7, <1>8, <1>9, <1>10, <1>11,
     <1>12, <1>13, <1>14, NextCases
-----------------------------------------------------------------------------
(* Whoever touches the queue holds the mutex, and the front a worker has   *)
(* moved is still the front when it pops.                                  *)
LEMMA MutexStep == IInv /\ [Next]_vars => MutexHeld' /\ FrontMoved'
<1> SUFFICES ASSUME IInv, [Next]_vars PROVE MutexHeld' /\ FrontMoved'
  OBVIOUS
<1> USE DistinctThreads
    DEF IInv, Typed, TypeOK, MutexHeld, FrontMoved, poolVars
<1>1. ASSUME NEW w \in Workers, Lock(w) PROVE MutexHeld' /\ FrontMoved'
  BY <1>1 DEF Lock
<1>2. ASSUME NEW w \in Workers, MoveFront(w) PROVE MutexHeld' /\ FrontMoved'
  BY <1>2 DEF MoveFront
<1>3. ASSUME NEW w \in Workers, PopTask(w) PROVE MutexHeld' /\ FrontMoved'
  <2>1. tasks # <<>> /\ task[w] = Head(tasks)
    BY <1>3 DEF PopTask
  <2>2. Head(tasks) \in Tasks
    BY <2>1
  <2>3. task[w] # NoTask
    BY <2>1, <2>2, MaxTasksAssumption DEF Tasks, NoTask
  <2>. QED
    BY <1>3, <2>3 DEF PopTask
<1>4. ASSUME NEW w \in Workers, RunTask(w) PROVE MutexHeld' /\ FrontMoved'
  BY <1>4 DEF RunTask
<1>5. ASSUME NEW w \in Workers, Break(w) PROVE MutexHeld' /\ FrontMoved'
  BY <1>5 DEF Break
<1>6. ASSUME NEW w \in Workers, Wait(w) PROVE MutexHeld' /\ FrontMoved'
  BY <1>6 DEF Wait
<1>7. ASSUME NEW w \in Workers, SpuriousWakeup(w)
      PROVE MutexHeld' /\ FrontMoved'
  BY <1>7 DEF SpuriousWakeup
<1>8. CASE AddTask
  BY <1>8 DEF AddTask, LockBy
<1>9. CASE Emplace
  BY <1>9 DEF Emplace
<1>10. CASE NotifyOne
  BY <1>10 DEF NotifyOne, Waiting
<1>11. CASE Destroy
  BY <1>11 DEF Destroy, LockBy
<1>12. CASE SetClosed
  BY <1>12 DEF SetClosed
<1>13. CASE NotifyAll
  BY <1>13 DEF NotifyAll
<1>14. CASE UNCHANGED vars
  BY <1>14 DEF vars
<1>. QED
  BY <1>1, <1>2, <1>3, <1>4, <1>5, <1>6, <1>7, <1>8, <1>9, <1>10, <1>11,
     <1>12, <1>13, <1>14, NextCases
-----------------------------------------------------------------------------
(* Only PopTask and Emplace change the queue, and both keep the order.     *)
LEMMA OrderStep == IInv /\ [Next]_vars => InOrderExactlyOnce'
<1> SUFFICES ASSUME IInv, [Next]_vars PROVE InOrderExactlyOnce'
  OBVIOUS
<1> USE DEF IInv, Typed, TypeOK, InOrderExactlyOnce
<1>1. ASSUME NEW w \in Workers, PopTask(w) PROVE InOrderExactlyOnce'
  <2>1. /\ tasks # <<>> /\ task[w] = tasks[1] /\ tasks' = Tail(tasks)
        /\ Len(tasks') = Len(tasks) - 1
        /\ \A i \in 1 .. Len(tasks') : tasks'[i] = tasks[i + 1]
    BY <1>1 DEF PopTask, FrontMoved
  <2>2. /\ Len(started') = Len(started) + 1
        /\ \A i \in 1 .. Len(started) : started'[i] = started[i]
        /\ started'[Len(started) + 1].task = Len(started) + 1
    BY <1>1, <2>1 DEF PopTask
  <2>3. \A i \in 1 .. Len(started') : started'[i].task = i
    BY <2>2
  <2>4. \A i \in 1 .. Len(tasks') : tasks'[i] = Len(started') + i
    BY <2>1, <2>2
  <2>. QED
    BY <1>1, <2>1, <2>2, <2>3, <2>4 DEF PopTask
<1>2. CASE Emplace
  BY <1>2 DEF Emplace
<1>3. CASE UNCHANGED <<tasks, added, started>>
  BY <1>3
<1>. QED
  BY <1>1, <1>2, <1>3, NextCases
  DEF Lock, MoveFront, RunTask, Break, Wait, SpuriousWakeup, AddTask, LockBy,
      NotifyOne, Destroy, SetClosed, NotifyAll, poolVars, vars

(* The invariant holds at the start.                                       *)
LEMMA InvInit == Init => IInv
  BY TypedInit, DistinctThreads
  DEF Init, IInv, MutexHeld, FrontMoved, InOrderExactlyOnce

(* The invariant holds always.                                             *)
LEMMA Inductive == Spec => []IInv
<1>1. IInv /\ [Next]_vars => IInv'
  BY TypedStep, MutexStep, OrderStep DEF IInv
<1>. QED
  BY <1>1, InvInit, PTL DEF Spec

-----------------------------------------------------------------------------
(* A worker that starts coming, or stops, changes their number by one.     *)
LEMMA ComingFinite == IsFiniteSet(Coming) /\ Cardinality(Coming) \in Nat
  BY WorkersAssumption, FS_Subset, FS_CardinalityType DEF Coming

(* One more worker is on its way to the queue.                             *)
LEMMA OneMoreComing ==
  ASSUME NEW w \in Workers, w \notin Coming, Coming' = Coming \cup {w}
  PROVE  Cardinality(Coming') = Cardinality(Coming) + 1
  BY ComingFinite, FS_AddElement

(* One worker less is on its way to the queue.                             *)
LEMMA OneLessComing ==
  ASSUME NEW w \in Workers, w \in Coming, Coming' = Coming \ {w}
  PROVE  Cardinality(Coming') = Cardinality(Coming) - 1
  BY ComingFinite, FS_RemoveElement

(* How many notifications the client still owes.                           *)
Owed == IF cpc = "notify" THEN 1 ELSE 0

(* Every step preserves that no wakeup is lost.                            *)
LEMMA WakeupStep == IInv /\ NoLostWakeup /\ [Next]_vars => NoLostWakeup'
<1> SUFFICES ASSUME IInv, NoLostWakeup, [Next]_vars, Waiting' # {}
             PROVE  Len(tasks') <= Cardinality(Coming') + Owed'
  BY DEF NoLostWakeup, Owed
<1>0. /\ Cardinality(Coming) \in Nat
      /\ tasks \in Seq(Tasks) /\ Len(tasks) \in Nat
      /\ pc \in [Workers -> {"lock", "loop", "pop", "run", "wait", "exit"}]
      /\ Owed \in {0, 1}
  BY ComingFinite DEF IInv, Typed, TypeOK, Owed
<1>a. Waiting # {} => Len(tasks) <= Cardinality(Coming) + Owed
  BY DEF NoLostWakeup, Owed
<1> DEFINE Goal == Len(tasks') <= Cardinality(Coming') + Owed'
<1>1. ASSUME NEW w \in Workers, Lock(w) \/ MoveFront(w) PROVE Goal
  <2>1. /\ Coming' = Coming /\ Waiting' = Waiting
        /\ tasks' = tasks /\ Owed' = Owed
    BY <1>0, <1>1 DEF Lock, MoveFront, Coming, Waiting, Owed, poolVars
  <2>. QED
    BY <1>a, <2>1
<1>2. ASSUME NEW w \in Workers, PopTask(w) PROVE Goal
  <2>1. /\ Coming' = Coming \ {w} /\ w \in Coming
        /\ Waiting' = Waiting /\ Owed' = Owed
    BY <1>0, <1>2 DEF PopTask, Coming, Waiting, Owed
  <2>2. Len(tasks') = Len(tasks) - 1
    BY <1>0, <1>2 DEF PopTask, IInv, FrontMoved
  <2>3. Cardinality(Coming') = Cardinality(Coming) - 1
    BY <2>1, OneLessComing
  <2>4. Len(tasks) <= Cardinality(Coming) + Owed
    BY <1>a, <2>1
  <2>. QED
    BY <1>0, <2>1, <2>2, <2>3, <2>4
<1>3. ASSUME NEW w \in Workers, RunTask(w) PROVE Goal
  <2>1. /\ Coming' = Coming \cup {w} /\ w \notin Coming
        /\ Waiting' = Waiting /\ tasks' = tasks /\ Owed' = Owed
    BY <1>0, <1>3 DEF RunTask, Coming, Waiting, Owed, poolVars
  <2>2. Cardinality(Coming') = Cardinality(Coming) + 1
    BY <2>1, OneMoreComing
  <2>3. Len(tasks) <= Cardinality(Coming) + Owed
    BY <1>a, <2>1
  <2>. QED
    BY <1>0, <2>1, <2>2, <2>3
<1>4. ASSUME NEW w \in Workers, Break(w) \/ Wait(w) PROVE Goal
  <2>1. Len(tasks') = 0
    BY <1>4 DEF Break, Wait
  <2>2. Cardinality(Coming') \in Nat
    <3>1. IsFiniteSet(Coming')
      BY WorkersAssumption, FS_Subset DEF Coming
    <3>. QED
      BY <3>1, FS_CardinalityType
  <2>3. Owed' \in {0, 1}
    BY DEF Owed
  <2>. QED
    BY <2>1, <2>2, <2>3
<1>5. ASSUME NEW w \in Workers, SpuriousWakeup(w) PROVE Goal
  <2>1. /\ Coming' = Coming \cup {w} /\ w \notin Coming /\ w \in Waiting
        /\ tasks' = tasks /\ Owed' = Owed
    BY <1>0, <1>5 DEF SpuriousWakeup, Coming, Waiting, Owed, poolVars
  <2>2. Cardinality(Coming') = Cardinality(Coming) + 1
    BY <2>1, OneMoreComing
  <2>3. Len(tasks) <= Cardinality(Coming) + Owed
    BY <1>a, <2>1
  <2>. QED
    BY <1>0, <2>1, <2>2, <2>3
<1>6. CASE AddTask \/ Destroy \/ SetClosed
  <2>1. /\ Coming' = Coming /\ Waiting' = Waiting
        /\ tasks' = tasks /\ Owed' = Owed
    BY <1>6 DEF AddTask, Destroy, LockBy, SetClosed, Coming, Waiting, Owed
  <2>. QED
    BY <1>a, <2>1
<1>7. CASE Emplace
  <2>1. /\ Coming' = Coming /\ Waiting' = Waiting
        /\ Owed = 0 /\ Owed' = 1
    BY <1>7 DEF Emplace, Coming, Waiting, Owed
  <2>2. Len(tasks') = Len(tasks) + 1
    BY <1>0, <1>7 DEF Emplace
  <2>3. Len(tasks) <= Cardinality(Coming) + Owed
    BY <1>a, <2>1
  <2>. QED
    BY <1>0, <2>1, <2>2, <2>3
<1>8. CASE NotifyOne
  <2>1. Waiting # {}
    BY <1>8 DEF NotifyOne, Waiting
  <2>2. PICK w \in Waiting : pc' = [pc EXCEPT ![w] = "lock"]
    BY <1>8, <2>1 DEF NotifyOne
  <2>3. w \in Workers /\ w \notin Coming /\ Coming' = Coming \cup {w}
    BY <1>0, <2>2 DEF Coming, Waiting
  <2>4. Cardinality(Coming') = Cardinality(Coming) + 1
    BY <2>3, OneMoreComing
  <2>5. tasks' = tasks /\ Owed = 1 /\ Owed' = 0
    BY <1>8 DEF NotifyOne, Owed, poolVars
  <2>6. Len(tasks) <= Cardinality(Coming) + Owed
    BY <1>a, <2>1
  <2>. QED
    BY <1>0, <2>4, <2>5, <2>6
<1>9. CASE NotifyAll
  BY <1>0, <1>9 DEF NotifyAll, Waiting
<1>10. CASE UNCHANGED vars
  <2>1. /\ Coming' = Coming /\ Waiting' = Waiting
        /\ tasks' = tasks /\ Owed' = Owed
    BY <1>10 DEF vars, poolVars, Coming, Waiting, Owed
  <2>. QED
    BY <1>a, <2>1
<1>. QED
  BY <1>1, <1>2, <1>3, <1>4, <1>5, <1>6, <1>7, <1>8, <1>9, <1>10, NextCases

(* Every step preserves that workers end when nothing is left.             *)
LEMMA ExitStep == IInv /\ ExitOnlyWhenDrained /\ [Next]_vars => ExitOnlyWhenDrained'
<1> SUFFICES ASSUME IInv, ExitOnlyWhenDrained, [Next]_vars
             PROVE  ExitOnlyWhenDrained'
  OBVIOUS
<1> USE DEF IInv, Typed, TypeOK, ExitOnlyWhenDrained, poolVars
<1>1. ASSUME NEW w \in Workers, Break(w) PROVE ExitOnlyWhenDrained'
  <2>1. added = Len(started)
    BY <1>1 DEF Break, InOrderExactlyOnce
  <2>. QED
    BY <1>1, <2>1 DEF Break
<1>2. ASSUME NEW w \in Workers, PopTask(w) PROVE ExitOnlyWhenDrained'
  <2>1. Len(tasks) # 0 /\ added # Len(started)
    BY <1>2 DEF PopTask, FrontMoved, InOrderExactlyOnce
  <2>. QED
    BY <1>2, <2>1 DEF PopTask
<1>3. CASE Emplace
  BY <1>3 DEF Emplace, BeforeClose
<1>. QED
  BY <1>1, <1>2, <1>3, NextCases
  DEF Lock, MoveFront, RunTask, Wait, SpuriousWakeup, AddTask, LockBy,
      NotifyOne, Waiting, Destroy, SetClosed, NotifyAll, vars
-----------------------------------------------------------------------------
(* Every reachable state of the pool is well typed.                        *)
THEOREM TypeCorrect == Spec => []TypeOK
  BY Inductive, PTL DEF IInv, Typed

(***************************************************************************)
(* However the threads interleave, the tasks taken are the tasks added, in *)
(* the order of the AddTask calls, each taken once.                        *)
(***************************************************************************)
THEOREM TasksInOrderExactlyOnce == Spec => []InOrderExactlyOnce
  BY Inductive, PTL DEF IInv

(***************************************************************************)
(* No wakeup is lost: while a worker sleeps, each queued task has a worker *)
(* of its own coming for it, or a notification on its way.                 *)
(***************************************************************************)
THEOREM WakeupsNotLost == Spec => []NoLostWakeup
<1>1. Init => NoLostWakeup
  BY DEF Init, NoLostWakeup, Waiting
<1>. QED
  BY <1>1, WakeupStep, Inductive, PTL DEF Spec

(* A worker only ever ends when the pool is closed and no task is left.    *)
THEOREM DrainedBeforeExit == Spec => []ExitOnlyWhenDrained
<1>1. Init => ExitOnlyWhenDrained
  BY DEF Init, ExitOnlyWhenDrained
<1>. QED
  BY <1>1, ExitStep, Inductive, PTL DEF Spec

(***************************************************************************)
(* The pool implements TaskQueue: Emplace is Submit, PopTask is Take,      *)
(* RunTask is Finish, and every other step stutters.                       *)
(***************************************************************************)
THEOREM Refinement == Spec => ImplementsTaskQueue
<1>1. Init => Abstract!Init
  BY DEF Init, Abstract!Init, Running
<1>2. IInv /\ [Next]_vars => [Abstract!Next]_(Abstract!queueVars)
  <2> SUFFICES ASSUME IInv, [Next]_vars
               PROVE  [Abstract!Next]_(Abstract!queueVars)
    OBVIOUS
  <2> USE DEF IInv, Typed, TypeOK, Running, poolVars, Abstract!queueVars
  <2>1. ASSUME NEW w \in Workers, PopTask(w) PROVE Abstract!Take(w)
    BY <2>1 DEF PopTask, Abstract!Take, FrontMoved
  <2>2. ASSUME NEW w \in Workers, RunTask(w) PROVE Abstract!Finish(w)
    BY <2>2 DEF RunTask, Abstract!Finish, FrontMoved
  <2>3. CASE Emplace
    <3>1. added + 1 \in Tasks
      BY <2>3, MaxTasksAssumption DEF Emplace, BeforeClose, Tasks
    <3>2. Abstract!Submit(added + 1)
      BY <2>3 DEF Emplace, Abstract!Submit
    <3>. QED
      BY <3>1, <3>2 DEF Abstract!Next
  <2>4. ASSUME NEW w \in Workers,
               \/ Lock(w) \/ MoveFront(w) \/ Break(w) \/ Wait(w)
               \/ SpuriousWakeup(w)
        PROVE  UNCHANGED Abstract!queueVars
    BY <2>4 DEF Lock, MoveFront, Break, Wait, SpuriousWakeup
  <2>5. CASE \/ AddTask \/ Destroy \/ SetClosed \/ NotifyOne \/ NotifyAll
             \/ UNCHANGED vars
    BY <2>5 DEF AddTask, Destroy, LockBy, SetClosed, NotifyOne, NotifyAll,
                Waiting, vars
  <2>. QED
    BY <2>1, <2>2, <2>3, <2>4, <2>5, NextCases DEF Abstract!Next
<1>. QED
  BY <1>1, <1>2, Inductive, PTL DEF Spec, ImplementsTaskQueue, Abstract!Spec
=============================================================================
