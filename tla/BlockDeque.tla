---------------------------- MODULE BlockDeque ----------------------------
(***************************************************************************)
(* The bounded blocking queue of include/log/block_queue.hpp: a deque, a   *)
(* mutex, one condition variable for consumers and one for producers, and  *)
(* a flag raised by Close.                                                 *)
(*                                                                         *)
(* A method is one critical section, so it is one step, up to the point    *)
(* where it waits; Close notifies after its critical section, in a step of *)
(* its own.  The methods that the program never calls are left out.        *)
(***************************************************************************)
EXTENDS Naturals, Sequences, FiniteSets

CONSTANTS
  Producers,   \* threads that call push_back
  Consumers,   \* threads that call pop
  Capacity,    \* capacity_
  MaxItems     \* bound on the number of items pushed

ASSUME ThreadsAssumption == /\ Producers \cap Consumers = {}
                            /\ IsFiniteSet(Producers)
                            /\ IsFiniteSet(Consumers)
ASSUME CapacityAssumption == Capacity \in Nat \ {0} /\ MaxItems \in Nat

VARIABLES
  deq,       \* deq_
  isClose,   \* isClose_
  closing,   \* Close has left its critical section and not yet notified
  wait,      \* what each thread waits for, or was woken from
  added,     \* history: the items pushed
  popped     \* history: the items popped

dequeVars == <<deq, isClose, closing, wait, added, popped>>

Threads == Producers \cup Consumers

Init == /\ deq = <<>>
        /\ isClose = FALSE
        /\ closing = FALSE
        /\ wait = [t \in Threads |-> "none"]
        /\ added = <<>>
        /\ popped = <<>>
-----------------------------------------------------------------------------
Empty == deq = <<>>

Full == Len(deq) >= Capacity

Asleep(side, w) == {t \in Threads : w[t] = side}

Awake == [waitConsumer |-> "wokenConsumer", waitProducer |-> "wokenProducer"]

(* The values wait may take when one thread of a side is notified.         *)
NotifyOne(side, w) ==
  IF Asleep(side, w) = {}
    THEN {w}
    ELSE {[w EXCEPT ![t] = Awake[side]] : t \in Asleep(side, w)}

Wake(w) == [t \in Threads |-> IF w[t] \in DOMAIN Awake THEN Awake[w[t]] ELSE w[t]]

(* Mutant of PushBack: the consumer is notified only when the deque was    *)
(* empty.                                                                  *)
PushBackNotifyEmpty(t, x) ==
  /\ wait[t] \in {"none", "wokenProducer"}
  /\ ~Full
  /\ deq' = Append(deq, x)
  /\ added' = Append(added, x)
  /\ wait' \in IF Empty
                 THEN NotifyOne("waitConsumer", [wait EXCEPT ![t] = "none"])
                 ELSE {[wait EXCEPT ![t] = "none"]}
  /\ UNCHANGED <<isClose, closing, popped>>

(* push_back, when there is room: on entry or after a wait.                *)
PushBack(t, x) ==
  /\ wait[t] \in {"none", "wokenProducer"}
  /\ ~Full
  /\ deq' = Append(deq, x)
  /\ added' = Append(added, x)
  /\ wait' \in NotifyOne("waitConsumer", [wait EXCEPT ![t] = "none"])
  /\ UNCHANGED <<isClose, closing, popped>>

PushWaits(t) == /\ wait[t] \in {"none", "wokenProducer"}
                /\ Full
                /\ wait' = [wait EXCEPT ![t] = "waitProducer"]
                /\ UNCHANGED <<deq, isClose, closing, added, popped>>

(* The loop of pop goes on: isClose_ is looked at after a wait only.       *)
MayPop(t) == \/ wait[t] = "none"
             \/ wait[t] = "wokenConsumer" /\ ~isClose

(* Mutant of Pop: the item stays in the deque.                             *)
PopKeeps(t) == /\ MayPop(t)
               /\ ~Empty
               /\ popped' = Append(popped, Head(deq))
               /\ wait' \in NotifyOne("waitProducer", [wait EXCEPT ![t] = "none"])
               /\ UNCHANGED <<deq, isClose, closing, added>>

(* pop returns an item.                                                    *)
Pop(t) == /\ MayPop(t)
          /\ ~Empty
          /\ deq' = Tail(deq)
          /\ popped' = Append(popped, Head(deq))
          /\ wait' \in NotifyOne("waitProducer", [wait EXCEPT ![t] = "none"])
          /\ UNCHANGED <<isClose, closing, added>>

PopWaits(t) == /\ MayPop(t)
               /\ Empty
               /\ wait' = [wait EXCEPT ![t] = "waitConsumer"]
               /\ UNCHANGED <<deq, isClose, closing, added, popped>>

(* pop returns false.                                                      *)
PopClosed(t) == /\ wait[t] = "wokenConsumer"
                /\ isClose
                /\ wait' = [wait EXCEPT ![t] = "none"]
                /\ UNCHANGED <<deq, isClose, closing, added, popped>>

(* flush only notifies a consumer.                                         *)
Flush == /\ wait' \in NotifyOne("waitConsumer", wait)
         /\ UNCHANGED <<deq, isClose, closing, added, popped>>

Close == /\ ~isClose
         /\ deq' = <<>>
         /\ isClose' = TRUE
         /\ closing' = TRUE
         /\ UNCHANGED <<wait, added, popped>>

(* Mutant of CloseNotify: the threads that wait are not notified.          *)
CloseSilent == /\ closing
               /\ closing' = FALSE
               /\ UNCHANGED <<wait, deq, isClose, added, popped>>

CloseNotify == /\ closing
               /\ closing' = FALSE
               /\ wait' = Wake(wait)
               /\ UNCHANGED <<deq, isClose, added, popped>>

(* A condition variable may wake a thread nobody notified.                 *)
SpuriousWakeup(t) == /\ wait[t] \in DOMAIN Awake
                     /\ wait' = [wait EXCEPT ![t] = Awake[@]]
                     /\ UNCHANGED <<deq, isClose, closing, added, popped>>

Next == \/ \E p \in Producers :
             \/ Len(added) < MaxItems /\ PushBack(p, Len(added) + 1)
             \/ PushWaits(p)
        \/ \E c \in Consumers : Pop(c) \/ PopWaits(c) \/ PopClosed(c)
        \/ \E t \in Threads : SpuriousWakeup(t)
        \/ Flush \/ Close \/ CloseNotify

Spec == Init /\ [][Next]_dequeVars
-----------------------------------------------------------------------------
TypeOK == /\ deq \in Seq(Nat)
          /\ Len(deq) <= Capacity
          /\ isClose \in BOOLEAN
          /\ closing \in BOOLEAN
          /\ wait \in [Threads -> {"none", "waitConsumer", "wokenConsumer",
                                   "waitProducer", "wokenProducer"}]
          /\ added \in Seq(Nat)
          /\ popped \in Seq(Nat)

(* Until Close throws the rest away, the items popped followed by those in *)
(* the deque are the items pushed, in order.                               *)
PoppedInOrder == ~isClose => popped \o deq = added

(* No wakeup is lost: while a consumer sleeps, every item has a consumer   *)
(* that was woken for it, and while a producer sleeps so has every free    *)
(* place a producer.                                                       *)
NoLostWakeup ==
  ~isClose =>
    /\ Asleep("waitConsumer", wait) # {} =>
         Len(deq) <= Cardinality(Asleep("wokenConsumer", wait))
    /\ Asleep("waitProducer", wait) # {} =>
         Capacity - Len(deq) <= Cardinality(Asleep("wokenProducer", wait))
=============================================================================
