-------------------------- MODULE BlockDequeProofs --------------------------
(***************************************************************************)
(* Theorems about BlockDeque for any finite sets of producers and of       *)
(* consumers, any capacity and any number of items.                        *)
(*                                                                         *)
(* The inductive invariant adds to PoppedInOrder and NoLostWakeup the types*)
(* and that Close notifies after it has set isClose_ (ClosingIsClosed).    *)
(***************************************************************************)
EXTENDS BlockDeque, FiniteSetTheorems, SequenceTheorems, TLAPS

ClosingIsClosed == closing => isClose

States == {"none", "waitConsumer", "wokenConsumer", "waitProducer", "wokenProducer"}

Typed == TypeOK /\ ClosingIsClosed

IInv == Typed /\ PoppedInOrder /\ NoLostWakeup

(* The state that a notification gives to a thread that sleeps.            *)
LEMMA AwakeOf == /\ DOMAIN Awake = {"waitConsumer", "waitProducer"}
                 /\ Awake["waitConsumer"] = "wokenConsumer"
                 /\ Awake["waitProducer"] = "wokenProducer"
BY DEF Awake

(* The threads in a state are finitely many.                               *)
LEMMA AsleepFinite ==
  ASSUME NEW w, NEW s
  PROVE  IsFiniteSet(Asleep(s, w)) /\ Cardinality(Asleep(s, w)) \in Nat
<1>1. IsFiniteSet(Threads)
  BY ThreadsAssumption, FS_Union DEF Threads
<1>2. Asleep(s, w) \subseteq Threads
  BY DEF Asleep
<1> QED
  BY <1>1, <1>2, FS_Subset, FS_CardinalityType

(* One more thread is in a state.                                          *)
LEMMA OneMore ==
  ASSUME NEW s, NEW w, NEW v, NEW t,
         t \notin Asleep(s, w), Asleep(s, v) = Asleep(s, w) \cup {t}
  PROVE  Cardinality(Asleep(s, v)) = Cardinality(Asleep(s, w)) + 1
BY AsleepFinite, FS_AddElement

(* One thread less is in a state.                                          *)
LEMMA OneLess ==
  ASSUME NEW s, NEW w, NEW v, NEW t,
         t \in Asleep(s, w), Asleep(s, v) = Asleep(s, w) \ {t}
  PROVE  Cardinality(Asleep(s, v)) = Cardinality(Asleep(s, w)) - 1
BY AsleepFinite, FS_RemoveElement

(* A notification takes one thread of its side from sleep, if there is any,*)
(* and touches no other thread.                                            *)
LEMMA Notified ==
  ASSUME NEW w \in [Threads -> States], NEW side \in States,
         NEW woken \in States, woken = Awake[side], woken # side,
         NEW v \in NotifyOne(side, w)
  PROVE  /\ v \in [Threads -> States]
         /\ \A r \in States \ {side, woken} : Asleep(r, v) = Asleep(r, w)
         /\ Cardinality(Asleep(woken, w)) <= Cardinality(Asleep(woken, v))
         /\ Asleep(side, v) # {} =>
              /\ Asleep(side, w) # {}
              /\ Cardinality(Asleep(woken, v)) = Cardinality(Asleep(woken, w)) + 1
<1>0. Cardinality(Asleep(woken, w)) \in Nat
  BY AsleepFinite
<1>1. CASE Asleep(side, w) = {}
  <2>1. v = w
    BY <1>1 DEF NotifyOne
  <2> QED
    BY <1>0, <1>1, <2>1
<1>2. CASE Asleep(side, w) # {}
  <2>1. PICK t \in Asleep(side, w) : v = [w EXCEPT ![t] = woken]
    BY <1>2 DEF NotifyOne
  <2>2. t \in Threads /\ w[t] = side
    BY DEF Asleep
  <2>3. /\ v \in [Threads -> States]
        /\ \A r \in States \ {woken, side} : Asleep(r, v) = Asleep(r, w)
        /\ Asleep(woken, v) = Asleep(woken, w) \cup {t} /\ t \notin Asleep(woken, w)
    BY <2>1, <2>2 DEF Asleep
  <2>4. Cardinality(Asleep(woken, v)) = Cardinality(Asleep(woken, w)) + 1
    BY <2>3, OneMore
  <2> QED
    BY <1>0, <1>2, <2>3, <2>4
<1> QED
  BY <1>1, <1>2

(* A side is served when, while a thread of it sleeps, at least n of its   *)
(* threads were woken.                                                     *)
Served(side, woken, n, w) ==
  Asleep(side, w) # {} => n <= Cardinality(Asleep(woken, w))

(* NoLostWakeup says that both sides are served.                           *)
ConsumersServed == Served("waitConsumer", "wokenConsumer", Len(deq), wait)

ProducersServed == Served("waitProducer", "wokenProducer", Capacity - Len(deq), wait)

(* A thread that goes on from where it was woken, or was not waiting, and  *)
(* notifies the other side: that one may be given one more item or place,  *)
(* and its own has one less.                                               *)
LEMMA GoesOn ==
  ASSUME NEW w \in [Threads -> States], NEW t \in Threads,
         NEW side \in States, NEW woken \in States, woken = Awake[side],
         NEW own \in States, NEW ownWoken \in States,
         side # woken, side # own, side # ownWoken, woken # own, woken # ownWoken,
         own # ownWoken, "none" \notin {side, woken, own, ownWoken},
         w[t] \in {"none", ownWoken},
         NEW v \in NotifyOne(side, [w EXCEPT ![t] = "none"]),
         NEW n \in Int, NEW m \in Int,
         Served(side, woken, n, w), Served(own, ownWoken, m, w)
  PROVE  /\ v \in [Threads -> States]
         /\ Served(side, woken, n + 1, v)
         /\ Served(own, ownWoken, m - 1, v)
<1> DEFINE u == [w EXCEPT ![t] = "none"]
<1>0. /\ "none" \in States
      /\ Cardinality(Asleep(woken, w)) \in Nat
      /\ Cardinality(Asleep(ownWoken, w)) \in Nat
      /\ Cardinality(Asleep(ownWoken, u)) \in Nat
  BY AsleepFinite DEF States
<1>1. /\ u \in [Threads -> States]
      /\ \A r \in States \ {"none", ownWoken} : Asleep(r, u) = Asleep(r, w)
      /\ \/ u = w
         \/ /\ Asleep(ownWoken, u) = Asleep(ownWoken, w) \ {t}
            /\ t \in Asleep(ownWoken, w)
  BY <1>0 DEF Asleep
<1>2. v \in NotifyOne(side, u)
  OBVIOUS
<1> HIDE DEF u
<1>a. Cardinality(Asleep(ownWoken, w)) - 1 <= Cardinality(Asleep(ownWoken, u))
  <2>1. CASE u = w
    BY <1>0, <2>1
  <2>2. CASE t \in Asleep(ownWoken, w) /\ Asleep(ownWoken, u) = Asleep(ownWoken, w) \ {t}
    <3>1. Cardinality(Asleep(ownWoken, u)) = Cardinality(Asleep(ownWoken, w)) - 1
      BY <2>2, OneLess
    <3> QED
      BY <1>0, <3>1
  <2> QED
    BY <1>1, <2>1, <2>2
<1>b. /\ Asleep(side, u) = Asleep(side, w)
      /\ Asleep(own, u) = Asleep(own, w)
      /\ Asleep(woken, u) = Asleep(woken, w)
  BY <1>1
<1>3. /\ v \in [Threads -> States]
      /\ \A r \in States \ {side, woken} : Asleep(r, v) = Asleep(r, u)
      /\ Asleep(side, v) # {} =>
           /\ Asleep(side, u) # {}
           /\ Cardinality(Asleep(woken, v)) = Cardinality(Asleep(woken, u)) + 1
  BY <1>1, <1>2, Notified
<1>4. Asleep(own, v) = Asleep(own, u) /\ Asleep(ownWoken, v) = Asleep(ownWoken, u)
  BY <1>3
<1>5. Served(side, woken, n + 1, v)
  BY <1>0, <1>b, <1>3 DEF Served
<1>6. Served(own, ownWoken, m - 1, v)
  BY <1>0, <1>a, <1>b, <1>4 DEF Served
<1> QED
  BY <1>3, <1>5, <1>6
(* The two sides of it: a producer that pushes, a consumer that pops.      *)
LEMMA ProducerGoesOn ==
  ASSUME NEW w \in [Threads -> States], NEW t \in Threads,
         w[t] \in {"none", "wokenProducer"}, NEW n \in Int, NEW m \in Int,
         NEW v \in NotifyOne("waitConsumer", [w EXCEPT ![t] = "none"]),
         Served("waitConsumer", "wokenConsumer", n, w),
         Served("waitProducer", "wokenProducer", m, w)
  PROVE  /\ Served("waitConsumer", "wokenConsumer", n + 1, v)
         /\ Served("waitProducer", "wokenProducer", m - 1, v)
<1>1. /\ "waitConsumer" \in States /\ "wokenConsumer" \in States
      /\ "waitProducer" \in States /\ "wokenProducer" \in States
      /\ "none" \notin {"waitConsumer", "wokenConsumer", "waitProducer", "wokenProducer"}
      /\ "waitConsumer" # "wokenConsumer" /\ "waitConsumer" # "waitProducer"
      /\ "waitConsumer" # "wokenProducer" /\ "wokenConsumer" # "waitProducer"
      /\ "wokenConsumer" # "wokenProducer" /\ "waitProducer" # "wokenProducer"
  BY DEF States
<1>2. "wokenConsumer" = Awake["waitConsumer"]
  BY AwakeOf
<1> QED
  BY <1>1, <1>2, GoesOn, ZenonT(60)

LEMMA ConsumerGoesOn ==
  ASSUME NEW w \in [Threads -> States], NEW t \in Threads,
         w[t] \in {"none", "wokenConsumer"}, NEW n \in Int, NEW m \in Int,
         NEW v \in NotifyOne("waitProducer", [w EXCEPT ![t] = "none"]),
         Served("waitProducer", "wokenProducer", n, w),
         Served("waitConsumer", "wokenConsumer", m, w)
  PROVE  /\ Served("waitProducer", "wokenProducer", n + 1, v)
         /\ Served("waitConsumer", "wokenConsumer", m - 1, v)
<1>1. /\ "waitConsumer" \in States /\ "wokenConsumer" \in States
      /\ "waitProducer" \in States /\ "wokenProducer" \in States
      /\ "none" \notin {"waitProducer", "wokenProducer", "waitConsumer", "wokenConsumer"}
      /\ "waitProducer" # "wokenProducer" /\ "waitProducer" # "waitConsumer"
      /\ "waitProducer" # "wokenConsumer" /\ "wokenProducer" # "waitConsumer"
      /\ "wokenProducer" # "wokenConsumer" /\ "waitConsumer" # "wokenConsumer"
  BY DEF States
<1>2. "wokenProducer" = Awake["waitProducer"]
  BY AwakeOf
<1> QED
  BY <1>1, <1>2, GoesOn, ZenonT(60)
-----------------------------------------------------------------------------
(* The operands of Next, for the proofs by cases.                          *)
LEMMA NextCases ==
  ASSUME [Next]_dequeVars
  PROVE  \/ \E p \in Producers : PushBack(p, Len(added) + 1) \/ PushWaits(p)
         \/ \E c \in Consumers : Pop(c) \/ PopWaits(c) \/ PopClosed(c)
         \/ \E t \in Threads : SpuriousWakeup(t)
         \/ Flush \/ Close \/ CloseNotify \/ UNCHANGED dequeVars
BY DEF Next

(* The invariant holds at the start.                                       *)
LEMMA InitIInv == Init => IInv
<1> SUFFICES ASSUME Init PROVE IInv
  OBVIOUS
<1>1. Asleep("waitConsumer", wait) = {} /\ Asleep("waitProducer", wait) = {}
  BY DEF Init, Asleep
<1>2. NoLostWakeup
  BY <1>1 DEF NoLostWakeup
<1>3. deq = <<>> /\ added = <<>> /\ popped = <<>> /\ ~closing /\ ~isClose
  BY DEF Init
<1>4. PoppedInOrder
  BY <1>3 DEF PoppedInOrder
<1>5. wait \in [Threads -> States]
  BY DEF Init, States
<1>6. Typed
  <2>1. <<>> \in Seq(Nat) /\ Len(<<>>) = 0
    OBVIOUS
  <2>2. /\ deq \in Seq(Nat) /\ Len(deq) <= Capacity
        /\ added \in Seq(Nat) /\ popped \in Seq(Nat)
    BY <1>3, <2>1, CapacityAssumption
  <2>3. isClose \in BOOLEAN /\ closing \in BOOLEAN
    BY DEF Init
  <2>4. TypeOK
    BY <1>5, <2>2, <2>3 DEF TypeOK, States
  <2> QED
    BY <1>3, <2>4 DEF Typed, ClosingIsClosed
<1> QED
  BY <1>2, <1>4, <1>6 DEF IInv

(* What a thread waits for stays one of the states.                        *)
LEMMA WaitStep ==
  ASSUME wait \in [Threads -> States], [Next]_dequeVars
  PROVE  wait' \in [Threads -> States]
<1>1. ASSUME NEW t \in Threads, NEW s \in {"none", "waitConsumer", "waitProducer"}
      PROVE  [wait EXCEPT ![t] = s] \in [Threads -> States]
  BY DEF States
<1>2. ASSUME NEW w \in [Threads -> States], NEW side \in DOMAIN Awake,
             NEW v \in NotifyOne(side, w)
      PROVE  v \in [Threads -> States]
  BY Notified, AwakeOf DEF States
<1>3. ASSUME NEW p \in Producers, PushBack(p, Len(added) + 1) \/ PushWaits(p)
      PROVE  wait' \in [Threads -> States]
  BY <1>1, <1>2, <1>3, AwakeOf DEF PushBack, PushWaits, Threads
<1>4. ASSUME NEW c \in Consumers, Pop(c) \/ PopWaits(c) \/ PopClosed(c)
      PROVE  wait' \in [Threads -> States]
  BY <1>1, <1>2, <1>4, AwakeOf DEF Pop, PopWaits, PopClosed, Threads
<1>5. ASSUME NEW t \in Threads, SpuriousWakeup(t)
      PROVE  wait' \in [Threads -> States]
  <2>1. Awake[wait[t]] \in States
    BY <1>5, AwakeOf DEF SpuriousWakeup, States
  <2> QED
    BY <1>5, <2>1 DEF SpuriousWakeup
<1>6. CASE Flush
  BY <1>2, <1>6, AwakeOf DEF Flush
<1>7. CASE CloseNotify
  <2>1. \A t \in Threads :
          (IF wait[t] \in DOMAIN Awake THEN Awake[wait[t]] ELSE wait[t]) \in States
    BY AwakeOf DEF States
  <2> QED
    BY <1>7, <2>1 DEF CloseNotify, Wake
<1>8. CASE Close \/ UNCHANGED dequeVars
  BY <1>8 DEF Close, dequeVars
<1> QED
  BY <1>3, <1>4, <1>5, <1>6, <1>7, <1>8, NextCases

(* Every step preserves the types.                                         *)
LEMMA TypedStep == Typed /\ [Next]_dequeVars => Typed'
<1> SUFFICES ASSUME Typed, [Next]_dequeVars PROVE Typed'
  OBVIOUS
<1>1. wait \in [Threads -> States]
  BY DEF Typed, TypeOK, States
<1>2. wait' \in [Threads -> States]
  BY <1>1, WaitStep
<1> SUFFICES /\ deq' \in Seq(Nat) /\ Len(deq') <= Capacity
             /\ isClose' \in BOOLEAN /\ closing' \in BOOLEAN
             /\ added' \in Seq(Nat) /\ popped' \in Seq(Nat)
             /\ closing' => isClose'
  BY <1>2 DEF Typed, TypeOK, ClosingIsClosed, States
<1> USE CapacityAssumption DEF Typed, TypeOK, ClosingIsClosed
<1>3. ASSUME NEW p \in Producers, PushBack(p, Len(added) + 1)
      PROVE  /\ deq' \in Seq(Nat) /\ Len(deq') <= Capacity /\ added' \in Seq(Nat)
             /\ UNCHANGED <<isClose, closing, popped>>
  BY <1>3 DEF PushBack, Full
<1>4. ASSUME NEW c \in Consumers, Pop(c)
      PROVE  /\ deq' \in Seq(Nat) /\ Len(deq') <= Capacity /\ popped' \in Seq(Nat)
             /\ UNCHANGED <<isClose, closing, added>>
  BY <1>4 DEF Pop, Empty
<1>5. CASE Close
  BY <1>5 DEF Close
<1>6. CASE CloseNotify
  BY <1>6 DEF CloseNotify
<1>7. CASE UNCHANGED <<deq, isClose, closing, added, popped>>
  BY <1>7
<1>8. CASE UNCHANGED dequeVars
  BY <1>7, <1>8 DEF dequeVars
<1> QED
  BY <1>3, <1>4, <1>5, <1>6, <1>7, <1>8, NextCases
  DEF PushWaits, PopWaits, PopClosed, SpuriousWakeup, Flush

(* The head of a sequence may be moved to the end of the one before it.    *)
LEMMA MoveHead ==
  ASSUME NEW s \in Seq(Nat), NEW d \in Seq(Nat), d # <<>>
  PROVE  Append(s, Head(d)) \o Tail(d) = s \o d
<1> DEFINE a == Append(s, Head(d)) \o Tail(d)
           b == s \o d
<1>1. /\ Head(d) \in Nat /\ Tail(d) \in Seq(Nat) /\ Len(Tail(d)) = Len(d) - 1
      /\ \A i \in 1 .. Len(Tail(d)) : Tail(d)[i] = d[i + 1]
      /\ Len(d) \in Nat /\ Len(s) \in Nat /\ d[1] = Head(d)
  BY HeadTailProperties
<1>2. Append(s, Head(d)) \in Seq(Nat) /\ Len(Append(s, Head(d))) = Len(s) + 1
  BY <1>1
<1>3. /\ a \in Seq(Nat) /\ Len(a) = Len(s) + Len(d)
      /\ \A i \in 1 .. Len(s) + Len(d) : a[i] =
           IF i <= Len(s) + 1 THEN Append(s, Head(d))[i] ELSE Tail(d)[i - (Len(s) + 1)]
  BY <1>1, <1>2, ConcatProperties
<1>4. /\ b \in Seq(Nat) /\ Len(b) = Len(s) + Len(d)
      /\ \A i \in 1 .. Len(s) + Len(d) : b[i] = IF i <= Len(s) THEN s[i] ELSE d[i - Len(s)]
  BY ConcatProperties
<1> HIDE DEF a, b
<1>5. ASSUME NEW i \in 1 .. Len(s) + Len(d) PROVE a[i] = b[i]
  <2>a. i \in Nat
    OBVIOUS
  <2>1. CASE i <= Len(s)
    <3>1. Append(s, Head(d))[i] = s[i]
      BY <1>1, <2>1
    <3>2. a[i] = Append(s, Head(d))[i]
      BY <1>1, <1>3, <2>a, <2>1
    <3>3. b[i] = s[i]
      BY <1>1, <1>4, <2>a, <2>1
    <3> QED
      BY <2>1, <3>1, <3>2, <3>3
  <2>2. CASE i = Len(s) + 1
    <3>1. Append(s, Head(d))[i] = Head(d) /\ d[i - Len(s)] = Head(d)
      BY <1>1, <2>2
    <3>a. i <= Len(s) + 1
      BY <1>1, <2>a, <2>2
    <3>2. a[i] = Append(s, Head(d))[i]
      BY <1>3, <3>a, Zenon
    <3>b. ~(i <= Len(s))
      BY <1>1, <2>a, <2>2
    <3>3. b[i] = d[i - Len(s)]
      BY <1>4, <3>b, Zenon
    <3> QED
      BY <2>2, <3>1, <3>2, <3>3
  <2>3. CASE i > Len(s) + 1
    <3>1. Tail(d)[i - (Len(s) + 1)] = d[i - Len(s)]
      BY <1>1, <2>3
    <3>2. a[i] = Tail(d)[i - (Len(s) + 1)]
      BY <1>1, <1>3, <2>a, <2>3
    <3>b. ~(i <= Len(s))
      BY <1>1, <2>a, <2>3
    <3>3. b[i] = d[i - Len(s)]
      BY <1>4, <3>b, Zenon
    <3> QED
      BY <2>3, <3>1, <3>2, <3>3
  <2> QED
    BY <1>1, <2>a, <2>1, <2>2, <2>3
<1>6. a = b
  BY <1>3, <1>4, <1>5, SeqEqual
<1> QED
  BY <1>6 DEF a, b

(* Only push_back and pop change the deque before Close, and both keep the *)
(* order.                                                                  *)
LEMMA OrderStep == Typed /\ PoppedInOrder /\ [Next]_dequeVars => PoppedInOrder'
<1> SUFFICES ASSUME Typed, PoppedInOrder, [Next]_dequeVars, ~isClose'
             PROVE  popped' \o deq' = added'
  BY DEF PoppedInOrder
<1>0. deq \in Seq(Nat) /\ added \in Seq(Nat) /\ popped \in Seq(Nat)
  BY DEF Typed, TypeOK
<1>1. ASSUME NEW p \in Producers, PushBack(p, Len(added) + 1)
      PROVE  popped' \o deq' = added'
  <2>1. popped \o deq = added
    BY <1>1 DEF PushBack, PoppedInOrder
  <2>2. popped \o Append(deq, Len(added) + 1) = Append(popped \o deq, Len(added) + 1)
    BY <1>0, SMTT(30)
  <2> QED
    BY <1>1, <2>1, <2>2 DEF PushBack
<1>2. ASSUME NEW c \in Consumers, Pop(c)
      PROVE  popped' \o deq' = added'
  <2>1. popped \o deq = added /\ deq # <<>>
    BY <1>2 DEF Pop, PoppedInOrder, Empty
  <2>2. Append(popped, Head(deq)) \o Tail(deq) = popped \o deq
    BY <1>0, <2>1, MoveHead
  <2> QED
    BY <1>2, <2>1, <2>2 DEF Pop
<1>3. CASE UNCHANGED <<deq, isClose, added, popped>>
  BY <1>3 DEF PoppedInOrder
<1>4. CASE Close
  BY <1>4 DEF Close
<1> QED
  BY <1>1, <1>2, <1>3, <1>4, NextCases
  DEF PushWaits, PopWaits, PopClosed, SpuriousWakeup, Flush, CloseNotify, dequeVars

(* Every step preserves that no wakeup is lost.                            *)
LEMMA WakeupStep == Typed /\ NoLostWakeup /\ [Next]_dequeVars => NoLostWakeup'
<1> SUFFICES ASSUME Typed, NoLostWakeup, [Next]_dequeVars, ~isClose'
             PROVE  ConsumersServed' /\ ProducersServed'
  BY DEF NoLostWakeup, ConsumersServed, ProducersServed, Served
<1> USE CapacityAssumption
<1>0. /\ wait \in [Threads -> States] /\ deq \in Seq(Nat)
      /\ Len(deq) \in Int /\ Capacity - Len(deq) \in Int
      /\ closing => isClose
  BY DEF Typed, TypeOK, ClosingIsClosed, States
<1>a. ~isClose => ConsumersServed /\ ProducersServed
  BY DEF NoLostWakeup, ConsumersServed, ProducersServed, Served
<1>b. {"none", "waitConsumer", "wokenConsumer", "waitProducer", "wokenProducer"}
        \subseteq States
  BY DEF States
<1>1. ASSUME NEW p \in Producers, PushBack(p, Len(added) + 1)
      PROVE  ConsumersServed' /\ ProducersServed'
  <2>1. /\ ConsumersServed /\ ProducersServed
        /\ p \in Threads /\ wait[p] \in {"none", "wokenProducer"}
        /\ wait' \in NotifyOne("waitConsumer", [wait EXCEPT ![p] = "none"])
    BY <1>1, <1>a DEF PushBack, Threads
  <2>2. /\ Served("waitConsumer", "wokenConsumer", Len(deq) + 1, wait')
        /\ Served("waitProducer", "wokenProducer", Capacity - Len(deq) - 1, wait')
    BY <1>0, <2>1, ProducerGoesOn DEF ConsumersServed, ProducersServed
  <2>3. Len(deq') = Len(deq) + 1
    BY <1>0, <1>1 DEF PushBack
  <2> QED
    BY <1>0, <2>2, <2>3 DEF ConsumersServed, ProducersServed
<1>2. ASSUME NEW c \in Consumers, Pop(c)
      PROVE  ConsumersServed' /\ ProducersServed'
  <2>1. /\ ConsumersServed /\ ProducersServed
        /\ c \in Threads /\ wait[c] \in {"none", "wokenConsumer"}
        /\ wait' \in NotifyOne("waitProducer", [wait EXCEPT ![c] = "none"])
    BY <1>2, <1>a DEF Pop, MayPop, Threads
  <2>2. /\ Served("waitProducer", "wokenProducer", Capacity - Len(deq) + 1, wait')
        /\ Served("waitConsumer", "wokenConsumer", Len(deq) - 1, wait')
    BY <1>0, <2>1, ConsumerGoesOn DEF ConsumersServed, ProducersServed
  <2>3. Len(deq') = Len(deq) - 1
    BY <1>0, <1>2 DEF Pop, Empty
  <2> QED
    BY <1>0, <2>2, <2>3 DEF ConsumersServed, ProducersServed
<1>3. ASSUME NEW p \in Producers, PushWaits(p)
      PROVE  ConsumersServed' /\ ProducersServed'
  <2>1. /\ Asleep("waitConsumer", wait') = Asleep("waitConsumer", wait)
        /\ Asleep("wokenConsumer", wait') = Asleep("wokenConsumer", wait)
    BY <1>0, <1>3 DEF PushWaits, Asleep, Threads
  <2>2. Cardinality(Asleep("wokenProducer", wait')) \in Nat
    BY AsleepFinite
  <2>3. Capacity - Len(deq') <= 0
    BY <1>0, <1>3 DEF PushWaits, Full
  <2>4. ProducersServed'
    BY <1>0, <2>2, <2>3, <1>3 DEF ProducersServed, Served, PushWaits
  <2> QED
    BY <1>a, <1>3, <2>1, <2>4 DEF ConsumersServed, Served, PushWaits
<1>4. ASSUME NEW c \in Consumers, PopWaits(c)
      PROVE  ConsumersServed' /\ ProducersServed'
  <2>1. /\ Asleep("waitProducer", wait') = Asleep("waitProducer", wait)
        /\ Asleep("wokenProducer", wait') = Asleep("wokenProducer", wait)
    BY <1>0, <1>4 DEF PopWaits, MayPop, Asleep, Threads
  <2>2. Cardinality(Asleep("wokenConsumer", wait')) \in Nat
    BY AsleepFinite
  <2>3. Len(deq') = 0
    BY <1>0, <1>4 DEF PopWaits, Empty
  <2>4. ConsumersServed'
    BY <2>2, <2>3 DEF ConsumersServed, Served
  <2> QED
    BY <1>a, <1>4, <2>1, <2>4 DEF ProducersServed, Served, PopWaits
<1>5. ASSUME NEW t \in Threads, SpuriousWakeup(t)
      PROVE  ConsumersServed' /\ ProducersServed'
  <2>1. /\ ConsumersServed /\ ProducersServed /\ UNCHANGED deq
        /\ wait[t] \in {"waitConsumer", "waitProducer"}
        /\ wait' = [wait EXCEPT ![t] = Awake[wait[t]]]
    BY <1>5, <1>a, AwakeOf DEF SpuriousWakeup
  <2>2. CASE wait[t] = "waitConsumer"
    <3>1. /\ Asleep("waitConsumer", wait) # {}
          /\ Asleep("wokenConsumer", wait') = Asleep("wokenConsumer", wait) \cup {t}
          /\ t \notin Asleep("wokenConsumer", wait)
          /\ Asleep("waitProducer", wait') = Asleep("waitProducer", wait)
          /\ Asleep("wokenProducer", wait') = Asleep("wokenProducer", wait)
      BY <1>0, <2>1, <2>2, AwakeOf DEF Asleep
    <3>2. Cardinality(Asleep("wokenConsumer", wait')) =
            Cardinality(Asleep("wokenConsumer", wait)) + 1
      BY <3>1, OneMore
    <3>3. Cardinality(Asleep("wokenConsumer", wait)) \in Nat
      BY AsleepFinite
    <3>4. Len(deq) <= Cardinality(Asleep("wokenConsumer", wait))
      BY <2>1, <3>1 DEF ConsumersServed, Served
    <3>5. ConsumersServed'
      BY <1>0, <2>1, <3>2, <3>3, <3>4 DEF ConsumersServed, Served
    <3>6. ProducersServed'
      BY <2>1, <3>1 DEF ProducersServed, Served
    <3> QED
      BY <3>5, <3>6
  <2>3. CASE wait[t] = "waitProducer"
    <3>1. /\ Asleep("waitProducer", wait) # {}
          /\ Asleep("wokenProducer", wait') = Asleep("wokenProducer", wait) \cup {t}
          /\ t \notin Asleep("wokenProducer", wait)
          /\ Asleep("waitConsumer", wait') = Asleep("waitConsumer", wait)
          /\ Asleep("wokenConsumer", wait') = Asleep("wokenConsumer", wait)
      BY <1>0, <2>1, <2>3, AwakeOf DEF Asleep
    <3>2. Cardinality(Asleep("wokenProducer", wait')) =
            Cardinality(Asleep("wokenProducer", wait)) + 1
      BY <3>1, OneMore
    <3>3. Cardinality(Asleep("wokenProducer", wait)) \in Nat
      BY AsleepFinite
    <3>4. Capacity - Len(deq) <= Cardinality(Asleep("wokenProducer", wait))
      BY <2>1, <3>1 DEF ProducersServed, Served
    <3>5. ProducersServed'
      BY <1>0, <2>1, <3>2, <3>3, <3>4 DEF ProducersServed, Served
    <3>6. ConsumersServed'
      BY <2>1, <3>1 DEF ConsumersServed, Served
    <3> QED
      BY <3>5, <3>6
  <2> QED
    BY <2>1, <2>2, <2>3
<1>6. CASE Flush
  <2>1. /\ ConsumersServed /\ ProducersServed /\ UNCHANGED deq
        /\ wait' \in NotifyOne("waitConsumer", wait)
    BY <1>6, <1>a DEF Flush
  <2>2. /\ Asleep("waitProducer", wait') = Asleep("waitProducer", wait)
        /\ Asleep("wokenProducer", wait') = Asleep("wokenProducer", wait)
        /\ Asleep("waitConsumer", wait') # {} =>
             /\ Asleep("waitConsumer", wait) # {}
             /\ Cardinality(Asleep("wokenConsumer", wait')) =
                  Cardinality(Asleep("wokenConsumer", wait)) + 1
    BY <1>0, <1>b, <2>1, AwakeOf, Notified
  <2>3. Cardinality(Asleep("wokenConsumer", wait)) \in Nat
    BY AsleepFinite
  <2> QED
    BY <1>0, <2>1, <2>2, <2>3 DEF ConsumersServed, ProducersServed, Served
<1>7. ASSUME NEW c \in Consumers, PopClosed(c) PROVE FALSE
  BY <1>7 DEF PopClosed
<1>8. CASE Close \/ CloseNotify
  BY <1>0, <1>8 DEF Close, CloseNotify
<1>9. CASE UNCHANGED dequeVars
  BY <1>a, <1>9 DEF dequeVars, ConsumersServed, ProducersServed
<1> QED
  BY <1>1, <1>2, <1>3, <1>4, <1>5, <1>6, <1>7, <1>8, <1>9, NextCases

(* The invariant holds always.                                             *)
LEMMA Inductive == Spec => []IInv
<1>1. IInv /\ [Next]_dequeVars => IInv'
  BY TypedStep, OrderStep, WakeupStep DEF IInv
<1> QED
  BY <1>1, InitIInv, PTL DEF Spec

(* The types of the deque are preserved, and it never holds more than it   *)
(* has room for.                                                           *)
THEOREM TypeCorrect == Spec => []TypeOK
BY Inductive, PTL DEF IInv, Typed

(* Until Close, the items that were popped and those in the deque are the  *)
(* items pushed, in order, whoever pushes and pops.                        *)
THEOREM ItemsInOrder == Spec => []PoppedInOrder
BY Inductive, PTL DEF IInv

(* Until Close, while a consumer sleeps every item has a consumer that was *)
(* woken for it, and while a producer sleeps every place a producer,       *)
(* although a notification wakes one thread and wakeups may be spurious.   *)
THEOREM WakeupsNotLost == Spec => []NoLostWakeup
BY Inductive, PTL DEF IInv
=============================================================================
