----------------------------- MODULE HeapTimer -----------------------------
(***************************************************************************)
(* The timers of timer/timer.cc: a binary heap of nodes ordered by expiry  *)
(* and an index ref from identifiers to places in the heap.                *)
(*                                                                         *)
(* Only the main thread uses the timers, so no other thread interferes; a  *)
(* step is one iteration of a loop of the code, and the clock may move     *)
(* between two steps.  Places are counted from 1: the parent of i is i \div*)
(* 2, the first place is the root.                                         *)
(***************************************************************************)
EXTENDS Integers, Sequences

CONSTANTS
  Ids,         \* file descriptors that may have a timer
  NoId,        \* node when no callback runs
  Timeout,     \* the life of a timer (timeoutMS_), in units of the clock
  PerMs,       \* units of the clock in a millisecond
  MaxTime,     \* bound on the clock
  MaxBacks     \* bound on how often the clock is set back

ASSUME IdsAssumption == NoId \notin Ids
ASSUME TimeAssumption == /\ Timeout \in Nat
                         /\ PerMs \in Nat \ {0}
                         /\ MaxTime \in Nat
                         /\ MaxBacks \in Nat

VARIABLES
  heap,    \* HeapTimer::heap_, nodes [id, expires]
  ref,     \* HeapTimer::ref_
  now,     \* what Clock::now() reads
  backs,   \* history: how often the clock was set back
  pc,      \* where the thread is in the code below
  op,      \* the operation it executes: add, adjust, tick or doWork
  i,       \* the place a node moves from in siftup_ and siftdown_
  start,   \* index, the place siftdown_ was called for
  node,    \* the identifier whose callback runs and whose node is deleted
  timeMS   \* what GetNextTick returned last

places == <<pc, op, i, start>>
clock == <<now, backs>>
vars == <<heap, ref, clock, places, node, timeMS>>

Init == /\ heap = <<>>
        /\ ref = [k \in {} |-> 0]
        /\ now = 0
        /\ backs = 0
        /\ pc = "idle"
        /\ op = "none"
        /\ i = 0
        /\ start = 0
        /\ node = NoId
        /\ timeMS = -1
-----------------------------------------------------------------------------
(* duration_cast<milliseconds>(d).count(): it truncates towards zero.      *)
Ms(d) == IF d >= 0 THEN d \div PerMs ELSE -((-d) \div PerMs)

(* Mutant of Expired: the loop of tick breaks at 0 milliseconds.           *)
ExpiredLate(t) == Ms(t.expires - now) < 0

Expired(t) == Ms(t.expires - now) <= 0

Before(a, b) == heap[a].expires < heap[b].expires

Goto(where) == /\ pc' = where
               /\ UNCHANGED <<op, i, start>>

Call(where, what, at) == /\ pc' = where
                         /\ op' = what
                         /\ i' = at
                         /\ start' = at

(* An operation ends; the local variables are gone.                        *)
Finish == Call("idle", "none", 0)

(* Mutant of SwapNode_: only one of the two nodes is indexed again.        *)
SwapNodeOne(a, b) == /\ heap' = [heap EXCEPT ![a] = heap[b], ![b] = heap[a]]
                     /\ ref' = [ref EXCEPT ![heap[b].id] = a]

SwapNode_(a, b) == /\ heap' = [heap EXCEPT ![a] = heap[b], ![b] = heap[a]]
                   /\ ref' = [ref EXCEPT ![heap[b].id] = a, ![heap[a].id] = b]

(* n in siftdown_: del_ keeps the last place for the node it deletes.      *)
Limit == IF op \in {"tick", "doWork"} THEN Len(heap) - 1 ELSE Len(heap)

(* Mutant of SmallerChild: the right child is never looked at.             *)
SmallerChildLeft(a) == 2 * a

SmallerChild(a) == IF 2 * a + 1 <= Limit /\ Before(2 * a + 1, 2 * a)
                     THEN 2 * a + 1
                     ELSE 2 * a

(* The caller of siftup_ or siftdown_ goes on.                             *)
Sifted == IF op \in {"tick", "doWork"} THEN Goto("erase") ELSE Finish
-----------------------------------------------------------------------------
(* siftup_.  A node that is not after its parent goes up, and the test     *)
(* j >= 0 of an unsigned j never ends the loop: at the root the code reads *)
(* heap_[-1], memory in front of the array.  What it finds there is either *)
(* before the node, and the loop breaks, or not, and the assertion of      *)
(* SwapNode_ ends the process.                                             *)
SiftUp == /\ pc = "siftup"
          /\ i > 1
          /\ ~Before(i \div 2, i)
          /\ SwapNode_(i, i \div 2)
          /\ i' = i \div 2
          /\ UNCHANGED <<clock, pc, op, start, node, timeMS>>

SiftUpBreak == /\ pc = "siftup"
               /\ i > 1 => Before(i \div 2, i)
               /\ Sifted
               /\ UNCHANGED <<heap, ref, clock, node, timeMS>>

SiftUpAbort == /\ pc = "siftup"
               /\ i = 1
               /\ Goto("aborted")
               /\ UNCHANGED <<heap, ref, clock, node, timeMS>>

(* siftdown_, and what its caller does with the result: adjust ignores it, *)
(* add and del_ call siftup_ when the node has not moved.                  *)
SiftDown == /\ pc = "siftdown"
            /\ 2 * i <= Limit
            /\ ~Before(i, SmallerChild(i))
            /\ SwapNode_(i, SmallerChild(i))
            /\ i' = SmallerChild(i)
            /\ UNCHANGED <<clock, pc, op, start, node, timeMS>>

SiftDownBreak == /\ pc = "siftdown"
                 /\ 2 * i <= Limit => Before(i, SmallerChild(i))
                 /\ IF op # "adjust" /\ i = start THEN Goto("siftup") ELSE Sifted
                 /\ UNCHANGED <<heap, ref, clock, node, timeMS>>
-----------------------------------------------------------------------------
(* Mutant of Insert: i = heap_.size() is read after the push_back.         *)
InsertAfterPush(id) ==
  /\ pc = "idle"
  /\ id \notin DOMAIN ref
  /\ heap' = Append(heap, [id |-> id, expires |-> now + Timeout])
  /\ ref' = [k \in DOMAIN ref \cup {id} |->
               IF k = id THEN Len(heap) + 2 ELSE ref[k]]
  /\ Call("siftup", "add", Len(heap) + 2)
  /\ UNCHANGED <<clock, node, timeMS>>

(* add, of an identifier that has no timer.                                *)
Insert(id) == /\ pc = "idle"
              /\ id \notin DOMAIN ref
              /\ heap' = Append(heap, [id |-> id, expires |-> now + Timeout])
              /\ ref' = [k \in DOMAIN ref \cup {id} |->
                           IF k = id THEN Len(heap) + 1 ELSE ref[k]]
              /\ Call("siftup", "add", Len(heap) + 1)
              /\ UNCHANGED <<clock, node, timeMS>>

(* Mutant of Reset: the new expiry is counted from the old one.            *)
ResetFromOld(id, what) ==
  /\ pc = "idle"
  /\ id \in DOMAIN ref
  /\ heap' = [heap EXCEPT ![ref[id]].expires = @ + Timeout]
  /\ Call("siftdown", what, ref[id])
  /\ UNCHANGED <<ref, clock, node, timeMS>>

(* The common part of adjust, and of add when the identifier has a timer.  *)
Reset(id, what) == /\ pc = "idle"
                   /\ id \in DOMAIN ref
                   /\ heap' = [heap EXCEPT ![ref[id]].expires = now + Timeout]
                   /\ Call("siftdown", what, ref[id])
                   /\ UNCHANGED <<ref, clock, node, timeMS>>

(* A descriptor that was closed by a worker still has a timer when the     *)
(* next connection is given the same number.                               *)
Renew(id) == Reset(id, "add")

(* adjust asserts that the identifier has a timer: theorem TimersAreSet of *)
(* HttpServerProofs shows that the server calls it for no other.           *)
Adjust(id) == Reset(id, "adjust")

(* GetNextTick, which first calls tick.                                    *)
GetNextTick == /\ pc = "idle"
               /\ Call("tick", "tick", 0)
               /\ UNCHANGED <<heap, ref, clock, node, timeMS>>

(* An iteration of tick: the first node has expired, its callback is       *)
(* called.  The callback (HttpServer::CloseConn) leaves the timers alone.  *)
TickFire == /\ pc = "tick"
            /\ heap # <<>>
            /\ Expired(heap[1])
            /\ node' = heap[1].id
            /\ Call("callback", "tick", 1)
            /\ UNCHANGED <<heap, ref, clock, timeMS>>

TickBreak == /\ pc = "tick"
             /\ heap # <<>> => ~Expired(heap[1])
             /\ Goto("next")
             /\ UNCHANGED <<heap, ref, clock, node, timeMS>>

(* The rest of GetNextTick.  It keeps the result in a size_t, for which    *)
(* the test res < 0 is false, and returns it as an int: a negative number  *)
(* of milliseconds stays negative.                                         *)
TickReturn == /\ pc = "next"
              /\ timeMS' = IF heap = <<>> THEN -1 ELSE Ms(heap[1].expires - now)
              /\ Finish
              /\ UNCHANGED <<heap, ref, clock, node>>

DoWork(id) == /\ pc = "idle"
              /\ id \in DOMAIN ref
              /\ node' = id
              /\ Call("callback", "doWork", ref[id])
              /\ UNCHANGED <<heap, ref, clock, timeMS>>

(* del_(i), after the callback: the node is swapped with the last one.     *)
Del == /\ pc = "callback"
       /\ IF i < Len(heap)
            THEN SwapNode_(i, Len(heap)) /\ Call("siftdown", op, i)
            ELSE Goto("erase") /\ UNCHANGED <<heap, ref>>
       /\ UNCHANGED <<clock, node, timeMS>>

Erase == /\ pc = "erase"
         /\ ref' = [k \in DOMAIN ref \ {heap[Len(heap)].id} |-> ref[k]]
         /\ heap' = SubSeq(heap, 1, Len(heap) - 1)
         /\ node' = NoId
         /\ IF op = "tick" THEN Call("tick", "tick", 0) ELSE Finish
         /\ UNCHANGED <<clock, timeMS>>

Clear == /\ pc = "idle"
         /\ heap' = <<>>
         /\ ref' = [k \in {} |-> 0]
         /\ UNCHANGED <<clock, places, node, timeMS>>
-----------------------------------------------------------------------------
(* Clock is high_resolution_clock, which is the system clock of the C++    *)
(* library the server is built with: it can be set back.                   *)
Pass == /\ pc # "aborted"
        /\ now < MaxTime
        /\ now' = now + 1
        /\ UNCHANGED <<backs, heap, ref, places, node, timeMS>>

SetBack == /\ pc # "aborted"
           /\ backs < MaxBacks
           /\ backs' = backs + 1
           /\ now' \in 0 .. now - 1
           /\ UNCHANGED <<heap, ref, places, node, timeMS>>

Next == \/ \E id \in Ids : Insert(id) \/ Renew(id) \/ Adjust(id) \/ DoWork(id)
        \/ SiftUp \/ SiftUpBreak \/ SiftUpAbort
        \/ SiftDown \/ SiftDownBreak
        \/ GetNextTick \/ TickFire \/ TickBreak \/ TickReturn
        \/ Del \/ Erase
        \/ Clear
        \/ Pass \/ SetBack

Spec == Init /\ [][Next]_vars
-----------------------------------------------------------------------------
Node == [id : Ids, expires : Nat]
Sifting == {"siftup", "siftdown"}

(* Types, and every place the code is about to use is in the heap: the     *)
(* assertions on indices, except the one SiftUpAbort breaks.               *)
TypeOK == /\ heap \in Seq(Node)
          /\ DOMAIN ref \subseteq Ids
          /\ ref \in [DOMAIN ref -> 1 .. Len(heap)]
          /\ now \in Nat /\ backs \in Nat
          /\ pc \in {"idle", "siftup", "siftdown", "tick", "callback", "next",
                     "erase", "aborted"}
          /\ op \in {"none", "add", "adjust", "tick", "doWork"}
          /\ i \in Nat
          /\ start \in Nat
          /\ pc \in Sifting \cup {"callback"} => i \in 1 .. Len(heap)
          /\ pc = "erase" => heap # <<>>
          /\ node \in Ids \cup {NoId}
          /\ timeMS \in Int

(* heap_ and ref_ agree after every swap of every operation: the heap has  *)
(* one node for each indexed identifier, at the place the index says.      *)
(* Whatever the clock does, an operation on an identifier finds its node.  *)
RefAgrees == /\ \A p \in 1 .. Len(heap) :
                  heap[p].id \in DOMAIN ref /\ ref[heap[p].id] = p
             /\ \A k \in DOMAIN ref :
                  ref[k] \in 1 .. Len(heap) /\ heap[ref[k]].id = k

(* Between two operations, and at each iteration of tick, no node expires  *)
(* before its parent: swapping on equal expiries, calling siftup_ only     *)
(* when siftdown_ has not moved the node, and not calling it in adjust are *)
(* enough as long as the clock does not go back.                           *)
HeapOrder == backs = 0 /\ pc \in {"idle", "tick", "next", "callback"} =>
               \A p \in 2 .. Len(heap) :
                 heap[p \div 2].expires <= heap[p].expires

(* tick returns only when no timer at all has expired, not just the first: *)
(* the server closes every connection that timed out.  It does not after   *)
(* the clock was set back.                                                 *)
TickFiresAll == [][backs = 0 /\ pc = "tick" /\ pc' = "next" =>
                     \A p \in 1 .. Len(heap) :
                       Ms(heap[p].expires - now) > 0]_vars

(* What GetNextTick returns lets epoll_wait wake for the next timer: it    *)
(* blocks for ever only if there is no timer.                              *)
WakesForTimers == [][TickReturn /\ timeMS' < 0 => heap = <<>>]_vars

(* The assertion of SwapNode_ (timer.cc:16) never fails.                   *)
NeverAborts == pc # "aborted"
-----------------------------------------------------------------------------
(* The node whose callback runs no longer counts as a timer.               *)
Pending == DOMAIN ref \ {node}

TQ == INSTANCE TimerQueue WITH
        due <- [k \in Pending |-> heap[ref[k]].expires],
        firing <- IF node = NoId THEN {}
                  ELSE {[id |-> node, why |-> IF op = "tick" THEN "expired"
                                                             ELSE "cancelled"]}

(* The heap implements the queue of timers: they fire in the order of      *)
(* their expiries, each once, none a millisecond or more early, until the  *)
(* clock is set back.                                                      *)
ImplementsTimerQueue ==
  TQ!Init /\ [][backs' = 0 => [TQ!Next]_(TQ!timerVars)]_vars
=============================================================================
