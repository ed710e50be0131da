-------------------------- MODULE HeapTimerProofs --------------------------
(***************************************************************************)
(* Proofs about HeapTimer, for every set of identifiers, every timeout and *)
(* a clock that may be set back at any moment.                             *)
(*                                                                         *)
(* IInv, the types with RefAgrees, is inductive whatever the clock does: a *)
(* swap updates the index of both nodes it moves, and the node that is     *)
(* deleted is the last one when its index entry is erased.  PlaceInv says  *)
(* where the node that del_ deletes is, and OrderInv, as long as the clock *)
(* was not set back, which keys are in order while one node is sifted: all *)
(* but those of that node, above it or below it.  TimerQueue is refined by *)
(* reading the heap as the set of its timers.                              *)
(***************************************************************************)
EXTENDS HeapTimer, SequenceTheorems, WellFoundedInduction, TLAPS

IInv == TypeOK /\ RefAgrees

(* Appending a node: its length and its elements.                          *)
LEMMA AppendNode ==
  ASSUME NEW S, NEW s \in Seq(S), NEW x \in S
  PROVE  /\ Append(s, x) \in Seq(S)
         /\ Len(Append(s, x)) = Len(s) + 1
         /\ \A p \in 1 .. Len(s) : Append(s, x)[p] = s[p]
         /\ Append(s, x)[Len(s) + 1] = x
  OBVIOUS

(* Removing the last element: pop_back.                                    *)
LEMMA PopBack ==
  ASSUME NEW S, NEW s \in Seq(S), s # <<>>
  PROVE  /\ Len(s) \in Nat \ {0}
         /\ SubSeq(s, 1, Len(s) - 1) \in Seq(S)
         /\ Len(SubSeq(s, 1, Len(s) - 1)) = Len(s) - 1
         /\ \A p \in 1 .. Len(s) - 1 : SubSeq(s, 1, Len(s) - 1)[p] = s[p]
<1>1. Len(s) \in Nat \ {0}
  BY EmptySeq
<1>2. /\ 1 \in Int /\ Len(s) - 1 \in Int
      /\ \A p \in 1 .. Len(s) - 1 : s[p] \in S
  BY <1>1, ElementOfSeq
<1>3. /\ SubSeq(s, 1, Len(s) - 1) \in Seq(S)
      /\ Len(SubSeq(s, 1, Len(s) - 1)) =
           IF 1 <= Len(s) - 1 THEN Len(s) - 1 - 1 + 1 ELSE 0
      /\ \A p \in 1 .. Len(s) - 1 - 1 + 1 :
           SubSeq(s, 1, Len(s) - 1)[p] = s[1 + p - 1]
  BY <1>2, SubSeqProperties
<1>4. Len(SubSeq(s, 1, Len(s) - 1)) = Len(s) - 1
  <2>1. CASE Len(s) = 1
    <3>1. Len(s) - 1 = 0 /\ ~(1 <= Len(s) - 1)
      BY <2>1
    <3> QED
      BY <1>3, <3>1, Zenon
  <2>2. CASE Len(s) # 1
    <3>0. \A n \in Nat \ {0, 1} : 1 <= n - 1 /\ n - 1 - 1 + 1 = n - 1
      OBVIOUS
    <3>1. 1 <= Len(s) - 1 /\ Len(s) - 1 - 1 + 1 = Len(s) - 1
      BY <1>1, <2>2, <3>0, Zenon
    <3> QED
      BY <1>3, <3>1, Zenon
  <2> QED
    BY <2>1, <2>2
<1>5. ASSUME NEW p \in 1 .. Len(s) - 1
      PROVE  SubSeq(s, 1, Len(s) - 1)[p] = s[p]
  <2>1. p \in 1 .. Len(s) - 1 - 1 + 1 /\ 1 + p - 1 = p
    BY <1>1
  <2> QED
    BY <1>3, <2>1, Zenon
<1> QED
  BY <1>1, <1>3, <1>4, <1>5, Zenon

(* Every place of the heap holds an identifier and an expiry.              *)
LEMMA Nodes ==
  ASSUME heap \in Seq(Node)
  PROVE  /\ Len(heap) \in Nat
         /\ \A p \in 1 .. Len(heap) : /\ heap[p] \in Node
                                      /\ heap[p].id \in Ids
                                      /\ heap[p].expires \in Nat
<1>1. \A p \in 1 .. Len(heap) : heap[p] \in Node
  BY ElementOfSeq
<1> QED
  BY <1>1 DEF Node

(* SwapNode_ keeps the length of the heap, the identifiers that have a     *)
(* timer, and the agreement of the heap with its index.                    *)
LEMMA SwapKeeps ==
  ASSUME heap \in Seq(Node), RefAgrees,
         NEW a \in 1 .. Len(heap), NEW b \in 1 .. Len(heap),
         SwapNode_(a, b)
  PROVE  /\ heap' \in Seq(Node)
         /\ Len(heap') = Len(heap)
         /\ DOMAIN ref' = DOMAIN ref
         /\ RefAgrees'
<1>1. heap' \in Seq(Node) /\ Len(heap') = Len(heap)
  BY DEF SwapNode_
<1>2. \A p \in 1 .. Len(heap) :
        heap'[p] = IF p = b THEN heap[a] ELSE IF p = a THEN heap[b] ELSE heap[p]
  BY DEF SwapNode_
<1>3. DOMAIN ref' = DOMAIN ref
  BY DEF SwapNode_
<1>4. \A k \in DOMAIN ref :
        ref'[k] = IF k = heap[a].id THEN b
                  ELSE IF k = heap[b].id THEN a ELSE ref[k]
  BY DEF SwapNode_
<1>5. RefAgrees'
  <2> DEFINE x == heap[a].id  y == heap[b].id
  <2>0. /\ x \in DOMAIN ref /\ ref[x] = a
        /\ y \in DOMAIN ref /\ ref[y] = b
    BY DEF RefAgrees
  <2>1. ASSUME NEW p \in 1 .. Len(heap)
        PROVE  heap'[p].id \in DOMAIN ref /\ ref'[heap'[p].id] = p
    <3>1. CASE p = b
      BY <1>2, <1>4, <2>0, <3>1
    <3>2. CASE p = a /\ p # b
      BY <1>2, <1>4, <2>0, <3>2
    <3>3. CASE p # a /\ p # b
      <4>1. heap[p].id \in DOMAIN ref /\ ref[heap[p].id] = p
        BY DEF RefAgrees
      <4>2. heap[p].id # x /\ heap[p].id # y
        BY <2>0, <3>3, <4>1
      <4> QED
        BY <1>2, <1>4, <3>3, <4>1, <4>2
    <3> QED
      BY <3>1, <3>2, <3>3
  <2>2. ASSUME NEW k \in DOMAIN ref
        PROVE  ref'[k] \in 1 .. Len(heap) /\ heap'[ref'[k]].id = k
    <3>1. CASE k = x
      BY <1>2, <1>4, <3>1
    <3>2. CASE k = y /\ k # x
      BY <1>2, <1>4, <2>0, <3>2
    <3>3. CASE k # x /\ k # y
      <4>1. ref[k] \in 1 .. Len(heap) /\ heap[ref[k]].id = k
        BY DEF RefAgrees
      <4>2. ref[k] # a /\ ref[k] # b
        BY <3>3, <4>1
      <4> QED
        BY <1>2, <1>4, <3>3, <4>1, <4>2
    <3> QED
      BY <3>1, <3>2, <3>3
  <2> QED
    BY <1>1, <1>3, <2>1, <2>2 DEF RefAgrees
<1> QED
  BY <1>1, <1>3, <1>5

(* The invariant holds initially.                                          *)
LEMMA InitIInv == Init => IInv
BY DEF Init, IInv, TypeOK, RefAgrees, Node, Sifting

(* Every step keeps it.                                                    *)
LEMMA NextIInv == IInv /\ [Next]_vars => IInv'
<1> SUFFICES ASSUME IInv, [Next]_vars PROVE IInv'
  OBVIOUS
<1> USE IdsAssumption, TimeAssumption DEF clock
<1>1. ASSUME NEW id \in Ids, Insert(id) PROVE IInv'
  <2> DEFINE new == [id |-> id, expires |-> now + Timeout]
  <2>1. new \in Node
    BY <1>1 DEF IInv, TypeOK, Node
  <2>2. heap' = Append(heap, new) /\ heap \in Seq(Node)
    BY <1>1 DEF Insert, IInv, TypeOK
  <2>3. /\ heap' \in Seq(Node)
        /\ Len(heap') = Len(heap) + 1
        /\ \A p \in 1 .. Len(heap) : heap'[p] = heap[p]
        /\ heap'[Len(heap) + 1].id = id
    BY <2>1, <2>2, AppendNode
  <2>4. /\ DOMAIN ref' = DOMAIN ref \cup {id}
        /\ id \notin DOMAIN ref
        /\ ref'[id] = Len(heap) + 1
        /\ \A k \in DOMAIN ref : ref'[k] = ref[k]
    BY <1>1 DEF Insert
  <2>5. Len(heap) \in Nat
    BY <2>2
  <2>6. RefAgrees'
    <3>1. ASSUME NEW p \in 1 .. Len(heap')
          PROVE  heap'[p].id \in DOMAIN ref' /\ ref'[heap'[p].id] = p
      <4>1. CASE p = Len(heap) + 1
        BY <2>3, <2>4, <4>1
      <4>2. CASE p \in 1 .. Len(heap)
        BY <2>3, <2>4, <4>2, SMTT(30) DEF IInv, RefAgrees
      <4> QED
        BY <2>3, <2>5, <4>1, <4>2
    <3>2. ASSUME NEW k \in DOMAIN ref'
          PROVE  ref'[k] \in 1 .. Len(heap') /\ heap'[ref'[k]].id = k
      <4>1. CASE k = id
        BY <2>3, <2>4, <2>5, <4>1
      <4>2. CASE k \in DOMAIN ref
        <5>1. ref[k] \in 1 .. Len(heap) /\ heap[ref[k]].id = k
          BY <4>2 DEF IInv, RefAgrees
        <5> QED
          BY <2>3, <2>4, <2>5, <4>2, <5>1
      <4> QED
        BY <2>4, <4>1, <4>2
    <3> QED
      BY <3>1, <3>2 DEF RefAgrees
  <2>7. ref' \in [DOMAIN ref' -> 1 .. Len(heap')]
    BY <1>1, <2>6 DEF Insert, RefAgrees
  <2>8. TypeOK'
    BY <1>1, <2>3, <2>4, <2>5, <2>7 DEF Insert, Call, IInv, TypeOK, Sifting
  <2> QED
    BY <2>6, <2>8 DEF IInv
<1>2. ASSUME NEW id \in Ids, NEW what \in {"add", "adjust"}, Reset(id, what)
      PROVE  IInv'
  <2> DEFINE new == [heap[ref[id]] EXCEPT !.expires = now + Timeout]
  <2>a. ref[id] \in 1 .. Len(heap) /\ heap \in Seq(Node)
    BY <1>2 DEF Reset, IInv, TypeOK
  <2>b. heap[ref[id]] \in Node /\ now + Timeout \in Nat
    BY <2>a, Nodes, SMTT(30) DEF IInv, TypeOK
  <2>c. new \in Node /\ new.id = heap[ref[id]].id
    BY <2>b DEF Node
  <2>d. heap' = [heap EXCEPT ![ref[id]] = new]
    BY <1>2 DEF Reset
  <2>1. /\ heap' \in Seq(Node)
        /\ Len(heap') = Len(heap)
        /\ \A p \in 1 .. Len(heap) : heap'[p].id = heap[p].id
    BY <2>a, <2>c, <2>d, ExceptSeq
  <2>2. RefAgrees'
    BY <1>2, <2>1 DEF Reset, IInv, RefAgrees
  <2>3. TypeOK'
    BY <1>2, <2>1 DEF Reset, Call, IInv, TypeOK, Sifting
  <2> QED
    BY <2>2, <2>3 DEF IInv
<1>3. ASSUME NEW id \in Ids, DoWork(id) PROVE IInv'
  BY <1>3 DEF DoWork, Call, IInv, TypeOK, RefAgrees, Sifting
<1>4. ASSUME NEW a \in 1 .. Len(heap), NEW b \in 1 .. Len(heap),
             SwapNode_(a, b),
             pc' \in Sifting, op' = op, i' \in 1 .. Len(heap), start' \in Nat,
             UNCHANGED <<clock, node, timeMS>>
      PROVE  IInv'
  <2>1. /\ heap' \in Seq(Node)
        /\ Len(heap') = Len(heap)
        /\ DOMAIN ref' = DOMAIN ref
        /\ RefAgrees'
    BY <1>4, SwapKeeps DEF IInv, TypeOK
  <2>2. ref' \in [DOMAIN ref' -> 1 .. Len(heap')]
    BY <1>4, <2>1 DEF SwapNode_, RefAgrees
  <2>3. TypeOK'
    BY <1>4, <2>1, <2>2, SMTT(30) DEF IInv, TypeOK, Sifting
  <2> QED
    BY <2>1, <2>3 DEF IInv
<1>5. CASE SiftUp
  <2>1. i \div 2 \in 1 .. Len(heap)
    BY <1>5 DEF SiftUp, IInv, TypeOK, Sifting
  <2> QED
    BY <1>4, <1>5, <2>1 DEF SiftUp, IInv, TypeOK, Sifting
<1>6. CASE SiftUpBreak
  <2>1. UNCHANGED <<heap, ref, clock, node, timeMS>> /\ i \in 1 .. Len(heap)
    BY <1>6 DEF SiftUpBreak, IInv, TypeOK, Sifting
  <2>2. heap # <<>>
    BY <2>1, EmptySeq DEF IInv, TypeOK
  <2>3. CASE Goto("erase")
    BY <2>1, <2>2, <2>3 DEF Goto, IInv, TypeOK, RefAgrees, Sifting
  <2>4. CASE Finish
    BY <2>1, <2>4 DEF Finish, Call, IInv, TypeOK, RefAgrees, Sifting
  <2> QED
    BY <1>6, <2>3, <2>4 DEF SiftUpBreak, Sifted
<1>7. CASE SiftUpAbort
  BY <1>7 DEF SiftUpAbort, Goto, IInv, TypeOK, RefAgrees, Sifting
<1>8. CASE SiftDown
  <2>1. SmallerChild(i) \in 1 .. Len(heap)
    BY <1>8, SMTT(30) DEF SiftDown, SmallerChild, Limit, IInv, TypeOK, Sifting
  <2> QED
    BY <1>4, <1>8, <2>1 DEF SiftDown, IInv, TypeOK, Sifting
<1>9. CASE SiftDownBreak
  <2>1. UNCHANGED <<heap, ref, clock, node, timeMS>> /\ heap # <<>>
    BY <1>9, EmptySeq DEF SiftDownBreak, IInv, TypeOK, Sifting
  <2>2. CASE Goto("siftup")
    BY <1>9, <2>1, <2>2 DEF SiftDownBreak, Goto, IInv, TypeOK, RefAgrees, Sifting
  <2>3. CASE Goto("erase")
    BY <2>1, <2>3 DEF Goto, IInv, TypeOK, RefAgrees, Sifting
  <2>4. CASE Finish
    BY <2>1, <2>4 DEF Finish, Call, IInv, TypeOK, RefAgrees, Sifting
  <2> QED
    BY <1>9, <2>2, <2>3, <2>4 DEF SiftDownBreak, Sifted
<1>10. CASE GetNextTick \/ TickBreak
  BY <1>10, SMTT(30) DEF GetNextTick, TickBreak, Goto, Call, IInv, TypeOK, RefAgrees,
               Sifting
<1>11. CASE TickFire
  <2>1. 1 \in 1 .. Len(heap) /\ heap[1].id \in Ids
    BY <1>11, Nodes, EmptySeq DEF TickFire, IInv, TypeOK
  <2> QED
    BY <1>11, <2>1 DEF TickFire, Call, IInv, TypeOK, RefAgrees, Sifting
<1>12. CASE TickReturn
  <2>1. heap # <<>> => heap[1].expires - now \in Int
    BY Nodes, EmptySeq DEF IInv, TypeOK
  <2>2. \A d \in Int : Ms(d) \in Int
    BY DEF Ms
  <2>3. timeMS' \in Int
    BY <1>12, <2>1, <2>2 DEF TickReturn
  <2> QED
    BY <1>12, <2>3 DEF TickReturn, Finish, Call, IInv, TypeOK, RefAgrees, Sifting
<1>13. CASE Del
  <2>1. CASE i < Len(heap)
    <3>1. i \in 1 .. Len(heap) /\ Len(heap) \in 1 .. Len(heap)
      BY <1>13 DEF Del, IInv, TypeOK, Sifting
    <3> QED
      BY <1>4, <1>13, <2>1, <3>1 DEF Del, Call, IInv, TypeOK, Sifting
  <2>2. CASE ~(i < Len(heap))
    BY <1>13, <2>2 DEF Del, Goto, IInv, TypeOK, RefAgrees, Sifting
  <2> QED
    BY <2>1, <2>2
<1>14. CASE Erase
  <2> DEFINE last == heap[Len(heap)].id
  <2>1. heap # <<>> /\ heap \in Seq(Node)
    BY <1>14 DEF Erase, IInv, TypeOK
  <2>2. /\ Len(heap) \in Nat \ {0}
        /\ heap' \in Seq(Node)
        /\ Len(heap') = Len(heap) - 1
        /\ \A p \in 1 .. Len(heap) - 1 : heap'[p] = heap[p]
    BY <1>14, <2>1, PopBack DEF Erase
  <2>3. /\ DOMAIN ref' = DOMAIN ref \ {last}
        /\ \A k \in DOMAIN ref' : ref'[k] = ref[k]
    BY <1>14 DEF Erase
  <2>4. ref[last] = Len(heap) /\ heap[ref[last]].id = last
    BY <2>2 DEF IInv, RefAgrees
  <2>5. RefAgrees'
    <3>1. ASSUME NEW p \in 1 .. Len(heap')
          PROVE  heap'[p].id \in DOMAIN ref' /\ ref'[heap'[p].id] = p
      <4>1. p \in 1 .. Len(heap) /\ p # Len(heap) /\ heap'[p] = heap[p]
        BY <2>2
      <4>2. heap[p].id \in DOMAIN ref /\ ref[heap[p].id] = p
        BY <4>1 DEF IInv, RefAgrees
      <4> QED
        BY <2>3, <2>4, <4>1, <4>2
    <3>2. ASSUME NEW k \in DOMAIN ref'
          PROVE  ref'[k] \in 1 .. Len(heap') /\ heap'[ref'[k]].id = k
      <4>1. k \in DOMAIN ref /\ k # last /\ ref'[k] = ref[k]
        BY <2>3
      <4>2. ref[k] \in 1 .. Len(heap) /\ heap[ref[k]].id = k
        BY <4>1 DEF IInv, RefAgrees
      <4>3. ref[k] # Len(heap)
        BY <4>1, <4>2
      <4> QED
        BY <2>2, <4>1, <4>2, <4>3
    <3> QED
      BY <3>1, <3>2 DEF RefAgrees
  <2>6. ref' \in [DOMAIN ref' -> 1 .. Len(heap')]
    BY <1>14, <2>5 DEF Erase, RefAgrees
  <2>7. TypeOK'
    BY <1>14, <2>2, <2>3, <2>6 DEF Erase, Finish, Call, IInv, TypeOK, Sifting
  <2> QED
    BY <2>5, <2>7 DEF IInv
<1>15. CASE Clear
  BY <1>15 DEF Clear, places, IInv, TypeOK, RefAgrees, Sifting
<1>16. CASE Pass \/ SetBack
  <2>1. now' \in Nat /\ backs' \in Nat
    BY <1>16, SMTT(30) DEF Pass, SetBack, IInv, TypeOK
  <2>2. UNCHANGED <<heap, ref, places, node, timeMS>>
    BY <1>16 DEF Pass, SetBack
  <2> QED
    BY <2>1, <2>2 DEF places, IInv, TypeOK, RefAgrees, Sifting
<1>17. CASE UNCHANGED vars
  BY <1>17 DEF vars, places, IInv, TypeOK, RefAgrees, Sifting
<1> QED
  BY <1>1, <1>2, <1>3, <1>5, <1>6, <1>7, <1>8, <1>9, <1>10, <1>11, <1>12,
     <1>13, <1>14, <1>15, <1>16, <1>17 DEF Next, Renew, Adjust

(* The types are preserved, and siftup_, siftdown_ and del_ use places of  *)
(* the heap only (except when siftup_ is at the root).                     *)
THEOREM TypeCorrect == Spec => []TypeOK
BY InitIInv, NextIInv, PTL DEF Spec, IInv

(* heap_ and ref_ agree at every step of every operation.                  *)
THEOREM IndexAgrees == Spec => []RefAgrees
BY InitIInv, NextIInv, PTL DEF Spec, IInv
-----------------------------------------------------------------------------
(* Where the thread is, and which node is being deleted.                   *)
Deleting == op \in {"tick", "doWork"}

Removing == pc = "erase" \/ (pc \in Sifting /\ Deleting)

OpAt == /\ pc \in {"callback", "erase"} => Deleting
        /\ pc = "siftup" => op \in {"add", "tick", "doWork"}
        /\ pc = "siftdown" => op \in {"add", "adjust", "tick", "doWork"} /\ start <= i
        /\ pc \in Sifting => i <= Limit

(* A node is in hand from its callback on; it is the last one of the heap  *)
(* when it is not at i any more.                                           *)
NodeAt == /\ pc # "aborted" => (node # NoId <=> pc = "callback" \/ Removing)
          /\ pc = "callback" => heap[i].id = node
          /\ Removing => heap[Len(heap)].id = node

PlaceInv == OpAt /\ NodeAt

LEMMA InitPlaceInv == Init => PlaceInv
BY DEF Init, PlaceInv, OpAt, NodeAt, Removing, Deleting, Sifting

(* The places between which siftup_ and siftdown_ swap.                    *)
LEMMA SwapPlaces ==
  ASSUME IInv, OpAt
  PROVE  /\ SiftUp => i \div 2 \in 1 .. Limit /\ i \in 1 .. Limit /\ i \div 2 < i
         /\ SiftDown => SmallerChild(i) \in 1 .. Limit /\ i \in 1 .. Limit
                        /\ i < SmallerChild(i)
         /\ pc \in Sifting => Limit \in Nat /\ Limit <= Len(heap)
<1>0. pc \in Sifting => Limit \in Nat /\ Limit <= Len(heap) /\ i \in 1 .. Limit
  BY DEF IInv, TypeOK, OpAt, Limit
<1>1. SiftUp => i \div 2 \in 1 .. Limit /\ i \div 2 < i
  BY <1>0 DEF SiftUp, Sifting
<1>2. SiftDown => SmallerChild(i) \in 1 .. Limit /\ i < SmallerChild(i)
  BY <1>0 DEF SiftDown, Sifting, SmallerChild
<1> QED
  BY <1>0, <1>1, <1>2 DEF SiftUp, SiftDown, Sifting

LEMMA NextPlaceInv == IInv /\ PlaceInv /\ [Next]_vars => PlaceInv'
<1> SUFFICES ASSUME IInv, PlaceInv, [Next]_vars PROVE PlaceInv'
  OBVIOUS
<1> USE IdsAssumption DEF PlaceInv, OpAt, NodeAt, Removing, Deleting, Sifting, Limit
<1>a. heap \in Seq(Node) /\ Len(heap) \in Nat /\ node \in Ids \cup {NoId} /\ i \in Nat
      /\ start \in Nat
  BY DEF IInv, TypeOK
<1>1. ASSUME NEW id \in Ids, Insert(id) PROVE PlaceInv'
  <2>1. Len(heap') = Len(heap) + 1
    BY <1>1, <1>a DEF Insert
  <2> QED
    BY <1>1, <1>a, <2>1 DEF Insert, Call
<1>2. ASSUME NEW id \in Ids, NEW what \in {"add", "adjust"}, Reset(id, what)
      PROVE  PlaceInv'
  <2>1. Len(heap') = Len(heap) /\ ref[id] \in 1 .. Len(heap)
    BY <1>2, <1>a DEF Reset, IInv, TypeOK
  <2> QED
    BY <1>2, <1>a, <2>1 DEF Reset, Call
<1>3. ASSUME NEW id \in Ids, DoWork(id) PROVE PlaceInv'
  <2>1. heap[ref[id]].id = id
    BY <1>3 DEF DoWork, IInv, RefAgrees
  <2> QED
    BY <1>3, <1>a, <2>1 DEF DoWork, Call
<1>4. ASSUME NEW a \in 1 .. Limit, NEW b \in 1 .. Limit, SwapNode_(a, b),
             pc \in Sifting, Limit \in Nat, Limit <= Len(heap)
      PROVE  /\ Len(heap') = Len(heap)
             /\ Deleting => heap'[Len(heap)] = heap[Len(heap)]
  BY <1>4, <1>a DEF SwapNode_
<1>5. CASE SiftUp
  <2>1. Len(heap') = Len(heap) /\ (Deleting => heap'[Len(heap)] = heap[Len(heap)])
    BY <1>4, <1>5, SwapPlaces DEF SiftUp
  <2> QED
    BY <1>5, <1>a, <2>1, SwapPlaces DEF SiftUp
<1>6. CASE SiftDown
  <2>1. Len(heap') = Len(heap) /\ (Deleting => heap'[Len(heap)] = heap[Len(heap)])
    BY <1>4, <1>6, SwapPlaces DEF SiftDown
  <2> QED
    BY <1>6, <1>a, <2>1, SwapPlaces DEF SiftDown
<1>7. CASE SiftUpBreak
  BY <1>7, <1>a DEF SiftUpBreak, Sifted, Goto, Finish, Call
<1>8. CASE SiftDownBreak
  BY <1>8, <1>a DEF SiftDownBreak, Sifted, Goto, Finish, Call
<1>9. CASE SiftUpAbort
  BY <1>9, <1>a DEF SiftUpAbort, Goto
<1>10. CASE GetNextTick \/ TickBreak \/ TickReturn
  BY <1>10, <1>a DEF GetNextTick, TickBreak, TickReturn, Goto, Finish, Call
<1>11. CASE TickFire
  <2>1. heap[1].id \in Ids
    BY <1>11, <1>a, Nodes, EmptySeq DEF TickFire
  <2> QED
    BY <1>11, <1>a, <2>1 DEF TickFire, Call
<1>12. CASE Del
  <2>1. i \in 1 .. Len(heap)
    BY <1>12 DEF Del, IInv, TypeOK
  <2>2. CASE i < Len(heap)
    <3>1. Len(heap') = Len(heap) /\ heap'[Len(heap)] = heap[i]
      BY <1>12, <1>a, <2>1, <2>2 DEF Del, SwapNode_
    <3> QED
      BY <1>12, <1>a, <2>1, <2>2, <3>1 DEF Del, Call
  <2>3. CASE ~(i < Len(heap))
    <3>1. i = Len(heap)
      BY <1>a, <2>1, <2>3
    <3> QED
      BY <1>12, <1>a, <2>3, <3>1 DEF Del, Goto
  <2> QED
    BY <2>2, <2>3
<1>13. CASE Erase
  BY <1>13, <1>a DEF Erase, Finish, Call
<1>14. CASE Clear \/ Pass \/ SetBack \/ UNCHANGED vars
  BY <1>14 DEF Clear, Pass, SetBack, vars, places
<1> QED
  BY <1>1, <1>2, <1>3, <1>5, <1>6, <1>7, <1>8, <1>9, <1>10, <1>11, <1>12, <1>13, <1>14
  DEF Next, Renew, Adjust
-----------------------------------------------------------------------------
(* The order of the heap, as properties of the function e of the expiries  *)
(* up to place n; Up is the parent of a place.                             *)
Up(p) == p \div 2

Sorted(e, n) == \A p \in 2 .. n : e[Up(p)] <= e[p]

(* The parent of j is not after the children of j.                         *)
Bridged(e, n, j) == j > 1 => \A c \in 2 .. n : Up(c) = j => e[Up(j)] <= e[c]

(* While siftup_ is at j: sorted except at j.                              *)
SortedBelow(e, n, j) == /\ \A p \in 2 .. n : p # j => e[Up(p)] <= e[p]
                        /\ Bridged(e, n, j)

(* While siftdown_ is at j: sorted except at j and at the children of j.   *)
SortedAround(e, n, j) == /\ \A p \in 2 .. n : p # j /\ Up(p) # j => e[Up(p)] <= e[p]
                         /\ Bridged(e, n, j)

Values(e, n) == \A p \in 1 .. n : e[p] \in Nat

LEMMA UpProperties ==
  ASSUME NEW p \in Nat, p >= 2
  PROVE  /\ Up(p) \in Nat /\ 1 <= Up(p) /\ Up(p) < p
         /\ p = 2 * Up(p) \/ p = 2 * Up(p) + 1
BY DEF Up

(* The root of a sorted heap is not after any other node: the first place  *)
(* with an earlier expiry would have a parent with one.                    *)
LEMMA RootIsFirst ==
  ASSUME NEW n \in Nat, NEW e, Values(e, n), Sorted(e, n), NEW p \in 1 .. n
  PROVE  e[1] <= e[p]
<1> DEFINE T == {q \in 1 .. n : e[q] < e[1]}
           R == OpToRel(<, Nat)
<1> SUFFICES ASSUME T # {} PROVE FALSE
  BY DEF Values
<1>0. IsWellFoundedOn(R, Nat)
  BY NatLessThanWellFounded
<1>a. \A r, q \in Nat : r < q => <<r, q>> \in R
  BY DEF OpToRel
<1> HIDE DEF R
<1>1. PICK q \in T : \A r \in T : ~(<<r, q>> \in R)
  <2>1. T \subseteq Nat
    OBVIOUS
  <2> HIDE DEF T
  <2> QED
    BY <1>0, <2>1, WFMin
<1>2. q \in Nat /\ q >= 2 /\ q <= n /\ e[q] < e[1]
  BY DEF Values
<1>3. e[Up(q)] <= e[q] /\ Up(q) \in 1 .. n /\ Up(q) < q
  BY <1>2, UpProperties DEF Sorted
<1>4. Up(q) \in T
  BY <1>2, <1>3 DEF Values
<1>5. <<Up(q), q>> \in R
  BY <1>2, <1>3, <1>a
<1> QED
  BY <1>1, <1>4, <1>5

(* An iteration of siftup_.                                                *)
LEMMA SwapUp ==
  ASSUME NEW n \in Nat, NEW j \in 2 .. n, NEW e, NEW f, Values(e, n),
         SortedBelow(e, n, j), e[j] <= e[Up(j)],
         f[j] = e[Up(j)], f[Up(j)] = e[j],
         \A p \in 1 .. n : p # j /\ p # Up(j) => f[p] = e[p]
  PROVE  SortedBelow(f, n, Up(j))
<1>0. Up(j) \in 1 .. n /\ Up(j) # j
  BY UpProperties
<1>1. ASSUME NEW p \in 2 .. n, p # Up(j) PROVE f[Up(p)] <= f[p]
  <2>0. Up(p) \in 1 .. n /\ Up(p) # p
    BY UpProperties
  <2>1. CASE p = j
    BY <2>1
  <2>2. CASE p # j /\ Up(p) = Up(j)
    <3>1. e[Up(p)] <= e[p] /\ f[p] = e[p] /\ f[Up(p)] = e[j]
      BY <1>1, <2>2 DEF SortedBelow
    <3> QED
      BY <1>0, <2>0, <2>2, <3>1 DEF Values
  <2>3. CASE p # j /\ Up(p) = j
    <3>1. e[Up(j)] <= e[p] /\ f[p] = e[p] /\ f[Up(p)] = e[Up(j)]
      BY <1>0, <1>1, <2>3 DEF SortedBelow, Bridged
    <3> QED
      BY <3>1
  <2>4. CASE p # j /\ Up(p) # j /\ Up(p) # Up(j)
    BY <1>1, <2>0, <2>4 DEF SortedBelow
  <2> QED
    BY <2>1, <2>2, <2>3, <2>4
<1>2. ASSUME Up(j) > 1, NEW c \in 2 .. n, Up(c) = Up(j) PROVE f[Up(Up(j))] <= f[c]
  <2>0. Up(Up(j)) \in 1 .. n /\ Up(Up(j)) # Up(j) /\ Up(Up(j)) # j /\ c # Up(j)
    BY <1>0, <1>2, UpProperties
  <2>1. e[Up(Up(j))] <= e[Up(j)] /\ f[Up(Up(j))] = e[Up(Up(j))]
    BY <1>0, <1>2, <2>0 DEF SortedBelow
  <2>2. CASE c = j
    BY <2>1, <2>2
  <2>3. CASE c # j
    <3>1. e[Up(j)] <= e[c] /\ f[c] = e[c]
      BY <1>2, <2>0, <2>3 DEF SortedBelow
    <3> QED
      BY <1>0, <2>0, <2>1, <3>1 DEF Values
  <2> QED
    BY <2>2, <2>3
<1> QED
  BY <1>1, <1>2 DEF SortedBelow, Bridged

(* An iteration of siftdown_: c is the child of j that is not after the    *)
(* other one.                                                              *)
LEMMA SwapDown ==
  ASSUME NEW n \in Nat, NEW j \in 1 .. n, NEW c \in 2 .. n, Up(c) = j,
         NEW e, NEW f, Values(e, n),
         SortedAround(e, n, j), e[c] <= e[j],
         \A d \in 2 .. n : Up(d) = j => e[c] <= e[d],
         f[j] = e[c], f[c] = e[j],
         \A p \in 1 .. n : p # j /\ p # c => f[p] = e[p]
  PROVE  SortedAround(f, n, c) /\ f[Up(c)] <= f[c]
<1>0. j < c
  BY UpProperties
<1>1. ASSUME NEW p \in 2 .. n, p # c, Up(p) # c PROVE f[Up(p)] <= f[p]
  <2>0. Up(p) \in 1 .. n /\ Up(p) # p
    BY UpProperties
  <2>1. CASE p = j
    <3>1. e[Up(j)] <= e[c] /\ f[Up(p)] = e[Up(j)]
      BY <1>1, <2>0, <2>1 DEF SortedAround, Bridged
    <3> QED
      BY <2>1, <3>1
  <2>2. CASE p # j /\ Up(p) = j
    BY <1>1, <2>2
  <2>3. CASE p # j /\ Up(p) # j
    BY <1>1, <2>0, <2>3 DEF SortedAround
  <2> QED
    BY <2>1, <2>2, <2>3
<1>2. ASSUME NEW d \in 2 .. n, Up(d) = c PROVE f[Up(c)] <= f[d]
  <2>1. d # j /\ d # c /\ Up(d) # j
    BY <1>0, <1>2, UpProperties
  <2>2. e[c] <= e[d] /\ f[d] = e[d]
    BY <1>2, <2>1 DEF SortedAround
  <2> QED
    BY <2>2
<1> QED
  BY <1>1, <1>2 DEF SortedAround, Bridged

(* siftdown_ breaks: its node is not after its children.                   *)
LEMMA BreakDown ==
  ASSUME NEW n \in Nat, NEW j, NEW e, SortedAround(e, n, j),
         \A d \in 2 .. n : Up(d) = j => e[j] <= e[d]
  PROVE  SortedBelow(e, n, j)
BY DEF SortedAround, SortedBelow

(* siftup_ breaks: its node is at the root or not before its parent.       *)
LEMMA BreakUp ==
  ASSUME NEW n \in Nat, NEW j, NEW e, SortedBelow(e, n, j),
         j \in 2 .. n => e[Up(j)] <= e[j]
  PROVE  Sorted(e, n)
BY DEF SortedBelow, Sorted

(* add puts a node at the end.                                             *)
LEMMA AtEnd ==
  ASSUME NEW n \in Nat, NEW e, NEW f, Sorted(e, n),
         \A p \in 1 .. n : f[p] = e[p]
  PROVE  SortedBelow(f, n + 1, n + 1)
<1>1. ASSUME NEW p \in 2 .. n + 1, p # n + 1 PROVE f[Up(p)] <= f[p]
  BY <1>1, UpProperties DEF Sorted
<1>2. ASSUME NEW c \in 2 .. n + 1 PROVE Up(c) # n + 1
  BY UpProperties
<1> QED
  BY <1>1, <1>2 DEF SortedBelow, Bridged

(* adjust gives a node a later expiry.                                     *)
LEMMA Later ==
  ASSUME NEW n \in Nat, NEW j \in 1 .. n, NEW e, NEW f, Values(e, n), f[j] \in Nat,
         Sorted(e, n), e[j] <= f[j],
         \A p \in 1 .. n : p # j => f[p] = e[p]
  PROVE  SortedAround(f, n, j) /\ (j > 1 => f[Up(j)] <= f[j])
<1>1. ASSUME NEW p \in 2 .. n, p # j, Up(p) # j PROVE f[Up(p)] <= f[p]
  BY <1>1, UpProperties DEF Sorted
<1>2. ASSUME j > 1
      PROVE  /\ Up(j) \in 1 .. n /\ Up(j) # j /\ f[Up(j)] = e[Up(j)]
             /\ e[Up(j)] <= e[j]
  BY <1>2, UpProperties DEF Sorted
<1>3. ASSUME j > 1, NEW c \in 2 .. n, Up(c) = j PROVE f[Up(j)] <= f[c]
  <2>1. c # j /\ e[j] <= e[c]
    BY <1>3, UpProperties DEF Sorted
  <2> QED
    BY <1>2, <1>3, <2>1 DEF Values
<1>4. j > 1 => f[Up(j)] <= f[j]
  BY <1>2 DEF Values
<1> QED
  BY <1>1, <1>3, <1>4 DEF SortedAround, Bridged

(* del_ puts another node in the place of one, and leaves out the last.    *)
LEMMA Replaced ==
  ASSUME NEW n \in Nat, NEW j \in 1 .. n, NEW e, NEW f, Values(e, n),
         Sorted(e, n + 1), \A p \in 1 .. n : p # j => f[p] = e[p]
  PROVE  SortedAround(f, n, j)
<1>1. ASSUME NEW p \in 2 .. n, p # j, Up(p) # j PROVE f[Up(p)] <= f[p]
  BY <1>1, UpProperties DEF Sorted
<1>2. ASSUME j > 1, NEW c \in 2 .. n, Up(c) = j PROVE f[Up(j)] <= f[c]
  <2>1. /\ c # j /\ e[j] <= e[c] /\ f[c] = e[c]
        /\ Up(j) \in 1 .. n /\ Up(j) # j /\ e[Up(j)] <= e[j] /\ f[Up(j)] = e[Up(j)]
    BY <1>2, UpProperties DEF Sorted
  <2> QED
    BY <1>2, <2>1 DEF Values
<1> QED
  BY <1>1, <1>2 DEF SortedAround, Bridged
-----------------------------------------------------------------------------
(* The order of the heap at each place of the code, as long as the clock   *)
(* was not set back: then no expiry is later than that of a timer set now. *)
Keys == [p \in 1 .. Len(heap) |-> heap[p].expires]

(* The node that is sifted down is not before its parent, unless it was    *)
(* put there by del_ and has not moved.                                    *)
InPlaceAbove == i > 1 /\ (i # start \/ ~Deleting) => Keys[Up(i)] <= Keys[i]

Order ==
  /\ \A p \in 1 .. Len(heap) : Keys[p] <= now + Timeout
  /\ pc \in {"idle", "tick", "next", "callback"} => Sorted(Keys, Len(heap))
  /\ pc = "erase" => Sorted(Keys, Len(heap) - 1)
  /\ pc = "siftup" => SortedBelow(Keys, Limit, i)
  /\ pc = "siftdown" => SortedAround(Keys, Limit, i) /\ InPlaceAbove

OrderInv == backs = 0 => Order

LEMMA KeysAreValues ==
  ASSUME heap \in Seq(Node), NEW n \in Nat, n <= Len(heap)
  PROVE  Values(Keys, n)
BY Nodes DEF Values, Keys

LEMMA SwapKeys ==
  ASSUME heap \in Seq(Node), NEW a \in 1 .. Len(heap), NEW b \in 1 .. Len(heap),
         a # b, SwapNode_(a, b)
  PROVE  /\ Len(heap') = Len(heap)
         /\ Keys'[a] = Keys[b] /\ Keys'[b] = Keys[a]
         /\ \A p \in 1 .. Len(heap) : p # a /\ p # b => Keys'[p] = Keys[p]
<1>1. Len(heap') = Len(heap) /\ Len(heap) \in Nat
  BY DEF SwapNode_
<1>2. /\ heap'[a] = heap[b] /\ heap'[b] = heap[a]
      /\ \A p \in 1 .. Len(heap) : p # a /\ p # b => heap'[p] = heap[p]
  BY DEF SwapNode_
<1> QED
  BY <1>1, <1>2 DEF Keys

LEMMA Children ==
  ASSUME NEW n \in Nat, NEW j \in 1 .. n, NEW d \in 2 .. n, Up(d) = j
  PROVE  2 * j <= n /\ (d = 2 * j \/ d = 2 * j + 1)
BY DEF Up

(* Of the children of a place, SmallerChild is not after the other.        *)
LEMMA SmallerIsFirst ==
  ASSUME heap \in Seq(Node), Limit \in Nat, Limit <= Len(heap), Values(Keys, Limit),
         NEW j \in 1 .. Limit, 2 * j <= Limit
  PROVE  /\ SmallerChild(j) \in 2 .. Limit
         /\ Up(SmallerChild(j)) = j
         /\ \A d \in 2 .. Limit : Up(d) = j => Keys[SmallerChild(j)] <= Keys[d]
<1>1. Len(heap) \in Nat
  OBVIOUS
<1>2. \A p, q \in 1 .. Limit : Before(p, q) <=> Keys[p] < Keys[q]
  BY <1>1 DEF Before, Keys
<1>3. 2 * j \in 2 .. Limit /\ Up(2 * j) = j /\ Up(2 * j + 1) = j
  BY DEF Up
<1>4. CASE 2 * j + 1 <= Limit
  <2>1. 2 * j + 1 \in 2 .. Limit
    BY <1>4
  <2>2. SmallerChild(j) = IF Keys[2 * j + 1] < Keys[2 * j] THEN 2 * j + 1 ELSE 2 * j
    BY <1>2, <1>3, <1>4, <2>1 DEF SmallerChild
  <2>3. Keys[2 * j] \in Nat /\ Keys[2 * j + 1] \in Nat
    BY <1>3, <2>1 DEF Values
  <2>4. /\ Keys[SmallerChild(j)] <= Keys[2 * j]
        /\ Keys[SmallerChild(j)] <= Keys[2 * j + 1]
    BY <2>2, <2>3
  <2>5. \A d \in 2 .. Limit : Up(d) = j => Keys[SmallerChild(j)] <= Keys[d]
    BY <2>4, Children
  <2> QED
    BY <1>3, <2>1, <2>2, <2>5
<1>5. CASE ~(2 * j + 1 <= Limit)
  <2>1. SmallerChild(j) = 2 * j
    BY <1>5 DEF SmallerChild
  <2>2. \A d \in 2 .. Limit : Up(d) = j => d = 2 * j
    BY <1>5, Children
  <2>3. Keys[2 * j] \in Nat
    BY <1>3 DEF Values
  <2>4. Keys[2 * j] <= Keys[2 * j]
    BY <2>3
  <2> QED
    BY <1>3, <2>1, <2>2, <2>4
<1> QED
  BY <1>4, <1>5

LEMMA InitOrderInv == Init => OrderInv
BY DEF Init, OrderInv, Order, Keys, Sorted

(* No step takes back that the clock was set back.                         *)
LEMMA BacksGrow == backs \in Nat /\ [Next]_vars /\ backs' = 0 => backs = 0
<1> SUFFICES ASSUME backs \in Nat, [Next]_vars, backs' = 0 PROVE backs = 0
  OBVIOUS
<1>1. CASE SetBack
  BY <1>1 DEF SetBack
<1>2. CASE ~SetBack
  BY <1>2 DEF Next, Insert, Renew, Adjust, Reset, DoWork, SiftUp, SiftUpBreak, SiftUpAbort,
              SiftDown, SiftDownBreak, GetNextTick, TickFire, TickBreak, TickReturn, Del,
              Erase, Clear, Pass, vars, clock
<1> QED
  BY <1>1, <1>2

LEMMA NextOrderInv == IInv /\ PlaceInv /\ OrderInv /\ [Next]_vars => OrderInv'
<1> SUFFICES ASSUME IInv, PlaceInv, OrderInv, [Next]_vars, backs' = 0 PROVE Order'
  BY DEF OrderInv
<1> USE TimeAssumption DEF Deleting
<1>a. heap \in Seq(Node) /\ Len(heap) \in Nat /\ now \in Nat /\ backs \in Nat /\ i \in Nat
  BY DEF IInv, TypeOK
<1>b. backs = 0
  BY <1>a, BacksGrow
<1>c. Order
  BY <1>b DEF OrderInv
<1>d. \A p \in 1 .. Len(heap) : Keys[p] \in Nat /\ Keys[p] <= now + Timeout
  BY <1>a, <1>c, KeysAreValues DEF Order, Values
<1>e. ASSUME UNCHANGED <<heap, now>>
      PROVE  Keys' = Keys /\ \A p \in 1 .. Len(heap') : Keys'[p] <= now' + Timeout
  BY <1>d, <1>e DEF Keys
<1>1. ASSUME NEW id \in Ids, Insert(id) PROVE Order'
  <2>1. Len(heap') = Len(heap) + 1
    BY <1>1, <1>a DEF Insert
  <2>2. \A p \in 1 .. Len(heap) : heap'[p] = heap[p]
    BY <1>1, <1>a DEF Insert
  <2>3. heap'[Len(heap) + 1].expires = now + Timeout
    BY <1>1, <1>a DEF Insert
  <2>4. /\ \A p \in 1 .. Len(heap) : Keys'[p] = Keys[p]
        /\ Keys'[Len(heap) + 1] = now + Timeout
    BY <1>a, <2>1, <2>2, <2>3 DEF Keys
  <2>5. Sorted(Keys, Len(heap))
    BY <1>1, <1>c DEF Insert, Order
  <2>6. SortedBelow(Keys', Len(heap) + 1, Len(heap) + 1)
    BY <1>a, <2>4, <2>5, AtEnd
  <2>7. pc' = "siftup" /\ i' = Len(heap) + 1 /\ Limit' = Len(heap) + 1 /\ now' = now
    BY <1>1, <2>1 DEF Insert, Call, Limit, clock
  <2>8. \A p \in 1 .. Len(heap') : Keys'[p] <= now' + Timeout
    BY <1>a, <1>d, <2>1, <2>4, <2>7
  <2> QED
    BY <2>6, <2>7, <2>8 DEF Order
<1>2. ASSUME NEW id \in Ids, NEW what \in {"add", "adjust"}, Reset(id, what)
      PROVE  Order'
  <2>0. ref[id] \in 1 .. Len(heap)
    BY <1>2 DEF Reset, IInv, TypeOK
  <2>1. Len(heap') = Len(heap) /\ heap[ref[id]] \in Node
    BY <1>2, <1>a, <2>0, Nodes DEF Reset
  <2>2. \A p \in 1 .. Len(heap) : p # ref[id] => heap'[p] = heap[p]
    BY <1>2, <1>a DEF Reset
  <2>3. heap'[ref[id]].expires = now + Timeout
    BY <1>2, <1>a, <2>0, <2>1 DEF Reset, Node
  <2>4. /\ \A p \in 1 .. Len(heap) : p # ref[id] => Keys'[p] = Keys[p]
        /\ Keys'[ref[id]] = now + Timeout
    BY <1>a, <2>0, <2>1, <2>2, <2>3 DEF Keys
  <2>5. Sorted(Keys, Len(heap)) /\ Values(Keys, Len(heap))
    BY <1>2, <1>a, <1>c, KeysAreValues DEF Reset, Order
  <2>6. Keys[ref[id]] <= Keys'[ref[id]] /\ Keys'[ref[id]] \in Nat
    BY <1>a, <1>d, <2>0, <2>4
  <2>7. /\ SortedAround(Keys', Len(heap), ref[id])
        /\ ref[id] > 1 => Keys'[Up(ref[id])] <= Keys'[ref[id]]
    BY <1>a, <2>0, <2>4, <2>5, <2>6, Later
  <2>8. pc' = "siftdown" /\ i' = ref[id] /\ Limit' = Len(heap) /\ now' = now
    BY <1>2, <2>1 DEF Reset, Call, Limit, clock
  <2>9. \A p \in 1 .. Len(heap') : Keys'[p] <= now' + Timeout
    BY <1>a, <1>d, <2>1, <2>4, <2>8
  <2> QED
    BY <2>7, <2>8, <2>9 DEF Order, InPlaceAbove
<1>3. ASSUME NEW id \in Ids, DoWork(id) PROVE Order'
  BY <1>3, <1>c, <1>e DEF DoWork, Call, Order, clock
<1>4. ASSUME NEW a \in 1 .. Len(heap), NEW b \in 1 .. Len(heap), a # b, SwapNode_(a, b),
             UNCHANGED now
      PROVE  \A p \in 1 .. Len(heap') : Keys'[p] <= now' + Timeout
  <2>1. \A p \in 1 .. Len(heap) : \E q \in 1 .. Len(heap) : Keys'[p] = Keys[q]
    BY <1>4, <1>a, SwapKeys
  <2>2. Len(heap') = Len(heap)
    BY <1>4, <1>a, SwapKeys
  <2> QED
    BY <1>4, <1>d, <2>1, <2>2
<1>f. pc \in Sifting => Limit \in Nat /\ Limit <= Len(heap) /\ Values(Keys, Limit)
                        /\ i \in 1 .. Limit
  BY <1>a, SwapPlaces, KeysAreValues DEF PlaceInv, OpAt, IInv, TypeOK
<1>5. CASE SiftUp
  <2>0. /\ pc = "siftup" /\ pc' = pc /\ op' = op /\ i' = Up(i) /\ now' = now /\ i > 1
        /\ SwapNode_(i, Up(i)) /\ ~(Keys[Up(i)] < Keys[i])
        /\ Up(i) \in 1 .. Limit /\ i \in 2 .. Limit /\ Up(i) < i /\ Limit \in Nat
        /\ Limit <= Len(heap)
    BY <1>5, <1>a, SwapPlaces DEF SiftUp, Up, Before, Keys, PlaceInv, Sifting, clock
  <2>1. /\ Len(heap') = Len(heap)
        /\ Keys'[i] = Keys[Up(i)] /\ Keys'[Up(i)] = Keys[i]
        /\ \A p \in 1 .. Limit : p # i /\ p # Up(i) => Keys'[p] = Keys[p]
    BY <1>a, <2>0, SwapKeys
  <2>2. Limit' = Limit /\ Values(Keys, Limit) /\ Keys[i] <= Keys[Up(i)]
    BY <1>d, <1>f, <2>0, <2>1 DEF Limit, Sifting
  <2>3. SortedBelow(Keys, Limit, i)
    BY <1>c, <2>0 DEF Order
  <2>4. SortedBelow(Keys', Limit, Up(i))
    BY <2>0, <2>1, <2>2, <2>3, SwapUp
  <2>5. \A p \in 1 .. Len(heap') : Keys'[p] <= now' + Timeout
    BY <1>4, <1>a, <2>0
  <2> QED
    BY <2>0, <2>2, <2>4, <2>5 DEF Order
<1>6. CASE SiftDown
  <2> DEFINE c == SmallerChild(i)
  <2>0. /\ pc = "siftdown" /\ pc' = pc /\ op' = op /\ i' = c /\ now' = now
        /\ start' = start /\ start <= i
        /\ SwapNode_(i, c) /\ ~(Keys[i] < Keys[c])
        /\ c \in 1 .. Limit /\ i \in 1 .. Limit /\ i < c /\ Limit \in Nat
        /\ Limit <= Len(heap)
    BY <1>6, <1>a, SwapPlaces DEF SiftDown, Before, Keys, PlaceInv, OpAt, Sifting, clock
  <2>1. /\ Len(heap') = Len(heap)
        /\ Keys'[i] = Keys[c] /\ Keys'[c] = Keys[i]
        /\ \A p \in 1 .. Limit : p # i /\ p # c => Keys'[p] = Keys[p]
    BY <1>a, <2>0, SwapKeys
  <2>2. Limit' = Limit /\ Values(Keys, Limit) /\ Keys[c] <= Keys[i]
    BY <1>d, <1>f, <2>0, <2>1 DEF Limit, Sifting
  <2>3. /\ Up(c) = i /\ c \in 2 .. Limit
        /\ \A d \in 2 .. Limit : Up(d) = i => Keys[c] <= Keys[d]
    BY <1>6, <1>a, <2>0, <2>2, SmallerIsFirst DEF SiftDown
  <2>4. SortedAround(Keys, Limit, i)
    BY <1>c, <2>0 DEF Order
  <2>5. SortedAround(Keys', Limit, c) /\ Keys'[Up(c)] <= Keys'[c]
    <3> HIDE DEF c
    <3> QED
      BY <2>0, <2>1, <2>2, <2>3, <2>4, SwapDown
  <2>6. \A p \in 1 .. Len(heap') : Keys'[p] <= now' + Timeout
    BY <1>4, <1>a, <2>0
  <2> QED
    BY <2>0, <2>2, <2>5, <2>6 DEF Order, InPlaceAbove
<1>7. CASE SiftUpBreak
  <2>1. SortedBelow(Keys, Limit, i) /\ Limit \in Nat
    BY <1>7, <1>c, <1>f DEF SiftUpBreak, Order, Sifting
  <2>2. i \in 2 .. Limit => Keys[Up(i)] <= Keys[i]
    BY <1>7, <1>d, <1>f, UpProperties DEF SiftUpBreak, Before, Keys, Up, Sifting
  <2>3. Sorted(Keys, Limit)
    BY <2>1, <2>2, BreakUp
  <2>4. /\ UNCHANGED <<heap, now>>
        /\ \/ Deleting /\ pc' = "erase"
           \/ ~Deleting /\ pc' = "idle"
    BY <1>7 DEF SiftUpBreak, Sifted, Goto, Finish, Call, clock
  <2> QED
    BY <1>e, <2>3, <2>4 DEF Order, Limit
<1>8. CASE SiftDownBreak
  <2>1. /\ SortedAround(Keys, Limit, i) /\ InPlaceAbove /\ Limit \in Nat /\ i \in 1 .. Limit
        /\ Limit <= Len(heap)
    BY <1>8, <1>c, <1>f DEF SiftDownBreak, Order, Sifting
  <2>2. \A d \in 2 .. Limit : Up(d) = i => Keys[i] <= Keys[d]
    <3>1. Values(Keys, Limit)
      BY <1>8, <1>f DEF SiftDownBreak, Sifting
    <3>2. SUFFICES ASSUME 2 * i <= Limit
                   PROVE  \A d \in 2 .. Limit : Up(d) = i => Keys[i] <= Keys[d]
      BY <2>1, Children
    <3> DEFINE c == SmallerChild(i)
    <3>3. /\ c \in 2 .. Limit
          /\ \A d \in 2 .. Limit : Up(d) = i => Keys[c] <= Keys[d]
      BY <1>a, <2>1, <3>1, <3>2, SmallerIsFirst
    <3>4. Before(i, c)
      BY <1>8, <3>2 DEF SiftDownBreak
    <3> HIDE DEF c
    <3>5. Keys[i] < Keys[c]
      BY <1>a, <2>1, <3>3, <3>4 DEF Before, Keys
    <3> QED
      BY <2>1, <3>1, <3>3, <3>5 DEF Values
  <2>3. SortedBelow(Keys, Limit, i)
    BY <2>1, <2>2, BreakDown
  <2>4. UNCHANGED <<heap, now>>
    BY <1>8 DEF SiftDownBreak, clock
  <2>5. CASE op # "adjust" /\ i = start
    <3>1. pc' = "siftup" /\ op' = op /\ i' = i /\ Limit' = Limit
      BY <1>8, <2>4, <2>5 DEF SiftDownBreak, Goto, Limit
    <3> QED
      BY <1>e, <2>3, <2>4, <3>1 DEF Order
  <2>6. CASE ~(op # "adjust" /\ i = start)
    <3>1. \/ Deleting /\ pc' = "erase"
          \/ ~Deleting /\ pc' = "idle"
      BY <1>8, <2>6 DEF SiftDownBreak, Sifted, Goto, Finish, Call
    <3>2. i > 1 => Keys[Up(i)] <= Keys[i]
      BY <2>1, <2>6 DEF InPlaceAbove
    <3>3. Sorted(Keys, Limit)
      BY <2>1, <2>3, <3>2, BreakUp
    <3> QED
      BY <1>e, <2>4, <3>1, <3>3 DEF Order, Limit
  <2> QED
    BY <2>5, <2>6
<1>9. CASE SiftUpAbort
  BY <1>9, <1>e DEF SiftUpAbort, Goto, Order, clock
<1>10. CASE GetNextTick \/ TickFire \/ TickBreak \/ TickReturn
  <2>1. /\ UNCHANGED <<heap, now>>
        /\ pc \in {"idle", "tick", "next"} /\ pc' \in {"idle", "tick", "next", "callback"}
    BY <1>10 DEF GetNextTick, TickFire, TickBreak, TickReturn, Goto, Finish, Call, clock
  <2> QED
    BY <1>c, <1>e, <2>1 DEF Order
<1>11. CASE Del
  <2>0. i \in 1 .. Len(heap) /\ Sorted(Keys, Len(heap)) /\ now' = now /\ Deleting
    BY <1>11, <1>c DEF Del, Order, IInv, TypeOK, PlaceInv, OpAt, clock
  <2>1. CASE i < Len(heap)
    <3>1. /\ SwapNode_(i, Len(heap)) /\ pc' = "siftdown" /\ i' = i /\ start' = i
          /\ op' = op
      BY <1>11, <2>1 DEF Del, Call
    <3>2. /\ Len(heap') = Len(heap)
          /\ \A p \in 1 .. Len(heap) - 1 : p # i => Keys'[p] = Keys[p]
          /\ Limit' = Len(heap) - 1
      BY <1>a, <2>0, <2>1, <3>1, SwapKeys DEF Limit
    <3>3. Len(heap) - 1 \in Nat /\ Len(heap) - 1 + 1 = Len(heap) /\ i \in 1 .. Len(heap) - 1
      BY <1>a, <2>0, <2>1
    <3>4. Values(Keys, Len(heap) - 1)
      BY <1>a, <3>3, KeysAreValues
    <3>5. SortedAround(Keys', Len(heap) - 1, i)
      BY <2>0, <3>2, <3>3, <3>4, Replaced
    <3>6. \A p \in 1 .. Len(heap') : Keys'[p] <= now' + Timeout
      BY <1>4, <1>a, <2>0, <2>1, <3>1
    <3> QED
      BY <2>0, <3>1, <3>2, <3>5, <3>6 DEF Order, InPlaceAbove
  <2>2. CASE ~(i < Len(heap))
    <3>1. UNCHANGED heap /\ pc' = "erase"
      BY <1>11, <2>2 DEF Del, Goto
    <3>2. Sorted(Keys, Len(heap) - 1)
      BY <1>a, <2>0 DEF Sorted
    <3> QED
      BY <1>e, <2>0, <3>1, <3>2 DEF Order
  <2> QED
    BY <2>1, <2>2
<1>12. CASE Erase
  <2>1. /\ Len(heap') = Len(heap) - 1 /\ Len(heap) \in Nat \ {0}
        /\ \A p \in 1 .. Len(heap) - 1 : heap'[p] = heap[p]
    BY <1>12, <1>a, PopBack DEF Erase, IInv, TypeOK
  <2>2. \A p \in 1 .. Len(heap) - 1 : Keys'[p] = Keys[p]
    BY <2>1 DEF Keys
  <2>3. Sorted(Keys, Len(heap) - 1) /\ pc' \in {"tick", "idle"} /\ now' = now
    BY <1>12, <1>c DEF Erase, Order, Call, Finish, clock
  <2>4. Sorted(Keys', Len(heap'))
    BY <2>1, <2>2, <2>3, UpProperties, SMTT(30) DEF Sorted
  <2>5. \A p \in 1 .. Len(heap') : Keys'[p] <= now' + Timeout
    BY <1>d, <2>1, <2>2, <2>3
  <2> QED
    BY <2>3, <2>4, <2>5 DEF Order
<1>13. CASE Clear
  <2>1. Len(heap') = 0 /\ pc' = "idle"
    BY <1>13 DEF Clear, places
  <2> QED
    BY <2>1 DEF Order, Sorted
<1>14. CASE Pass
  <2>1. UNCHANGED <<heap, pc, op, i, start>> /\ now' = now + 1
    BY <1>14 DEF Pass, places
  <2>2. Keys' = Keys /\ Limit' = Limit /\ \A p \in 1 .. Len(heap') : Keys'[p] <= now' + Timeout
    BY <1>a, <1>d, <2>1 DEF Keys, Limit
  <2> QED
    BY <1>c, <2>1, <2>2 DEF Order, InPlaceAbove
<1>15. CASE SetBack
  BY <1>15, <1>a DEF SetBack
<1>16. CASE UNCHANGED vars
  <2>1. UNCHANGED <<heap, pc, op, i, start, now>>
    BY <1>16 DEF vars, places, clock
  <2>2. Keys' = Keys /\ Limit' = Limit
    BY <2>1 DEF Keys, Limit
  <2> QED
    BY <1>c, <2>1, <2>2 DEF Order, InPlaceAbove
<1> QED
  BY <1>1, <1>2, <1>3, <1>5, <1>6, <1>7, <1>8, <1>9, <1>10, <1>11, <1>12, <1>13, <1>14,
     <1>15, <1>16 DEF Next, Renew, Adjust

(* What holds in every reachable state of the heap.                        *)
LEMMA Inductive == Spec => [](IInv /\ PlaceInv /\ OrderInv)
BY InitIInv, NextIInv, InitPlaceInv, NextPlaceInv, InitOrderInv, NextOrderInv, PTL DEF Spec

(* As long as the clock is not set back, the heap is in order whenever no  *)
(* node is being sifted, although siftup_ and siftdown_ swap nodes of      *)
(* equal expiry, adjust never calls siftup_, and add and del_ call it only *)
(* when siftdown_ has not moved the node.                                  *)
THEOREM HeapInOrder == Spec => []HeapOrder
<1>1. IInv /\ OrderInv => HeapOrder
  <2> SUFFICES ASSUME IInv, OrderInv, backs = 0, pc \in {"idle", "tick", "next", "callback"},
                      NEW p \in 2 .. Len(heap)
               PROVE  heap[p \div 2].expires <= heap[p].expires
    BY DEF HeapOrder
  <2>1. Len(heap) \in Nat
    BY DEF IInv, TypeOK
  <2>2. Keys[Up(p)] <= Keys[p]
    BY DEF OrderInv, Order, Sorted
  <2>3. p \div 2 \in 1 .. Len(heap)
    BY <2>1
  <2> QED
    BY <2>1, <2>2, <2>3 DEF Keys, Up
<1> QED
  BY <1>1, Inductive, PTL
-----------------------------------------------------------------------------
(* A duration has 1 ms left or more exactly if it is not shorter than 1 ms. *)
LEMMA MsPositive == ASSUME NEW d \in Int PROVE Ms(d) \in Int /\ (Ms(d) > 0 <=> d >= PerMs)
BY TimeAssumption DEF Ms

(* While tick looks at it, the root expires first.                         *)
LEMMA RootExpiresFirst ==
  ASSUME IInv, OrderInv, backs = 0, pc = "tick", NEW p \in 1 .. Len(heap)
  PROVE  heap[1].expires <= heap[p].expires
<1>1. heap \in Seq(Node) /\ Len(heap) \in Nat
  BY DEF IInv, TypeOK
<1>2. Sorted(Keys, Len(heap)) /\ Values(Keys, Len(heap))
  BY <1>1, KeysAreValues DEF OrderInv, Order
<1>3. Keys[1] <= Keys[p]
  BY <1>1, <1>2, RootIsFirst
<1> QED
  BY <1>1, <1>3 DEF Keys

(* tick stops at the first node that has not expired, and then no other    *)
(* has: no connection that timed out is left for the next round, as long   *)
(* as the clock is not set back.                                           *)
THEOREM AllExpiredFired == Spec => TickFiresAll
<1>1. IInv /\ OrderInv /\ [Next]_vars =>
        [backs = 0 /\ pc = "tick" /\ pc' = "next" =>
           \A p \in 1 .. Len(heap) : Ms(heap[p].expires - now) > 0]_vars
  <2> SUFFICES ASSUME IInv, OrderInv, [Next]_vars, backs = 0, pc = "tick", pc' = "next",
                      NEW p \in 1 .. Len(heap)
               PROVE  Ms(heap[p].expires - now) > 0
    OBVIOUS
  <2>1. TickBreak
    BY DEF Next, Insert, Renew, Adjust, Reset, DoWork, SiftUp, SiftUpBreak, SiftUpAbort,
           SiftDown, SiftDownBreak, GetNextTick, TickFire, TickReturn, Del, Erase, Clear,
           Pass, SetBack, places, vars, Call, Finish, Goto
  <2>2. heap \in Seq(Node) /\ Len(heap) \in Nat /\ now \in Nat
    BY DEF IInv, TypeOK
  <2>3. heap # <<>> /\ 1 \in 1 .. Len(heap)
    BY <2>2
  <2>4. heap[1].expires \in Nat /\ heap[p].expires \in Nat
    BY <2>2, <2>3, Nodes
  <2>5. ~(Ms(heap[1].expires - now) <= 0)
    BY <2>1, <2>3 DEF TickBreak, Expired
  <2>6. heap[1].expires - now >= PerMs
    <3>1. heap[1].expires - now \in Int
      BY <2>2, <2>4
    <3>2. /\ Ms(heap[1].expires - now) \in Int
          /\ Ms(heap[1].expires - now) > 0 <=> heap[1].expires - now >= PerMs
      BY <3>1, MsPositive, Zenon
    <3> QED
      BY <2>5, <3>2
  <2>7. heap[p].expires - now >= PerMs
    BY <2>2, <2>4, <2>6, RootExpiresFirst, TimeAssumption
  <2>8. heap[p].expires - now \in Int
    BY <2>2, <2>4
  <2> QED
    BY <2>7, <2>8, MsPositive, Zenon
<1> QED
  BY <1>1, Inductive, PTL DEF Spec, TickFiresAll
-----------------------------------------------------------------------------
(* The mapping of ImplementsTimerQueue: when each timer expires, and the   *)
(* timer whose callback runs.                                              *)
Due == [k \in Pending |-> heap[ref[k]].expires]

Firing == IF node = NoId THEN {}
          ELSE {[id |-> node, why |-> IF op = "tick" THEN "expired" ELSE "cancelled"]}

(* SwapNode_ moves no timer to another moment.                             *)
LEMMA SwapDue ==
  ASSUME IInv, NEW a \in 1 .. Len(heap), NEW b \in 1 .. Len(heap), SwapNode_(a, b),
         node' = node
  PROVE  Due' = Due
<1>1. heap \in Seq(Node) /\ RefAgrees
  BY DEF IInv, TypeOK
<1>2. DOMAIN ref' = DOMAIN ref
  BY <1>1, SwapKeeps
<1>3. ASSUME NEW k \in DOMAIN ref PROVE heap'[ref'[k]] = heap[ref[k]]
  <2>1. \A p \in 1 .. Len(heap) :
          heap'[p] = IF p = b THEN heap[a] ELSE IF p = a THEN heap[b] ELSE heap[p]
    BY <1>1 DEF SwapNode_
  <2>2. ref'[k] = IF k = heap[a].id THEN b ELSE IF k = heap[b].id THEN a ELSE ref[k]
    BY DEF SwapNode_
  <2>3. /\ ref[k] \in 1 .. Len(heap) /\ heap[ref[k]].id = k
        /\ ref[heap[a].id] = a /\ ref[heap[b].id] = b
    BY <1>1 DEF RefAgrees
  <2> QED
    BY <2>1, <2>2, <2>3
<1> QED
  BY <1>2, <1>3 DEF Due, Pending

LEMMA StepImplements ==
  ASSUME IInv, PlaceInv, OrderInv, [Next]_vars, backs' = 0
  PROVE  [TQ!Next]_(TQ!timerVars)
<1> USE IdsAssumption, TimeAssumption
<1>0. UNCHANGED <<heap, ref, node>> => Due' = Due
  BY DEF Due, Pending
<1>a. /\ heap \in Seq(Node) /\ Len(heap) \in Nat /\ now \in Nat /\ backs \in Nat
      /\ RefAgrees /\ DOMAIN ref \subseteq Ids
  BY DEF IInv, TypeOK
<1>b. backs = 0
  BY <1>a, BacksGrow
<1>c. pc \in {"idle", "tick", "next"} => node = NoId /\ Firing = {} /\ DOMAIN Due = DOMAIN ref
  BY <1>a DEF PlaceInv, NodeAt, Removing, Sifting, Firing, Due, Pending
<1>1. ASSUME NEW id \in Ids, Insert(id) PROVE TQ!Set(id)
  <2>1. /\ \A p \in 1 .. Len(heap) : heap'[p] = heap[p]
        /\ heap'[Len(heap) + 1].expires = now + Timeout
    BY <1>1, <1>a DEF Insert
  <2>2. /\ node = NoId /\ node' = NoId /\ now' = now
        /\ DOMAIN ref' = DOMAIN ref \cup {id} /\ id \notin DOMAIN ref
        /\ ref'[id] = Len(heap) + 1
        /\ \A k \in DOMAIN ref : ref'[k] = ref[k]
    BY <1>1, <1>c DEF Insert, clock
  <2>3. \A k \in DOMAIN ref : ref[k] \in 1 .. Len(heap)
    BY <1>a DEF RefAgrees
  <2>4. Due' = [k \in DOMAIN Due \cup {id} |-> IF k = id THEN now + Timeout ELSE Due[k]]
    BY <1>a, <2>1, <2>2, <2>3 DEF Due, Pending
  <2> QED
    BY <1>1, <1>c, <2>2, <2>4 DEF TQ!Set, Due, Firing, Insert
<1>2. ASSUME NEW id \in Ids, NEW what \in {"add", "adjust"}, Reset(id, what)
      PROVE  TQ!Set(id)
  <2>0. ref[id] \in 1 .. Len(heap) /\ heap[ref[id]] \in Node
    BY <1>2, <1>a, Nodes DEF Reset, RefAgrees
  <2>1. \A p \in 1 .. Len(heap) : p # ref[id] => heap'[p] = heap[p]
    BY <1>2, <1>a DEF Reset
  <2>2. heap'[ref[id]].expires = now + Timeout
    BY <1>2, <1>a, <2>0 DEF Reset, Node
  <2>3. \A k \in DOMAIN ref : ref[k] \in 1 .. Len(heap) /\ (ref[k] = ref[id] => k = id)
    BY <1>2, <1>a DEF Reset, RefAgrees
  <2>4. node = NoId /\ node' = NoId /\ now' = now /\ ref' = ref /\ id \in DOMAIN ref
    BY <1>2, <1>c DEF Reset, clock
  <2>5. Due' = [k \in DOMAIN Due \cup {id} |-> IF k = id THEN now + Timeout ELSE Due[k]]
    BY <1>a, <2>1, <2>2, <2>3, <2>4 DEF Due, Pending
  <2> QED
    BY <1>2, <1>c, <2>4, <2>5 DEF TQ!Set, Due, Firing, Reset
<1>3. ASSUME NEW id \in Ids, DoWork(id) PROVE TQ!Cancel(id)
  <2>1. node = NoId /\ node' = id /\ op' = "doWork" /\ UNCHANGED <<heap, ref, now>>
    BY <1>3, <1>c DEF DoWork, Call, clock
  <2>2. Due' = [k \in DOMAIN Due \ {id} |-> Due[k]]
    BY <1>a, <2>1 DEF Due, Pending
  <2>3. Firing' = {[id |-> id, why |-> "cancelled"]}
    BY <2>1 DEF Firing
  <2> QED
    BY <1>3, <1>c, <2>1, <2>2, <2>3 DEF TQ!Cancel, TQ!Fire, Due, Firing, DoWork
<1>4. CASE TickFire
  <2>0. 1 \in 1 .. Len(heap) /\ heap[1].expires \in Nat /\ heap[1].id \in Ids
    BY <1>4, <1>a, Nodes, EmptySeq DEF TickFire
  <2>1. PICK id \in Ids : id = heap[1].id
    BY <2>0
  <2>2. /\ pc = "tick" /\ node = NoId /\ node' = id /\ op' = "tick"
        /\ UNCHANGED <<heap, ref, now>>
    BY <1>4, <1>c, <2>1 DEF TickFire, Call, clock
  <2>3. id \in DOMAIN ref /\ ref[id] = 1
    BY <1>a, <2>0, <2>1 DEF RefAgrees
  <2>4. Due' = [k \in DOMAIN Due \ {id} |-> Due[k]]
    BY <1>a, <2>2, <2>3 DEF Due, Pending
  <2>5. Firing' = {[id |-> id, why |-> "expired"]}
    BY <2>2, <2>3 DEF Firing
  <2>6. Due[id] = heap[1].expires
    BY <1>a, <2>2, <2>3 DEF Due, Pending
  <2>7. Due[id] - now < PerMs
    <3>1. heap[1].expires - now \in Int
      BY <1>a, <2>0
    <3>2. /\ Ms(heap[1].expires - now) \in Int
          /\ Ms(heap[1].expires - now) > 0 <=> heap[1].expires - now >= PerMs
      BY <3>1, MsPositive, Zenon
    <3>3. Ms(heap[1].expires - now) <= 0
      BY <1>4 DEF TickFire, Expired
    <3> QED
      BY <2>6, <3>1, <3>2, <3>3
  <2>8. ASSUME NEW k \in DOMAIN Due PROVE Due[id] <= Due[k]
    <3>1. ref[k] \in 1 .. Len(heap) /\ Due[k] = heap[ref[k]].expires
      BY <1>a, <2>8 DEF RefAgrees, Due, Pending
    <3> QED
      BY <1>b, <2>2, <2>6, <3>1, RootExpiresFirst
  <2>9. id \in DOMAIN Due /\ Firing = {}
    BY <1>c, <2>2, <2>3
  <2> QED
    BY <2>2, <2>4, <2>5, <2>7, <2>8, <2>9
    DEF TQ!Next, TQ!Expire, TQ!Fire, Due, Firing
<1>5. CASE Erase
  <2>1. /\ Len(heap') = Len(heap) - 1 /\ Len(heap) \in Nat \ {0}
        /\ \A p \in 1 .. Len(heap) - 1 : heap'[p] = heap[p]
    BY <1>5, <1>a, PopBack DEF Erase, IInv, TypeOK
  <2>2. heap[Len(heap)].id = node /\ node # NoId
    BY <1>5 DEF Erase, PlaceInv, NodeAt, Removing
  <2>3. /\ node' = NoId /\ now' = now /\ DOMAIN ref' = DOMAIN ref \ {node}
        /\ \A k \in DOMAIN ref' : ref'[k] = ref[k]
    BY <1>5, <2>2 DEF Erase, clock
  <2>4. ASSUME NEW k \in DOMAIN ref, k # node PROVE ref[k] \in 1 .. Len(heap) - 1
    BY <1>a, <2>1, <2>2, <2>4 DEF RefAgrees
  <2>5. Due' = Due
    BY <1>a, <2>1, <2>2, <2>3, <2>4 DEF Due, Pending
  <2>6. Firing # {} /\ Firing' = {}
    BY <2>2, <2>3 DEF Firing
  <2>7. TQ!Return
    BY <2>3, <2>5, <2>6 DEF TQ!Return, Due, Firing
  <2> QED
    BY <2>7 DEF TQ!Next
<1>6. CASE Clear
  <2>1. Due' = [k \in {} |-> 0] /\ Firing = {} /\ Firing' = {} /\ now' = now
    BY <1>6, <1>c DEF Clear, Due, Pending, Firing, clock
  <2> QED
    BY <2>1 DEF TQ!Next, TQ!Clear, Due, Firing
<1>7. CASE Pass
  <2>1. Due' = Due /\ Firing' = Firing /\ now' > now
    BY <1>7, <1>0, <1>a DEF Pass, places, Firing
  <2> QED
    BY <2>1 DEF TQ!Next, TQ!Pass, Due, Firing
<1>8. CASE SiftUp \/ SiftDown \/ Del
  <2>1. UNCHANGED <<op, node, now>>
    BY <1>8 DEF SiftUp, SiftDown, Del, Call, Goto, clock
  <2>2. Due' = Due
    <3>1. CASE SiftUp
      <4>1. i \div 2 \in 1 .. Len(heap) /\ i \in 1 .. Len(heap) /\ SwapNode_(i, i \div 2)
        BY <1>a, <3>1, SwapPlaces DEF SiftUp, PlaceInv, Sifting
      <4> QED
        BY <2>1, <4>1, SwapDue
    <3>2. CASE SiftDown
      <4>1. /\ SmallerChild(i) \in 1 .. Len(heap) /\ i \in 1 .. Len(heap)
            /\ SwapNode_(i, SmallerChild(i))
        BY <1>a, <3>2, SwapPlaces DEF SiftDown, PlaceInv, Sifting
      <4> QED
        BY <2>1, <4>1, SwapDue
    <3>3. CASE Del /\ i < Len(heap)
      <4>1. i \in 1 .. Len(heap) /\ Len(heap) \in 1 .. Len(heap) /\ SwapNode_(i, Len(heap))
        BY <1>a, <3>3 DEF Del, IInv, TypeOK
      <4> QED
        BY <2>1, <4>1, SwapDue
    <3>4. CASE Del /\ ~(i < Len(heap))
      BY <1>0, <2>1, <3>4 DEF Del
    <3> QED
      BY <1>8, <3>1, <3>2, <3>3, <3>4
  <2> QED
    BY <2>1, <2>2 DEF Firing, Due, TQ!timerVars
<1>9. CASE SiftUpBreak \/ SiftUpAbort \/ SiftDownBreak
  <2>1. UNCHANGED <<heap, ref, node, now>>
    BY <1>9 DEF SiftUpBreak, SiftUpAbort, SiftDownBreak, clock
  <2>2. op' = op \/ node = NoId
    BY <1>9 DEF SiftUpBreak, SiftUpAbort, SiftDownBreak, Sifted, Goto, Finish, Call,
                PlaceInv, NodeAt, Removing, Deleting, Sifting
  <2> QED
    BY <1>0, <2>1, <2>2 DEF Firing, Due, TQ!timerVars
<1>10. CASE GetNextTick \/ TickBreak \/ TickReturn
  <2>1. UNCHANGED <<heap, ref, node, now>> /\ node = NoId
    BY <1>10, <1>c DEF GetNextTick, TickBreak, TickReturn, clock
  <2> QED
    BY <1>0, <2>1 DEF Firing, Due, TQ!timerVars
<1>11. CASE SetBack
  BY <1>11, <1>a DEF SetBack
<1>12. CASE UNCHANGED vars
  BY <1>0, <1>12 DEF vars, places, clock, Firing, Due, TQ!timerVars
<1> QED
  BY <1>1, <1>2, <1>3, <1>4, <1>5, <1>6, <1>7, <1>8, <1>9, <1>10, <1>11, <1>12
  DEF Next, Renew, Adjust, TQ!Next

(* The heap with its index is a queue of timers: add and adjust set the    *)
(* timer of one identifier and disturb no other; tick calls the callbacks  *)
(* in the order in which the timers expire, none a millisecond or more     *)
(* early; doWork cancels one timer; as long as the clock is not set back.  *)
THEOREM Refinement == Spec => ImplementsTimerQueue
<1>1. Init => TQ!Init
  <2> SUFFICES ASSUME Init PROVE TQ!Init
    OBVIOUS
  <2>1. Due = [k \in {} |-> 0] /\ Firing = {}
    BY DEF Init, Due, Pending, Firing
  <2> QED
    BY <2>1 DEF Init, TQ!Init, Due, Firing
<1>2. IInv /\ PlaceInv /\ OrderInv /\ [Next]_vars =>
        [backs' = 0 => [TQ!Next]_(TQ!timerVars)]_vars
  BY StepImplements
<1> QED
  BY <1>1, <1>2, Inductive, PTL DEF Spec, ImplementsTimerQueue
=============================================================================
