----------------------------- MODULE TimerQueue -----------------------------
(***************************************************************************)
(* What HeapTimer (timer/timer.cc) promises to the server, with the heap   *)
(* and its index abstracted away: one timer for each identifier, fired in  *)
(* the order in which the timers expire and less than a millisecond before *)
(* its time.  HeapTimer.tla is shown to implement this specification.      *)
(***************************************************************************)
EXTENDS Integers

CONSTANTS
  Ids,      \* who may have a timer: the file descriptors of the connections
  Timeout,  \* the life of a timer, in units of the clock
  PerMs     \* units of the clock in a millisecond

VARIABLES
  due,      \* when the timer of each identifier that has one expires
  firing,   \* the timers whose callback runs, and why: none or one
  now       \* the clock

timerVars == <<due, firing, now>>

Init == /\ due = [k \in {} |-> 0]
        /\ firing = {}
        /\ now = 0

Set(id) == /\ firing = {}
           /\ due' = [k \in DOMAIN due \cup {id} |->
                        IF k = id THEN now + Timeout ELSE due[k]]
           /\ UNCHANGED <<firing, now>>

Fire(id, why) == /\ firing = {}
                 /\ id \in DOMAIN due
                 /\ firing' = {[id |-> id, why |-> why]}
                 /\ due' = [k \in DOMAIN due \ {id} |-> due[k]]
                 /\ UNCHANGED now

Expire(id) == /\ Fire(id, "expired")
              /\ due[id] - now < PerMs
              /\ \A k \in DOMAIN due : due[id] <= due[k]

Cancel(id) == Fire(id, "cancelled")

Return == /\ firing # {}
          /\ firing' = {}
          /\ UNCHANGED <<due, now>>

Clear == /\ firing = {}
         /\ due' = [k \in {} |-> 0]
         /\ UNCHANGED <<firing, now>>

Pass == /\ now' > now
        /\ UNCHANGED <<due, firing>>

Next == \/ \E id \in Ids : Set(id) \/ Expire(id) \/ Cancel(id)
        \/ Return
        \/ Clear
        \/ Pass

Spec == Init /\ [][Next]_timerVars
=============================================================================
