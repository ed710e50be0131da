--------------------------- MODULE HttpConnProofs ---------------------------
(***************************************************************************)
(* Proofs about HttpConn, for every size of heads, files and send buffers, *)
(* both trigger modes, and whatever the memory of the object was.          *)
(*                                                                         *)
(* The inductive invariant adds to the two properties where a connection   *)
(* is when it is not answering: it is registered for one event while no    *)
(* thread serves it (Served), and nothing is owed nor in writeBuff while   *)
(* it waits for a request (Quiet).                                         *)
(***************************************************************************)
EXTENDS HttpConn, TLAPS

Served == /\ armed # "none" => pc = "idle"
          /\ isClose => pc = "idle" /\ armed = "none"

Quiet == armed = "in" \/ pc = "read" => owed = 0 /\ writeBuff = 0

Lengths == /\ iov \in Nat \X Nat
           /\ writeBuff \in Nat
           /\ owed \in Nat
           /\ room \in Nat
           /\ readBuff \in Seq(Requests)
           /\ inbox \in Seq(Requests)
           /\ pc \in {"idle", "read", "process", "write", "wrote", "killed"}

IInv == Lengths /\ Served /\ Quiet /\ OwedIsGiven /\ NothingOverwritten

(* The invariant holds at the start.                                       *)
LEMMA InitIInv == Init => IInv
BY SizesAssumption DEF Init, IInv, Lengths, Served, Quiet, OwedIsGiven,
                       NothingOverwritten, Answering

(* What the loop of Write does to the lengths: n units fewer in the        *)
(* iovecs, and writeBuff still holds what iov[0] is about.                 *)
LEMMA SentUnits ==
  ASSUME Lengths, NEW n \in Nat, n <= Given, writeBuff = iov[1], Sent(n)
  PROVE  /\ iov' \in Nat \X Nat
         /\ writeBuff' = iov'[1]
         /\ iov'[1] + iov'[2] = iov[1] + iov[2] - n
         /\ iovCnt # 2 => iov'[1] = iov[1] - n
<1>1. PICK a \in Nat, b \in Nat : iov = <<a, b>>
  BY DEF Lengths
<1>2. iov[1] = a /\ iov[2] = b
  BY <1>1
<1>3. CASE n > a
  <2>1. iovCnt = 2 /\ n <= a + b
    BY <1>2, <1>3 DEF Given
  <2>2. iov' = <<0, b - (n - a)>>
    BY <1>2, <1>3 DEF Sent
  <2>3. b - (n - a) \in Nat
    BY <2>1, <1>3
  <2>4. writeBuff' = 0
    BY <1>2, <1>3 DEF Sent
  <2> QED
    BY <1>2, <2>1, <2>2, <2>3, <2>4
<1>4. CASE ~(n > a)
  <2>1. iov' = <<a - n, b>> /\ writeBuff' = a - n
    BY <1>2, <1>4 DEF Sent
  <2>2. a - n \in Nat
    BY <1>4
  <2> QED
    BY <1>2, <2>1, <2>2
<1> QED
  BY <1>3, <1>4

(* Every step preserves the invariant.                                     *)
LEMMA NextIInv == IInv /\ [Next]_vars => IInv'
<1> SUFFICES ASSUME IInv, [Next]_vars PROVE IInv'
  OBVIOUS
<1> USE SizesAssumption DEF IInv
<1>1. CASE Connect
  BY <1>1 DEF Connect, Lengths, Served, Quiet, OwedIsGiven, NothingOverwritten,
              Answering
<1>2. ASSUME NEW r \in Requests, Send(r) PROVE IInv'
  BY <1>2 DEF Send, buffers, Lengths, Served, Quiet, OwedIsGiven,
              NothingOverwritten, Answering, Given
<1>3. CASE Receive \/ PeerClose
  BY <1>3 DEF Receive, PeerClose, buffers, Lengths, Served, Quiet, OwedIsGiven,
              NothingOverwritten, Answering, Given
<1>4. CASE CloseConn
  BY <1>4 DEF CloseConn, Lengths, Served, Quiet, OwedIsGiven,
              NothingOverwritten, Answering
<1>5. CASE EventIn \/ EventOut
  BY <1>5 DEF EventIn, EventOut, Dispatch, buffers, Lengths, Served, Quiet,
              OwedIsGiven, NothingOverwritten, Answering, Given
<1>6. CASE Read
  <2>1. readBuff \o inbox \in Seq(Requests) /\ <<>> \in Seq(Requests)
    BY DEF Lengths
  <2> QED
    BY <1>6, <2>1 DEF Read, Lengths, Served, Quiet, OwedIsGiven,
                      NothingOverwritten, Answering
<1>7. CASE ProcessNothing
  BY <1>7 DEF ProcessNothing, Rearm, Lengths, Served, Quiet, OwedIsGiven,
              NothingOverwritten, Answering
<1>8. CASE Process
  <2> DEFINE r == Head(readBuff)
  <2>1. r \in Requests /\ Tail(readBuff) \in Seq(Requests)
    BY <1>8 DEF Process, MakeResponse, Lengths
  <2>2. r.file \in Nat
    BY <2>1 DEF Requests
  <2>3. owed = 0 /\ writeBuff = 0 /\ pc = "process"
    BY <1>8 DEF Process, MakeResponse, NothingOverwritten
  <2>4. /\ iov' = <<HeadLen, IF r.file > 0 THEN r.file ELSE iov[2]>>
        /\ iovCnt' = IF r.file > 0 THEN 2 ELSE 1
        /\ owed' = HeadLen + r.file
        /\ writeBuff' = HeadLen
        /\ readBuff' = Tail(readBuff)
        /\ pc' = "idle" /\ armed' = "out"
        /\ UNCHANGED <<isClose, room, inbox>>
    BY <1>8, <2>2, <2>3 DEF Process, MakeResponse, Rearm
  <2>5. iov[2] \in Nat
    BY DEF Lengths
  <2>6. iov' \in Nat \X Nat
    BY <2>2, <2>4, <2>5
  <2>7. owed' = Given' /\ writeBuff' = iov'[1]
    BY <2>2, <2>4, <2>5 DEF Given
  <2> QED
    BY <2>1, <2>2, <2>3, <2>4, <2>6, <2>7
    DEF Lengths, Served, Quiet, OwedIsGiven, NothingOverwritten
<1>9. ASSUME NEW n \in 1 .. Room, Writev(n) PROVE IInv'
  <2>1. /\ pc = "write" /\ Answering /\ n \in Nat /\ n <= Given
        /\ owed = Given /\ writeBuff = iov[1] /\ Sent(n)
    BY <1>9 DEF Writev, Answering, OwedIsGiven
  <2>2. /\ iov' \in Nat \X Nat
        /\ writeBuff' = iov'[1]
        /\ iov'[1] + iov'[2] = iov[1] + iov[2] - n
        /\ iovCnt # 2 => iov'[1] = iov[1] - n
    BY <2>1, SentUnits
  <2>3. iov[1] \in Nat /\ iov[2] \in Nat /\ iov'[1] \in Nat /\ iov'[2] \in Nat
    BY <2>2 DEF Lengths
  <2>4. /\ owed' = owed - n /\ room' = room - n /\ n <= room
        /\ pc' \in {"write", "wrote"}
        /\ UNCHANGED <<armed, iovCnt, isClose, readBuff, inbox>>
    BY <1>9, <2>1 DEF Writev, Wrote
  <2>5. owed' = Given' /\ owed' \in Nat
    <3>1. CASE iovCnt = 2
      BY <2>1, <2>2, <2>3, <2>4, <3>1 DEF Given
    <3>2. CASE iovCnt # 2
      BY <2>1, <2>2, <2>3, <2>4, <3>2 DEF Given
    <3> QED
      BY <3>1, <3>2
  <2> QED
    BY <2>1, <2>2, <2>3, <2>4, <2>5
    DEF Lengths, Served, Quiet, OwedIsGiven, NothingOverwritten, Answering
<1>10. CASE WritevNothing \/ WritevAgain \/ WritevFails \/ WritevSignal
  BY <1>10 DEF WritevNothing, WritevAgain, WritevFails, WritevSignal, Wrote,
               sock, buffers, Lengths, Served, Quiet, OwedIsGiven,
               NothingOverwritten, Answering, Given
<1>11. CASE NextRequest
  <2>1. owed = Given /\ writeBuff = iov[1] /\ iov[1] + iov[2] = 0
    BY <1>11 DEF NextRequest, OwedIsGiven, Answering, ToWriteBytes
  <2>2. iov[1] = 0 /\ iov[2] = 0
    BY <2>1 DEF Lengths
  <2> QED
    BY <1>11, <2>1, <2>2
    DEF NextRequest, sock, buffers, Lengths, Served, Quiet, OwedIsGiven,
        NothingOverwritten, Answering, Given
<1>12. CASE WriteAgain
  BY <1>12 DEF WriteAgain, Rearm, buffers, Lengths, Served, Quiet, OwedIsGiven,
               NothingOverwritten, Answering, Given
<1>13. CASE UNCHANGED vars
  BY <1>13 DEF vars, sock, buffers, Lengths, Served, Quiet, OwedIsGiven,
               NothingOverwritten, Answering, Given
<1> QED
  BY <1>1, <1>2, <1>3, <1>4, <1>5, <1>6, <1>7, <1>8, <1>9, <1>10, <1>11, <1>12,
     <1>13
  DEF Next, HangUp, Timeout, OnRead, ReadClosed, OnWrite, WriteClose

(* Whatever lengths writev returns, the iovecs say what the client has not *)
(* been sent, and writeBuff holds what the first of them is about.         *)
THEOREM OwedIsWhatIsGiven == Spec => []OwedIsGiven
BY InitIInv, NextIInv, PTL DEF Spec, IInv

(* A response is made only when the last one was sent.                     *)
THEOREM ResponsesNotOverwritten == Spec => []NothingOverwritten
BY InitIInv, NextIInv, PTL DEF Spec, IInv

(* While the rest of a file is to be sent, the file is mapped: only the    *)
(* next response and Close unmap it, and neither comes while one is sent.  *)
THEOREM FileStaysMapped == Spec => []FileMapped
<1>1. Init => FileMapped
  BY DEF Init, FileMapped, Answering
<1>2. IInv /\ FileMapped /\ [Next]_vars => FileMapped'
  <2> SUFFICES ASSUME IInv, FileMapped, [Next]_vars PROVE FileMapped'
    OBVIOUS
  <2>1. CASE Process
    <3>1. CASE Head(readBuff).file > 0
      BY <2>1, <3>1 DEF Process, MakeResponse, FileMapped
    <3>2. CASE ~(Head(readBuff).file > 0)
      <4>1. iovCnt' = 1
        BY <2>1, <3>2 DEF Process
      <4> QED
        BY <4>1 DEF FileMapped
    <3> QED
      BY <3>1, <3>2
  <2>2. ASSUME NEW n \in 1 .. Room, Writev(n) PROVE FileMapped'
    <3>1. PICK a \in Nat, b \in Nat : iov = <<a, b>>
      BY DEF IInv, Lengths
    <3>2. iovCnt = 2 /\ iov'[2] > 0 => iov[2] > 0
      BY <2>2, <3>1 DEF Writev, Sent
    <3> QED
      BY <2>2, <3>2 DEF Writev, FileMapped, Answering
  <2>3. CASE Connect \/ CloseConn
    BY <2>3 DEF Connect, CloseConn, FileMapped, Answering, IInv, Served
  <2>4. ASSUME NEW r \in Requests, Send(r) PROVE FileMapped'
    BY <2>4 DEF Send, buffers, FileMapped, Answering
  <2>5. CASE Receive \/ PeerClose \/ EventIn \/ EventOut
    BY <2>5 DEF Receive, PeerClose, EventIn, EventOut, Dispatch, buffers,
                FileMapped, Answering
  <2>6. CASE Read \/ ProcessNothing
    BY <2>6 DEF Read, ProcessNothing, Rearm, FileMapped, Answering, IInv, Served
  <2>7. CASE WritevNothing \/ WritevAgain \/ WritevFails \/ WritevSignal
    BY <2>7 DEF WritevNothing, WritevAgain, WritevFails, WritevSignal, Wrote, sock,
                buffers, FileMapped, Answering
  <2>8. CASE NextRequest \/ WriteAgain \/ UNCHANGED vars
    BY <2>8 DEF NextRequest, WriteAgain, Rearm, sock, buffers, vars, FileMapped,
                Answering
  <2> QED
    BY <2>1, <2>2, <2>3, <2>4, <2>5, <2>6, <2>7, <2>8
    DEF Next, HangUp, Timeout, OnRead, ReadClosed, OnWrite, WriteClose
<1> QED
  BY <1>1, <1>2, InitIInv, NextIInv, PTL DEF Spec

(* Edge triggered, the loop of Write ends only with an error, with EAGAIN, *)
(* or with nothing left to give.                                           *)
EndOfLoop == isET /\ pc = "wrote" => \/ ret \in {"again", "error"}
                                    \/ (ret = "zero" /\ owed = 0)

(* The trigger mode is fixed.                                              *)
LEMMA ModeFixed == [Next]_vars => UNCHANGED isET
BY DEF Next, vars, Connect, Send, Receive, PeerClose, HangUp, Timeout, CloseConn,
       EventIn, EventOut, Dispatch, OnRead, Read, ReadClosed, ProcessNothing,
       Process, OnWrite, Writev, WritevNothing, WritevAgain, WritevFails,
       WritevSignal, NextRequest, WriteAgain, WriteClose

(* Every step preserves EndOfLoop.                                         *)
LEMMA EndOfLoopStep == IInv /\ EndOfLoop /\ [Next]_vars => EndOfLoop'
<1> SUFFICES ASSUME isET, IInv, EndOfLoop, [Next]_vars, pc' = "wrote"
             PROVE  EndOfLoop'
  BY ModeFixed DEF EndOfLoop
<1>1. CASE WritevNothing
  BY <1>1 DEF WritevNothing, Wrote, EndOfLoop, IInv, OwedIsGiven, Answering
<1>2. CASE WritevAgain \/ WritevFails
  BY <1>2 DEF WritevAgain, WritevFails, Wrote, EndOfLoop
<1>3. ASSUME NEW n \in 1 .. Room, Writev(n) PROVE FALSE
  BY <1>3 DEF Writev, LoopOn
<1>4. CASE UNCHANGED <<pc, ret, owed>>
  BY <1>4, ModeFixed DEF EndOfLoop
<1>5. ASSUME NEW r \in Requests, Send(r) PROVE UNCHANGED <<pc, ret, owed>>
  BY <1>5 DEF Send
<1>6. CASE Receive \/ PeerClose \/ UNCHANGED vars
  BY <1>4, <1>6 DEF Receive, PeerClose, vars
<1>7. CASE Connect \/ CloseConn \/ EventIn \/ EventOut
  BY <1>7 DEF Connect, CloseConn, EventIn, EventOut, Dispatch
<1>8. CASE Read \/ ProcessNothing \/ Process
  BY <1>8 DEF Read, ProcessNothing, Process, MakeResponse, Rearm
<1>9. CASE WritevSignal \/ NextRequest \/ WriteAgain
  BY <1>9 DEF WritevSignal, NextRequest, WriteAgain, Rearm
<1> QED
  BY <1>1, <1>2, <1>3, <1>4, <1>5, <1>6, <1>7, <1>8, <1>9
  DEF Next, HangUp, Timeout, OnRead, ReadClosed, OnWrite, WriteClose

(* Edge triggered, a response is sent in full before OnWrite closes the    *)
(* connection.                                                             *)
THEOREM EdgeSendsAll == Spec => SentBeforeClose
<1>1. Init => EndOfLoop
  BY DEF Init, EndOfLoop
<1>2. IInv /\ EndOfLoop /\ [Next]_vars =>
        [isET /\ pc = "wrote" /\ isClose' /\ ret # "error" => owed = 0]_vars
  <2> SUFFICES ASSUME IInv, EndOfLoop, Next, isET, pc = "wrote", isClose',
                      ret # "error", owed # 0
               PROVE  FALSE
    OBVIOUS
  <2>1. ret = "again" /\ ~isClose /\ owed = Given
    BY DEF EndOfLoop, IInv, Served, OwedIsGiven, Answering
  <2>2. ToWriteBytes(iov) # 0
    BY <2>1 DEF Given, ToWriteBytes, IInv, Lengths
  <2>3. ~WriteClose
    BY <2>1, <2>2 DEF WriteClose
  <2>4. ASSUME NEW n \in 1 .. Room PROVE ~Writev(n)
    BY DEF Writev
  <2>5. ASSUME NEW r \in Requests PROVE ~Send(r) \/ UNCHANGED isClose
    BY DEF Send
  <2> QED
    BY <2>1, <2>3, <2>4, <2>5
    DEF Next, Connect, Receive, PeerClose, HangUp, Timeout, EventIn, EventOut,
        Dispatch, OnRead, Read, ReadClosed, ProcessNothing, Process, OnWrite,
        WritevNothing, WritevAgain, WritevFails, WritevSignal, NextRequest,
        WriteAgain
<1> QED
  BY <1>1, <1>2, InitIInv, NextIInv, EndOfLoopStep, PTL DEF Spec, SentBeforeClose
=============================================================================
