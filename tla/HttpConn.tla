------------------------------ MODULE HttpConn ------------------------------
(***************************************************************************)
(* How one HttpConn object (http/http_conn.cc) and the three handlers of   *)
(* HttpServer that serve it read a request, make a response and write it,  *)
(* over the connections that use the object one after the other: m_users   *)
(* keeps an object for each descriptor, and descriptors are reused.        *)
(*                                                                         *)
(* One thread at a time serves a connection (theorem OneOwner of           *)
(* HttpServerProofs).  A request is what it asks for; a response is the    *)
(* number of units of its head and of its file.  A step is a system call   *)
(* with what the code does before the next one.                            *)
(***************************************************************************)
EXTENDS Naturals, Sequences

CONSTANTS
  HeadLen,    \* length of a head; the page of an error is part of it
  Files,      \* lengths of the files; 0 stands for a file that is missing
  Garbage,    \* values iov[1].iov_len may have when the object is made
  Threshold,  \* 10240 in Write
  Room,       \* room in the send buffer of an empty socket
  Lives       \* bound on the connections that use the object

ASSUME SizesAssumption == /\ HeadLen \in Nat \ {0}
                          /\ Files \subseteq Nat
                          /\ Garbage \subseteq Nat
                          /\ Threshold \in Nat
                          /\ Room \in Nat \ {0}
                          /\ Lives \in Nat

VARIABLES
  isET,       \* HttpConn::isET, which InitEventMode sets at the start
  pc,         \* what the thread that serves the connection does
  isClose,    \* m_isClose
  armed,      \* the event the descriptor is registered for: one shot
  peerOpen,   \* the client has not closed its side
  inbox,      \* requests the client has sent that are not read
  room,       \* room in the send buffer of the socket
  readBuff,   \* requests in readBuff
  writeBuff,  \* units in writeBuff
  keep,       \* request.IsKeepAlive()
  iov,        \* iov[0].iov_len and iov[1].iov_len
  iovCnt,     \* iovCnt
  mapped,     \* response.File() is mapped
  ret,        \* what Write returned, with its errno
  owed,       \* history: units of the current response not yet sent
  lives       \* history: connections that have used the object

sock == <<armed, peerOpen, inbox, room>>
buffers == <<readBuff, writeBuff, keep, iov, iovCnt, mapped>>
vars == <<isET, pc, isClose, sock, buffers, ret, owed, lives>>

Requests == [keep : BOOLEAN, file : Files]

(* The constructor leaves iov as the memory was.                           *)
Init == /\ isET \in BOOLEAN
        /\ pc = "idle"
        /\ isClose = TRUE
        /\ armed = "none"
        /\ peerOpen = FALSE
        /\ inbox = <<>>
        /\ room = Room
        /\ readBuff = <<>>
        /\ writeBuff = 0
        /\ keep = FALSE
        /\ \E g \in Garbage : iov = <<0, g>>
        /\ iovCnt = 0
        /\ mapped = FALSE
        /\ ret = "none"
        /\ owed = 0
        /\ lives = 0
-----------------------------------------------------------------------------
(* AddClient and HttpConn::Init; iov is left as it is.                     *)
Connect == /\ pc = "idle"
           /\ isClose
           /\ lives < Lives
           /\ lives' = lives + 1
           /\ isClose' = FALSE
           /\ readBuff' = <<>>
           /\ writeBuff' = 0
           /\ armed' = "in"
           /\ peerOpen' = TRUE
           /\ inbox' = <<>>
           /\ room' = Room
           /\ owed' = 0
           /\ UNCHANGED <<pc, keep, iov, iovCnt, mapped, ret, isET>>

(* The client sends a request when the last one was parsed, and may do so  *)
(* before it is answered.  (Requests in parts, and several in readBuff, are*)
(* the matter of HttpRequest.)                                             *)
Send(r) == /\ ~isClose
           /\ peerOpen
           /\ inbox = <<>> /\ readBuff = <<>>
           /\ inbox' = <<r>>
           /\ UNCHANGED <<pc, isClose, armed, peerOpen, room, buffers, ret, owed,
                          lives, isET>>

(* The client receives what was sent.                                      *)
Receive == /\ ~isClose
           /\ peerOpen
           /\ room < Room
           /\ room' = Room
           /\ UNCHANGED <<pc, isClose, armed, peerOpen, inbox, buffers, ret, owed,
                          lives, isET>>

PeerClose == /\ ~isClose
             /\ peerOpen
             /\ peerOpen' = FALSE
             /\ UNCHANGED <<pc, isClose, armed, inbox, room, buffers, ret, owed,
                            lives, isET>>
-----------------------------------------------------------------------------
UnmapFile == mapped' = FALSE

(* CloseConn and HttpConn::Close.                                          *)
CloseConn == /\ pc' = "idle"
             /\ isClose' = TRUE
             /\ armed' = "none"
             /\ UnmapFile
             /\ ret' = "none"
             /\ UNCHANGED <<peerOpen, inbox, room, readBuff, writeBuff, keep, iov,
                            iovCnt, owed, lives, isET>>

(* The main loop: an event that hangs up, or a timer.                      *)
HangUp == pc = "idle" /\ ~isClose /\ ~peerOpen /\ armed # "none" /\ CloseConn

Timeout == pc = "idle" /\ ~isClose /\ CloseConn

Dispatch(what, handler) ==
  /\ pc = "idle"
  /\ armed = what
  /\ peerOpen
  /\ pc' = handler
  /\ armed' = "none"
  /\ UNCHANGED <<isClose, peerOpen, inbox, room, buffers, ret, owed, lives, isET>>

EventIn == inbox # <<>> /\ Dispatch("in", "read")

EventOut == room > 0 /\ Dispatch("out", "write")

(* OnRead and HttpConn::Read: edge triggered, it reads until there is      *)
(* nothing more, and a client that has closed ends the connection even if  *)
(* a request was read.                                                     *)
Read == /\ pc = "read"
        /\ peerOpen \/ (~isET /\ inbox # <<>>)
        /\ readBuff' = readBuff \o inbox
        /\ inbox' = <<>>
        /\ pc' = "process"
        /\ UNCHANGED <<isClose, armed, peerOpen, room, writeBuff, keep, iov,
                       iovCnt, mapped, ret, owed, lives, isET>>

ReadClosed == /\ pc = "read"
              /\ ~peerOpen
              /\ isET \/ inbox = <<>>
              /\ CloseConn

(* ModFd, after which the task is over.                                    *)
Rearm(what) == /\ armed' = what
               /\ pc' = "idle"

(* Process without a request: request.Init has cleared the last one.       *)
ProcessNothing == /\ pc = "process"
                  /\ readBuff = <<>>
                  /\ keep' = FALSE
                  /\ Rearm("in")
                  /\ UNCHANGED <<isClose, peerOpen, inbox, room, readBuff,
                                 writeBuff, iov, iovCnt, mapped, ret, owed, lives, isET>>

(* Mutant of Process: the last file is unmapped after the next is mapped.  *)
ProcessUnmaps == /\ pc = "process"
                 /\ readBuff # <<>>
                 /\ LET r == Head(readBuff)
                    IN  /\ keep' = r.keep
                        /\ iovCnt' = IF r.file > 0 THEN 2 ELSE 1
                        /\ iov' = <<writeBuff + HeadLen,
                                    IF r.file > 0 THEN r.file ELSE iov[2]>>
                        /\ mapped' = (r.file > 0 /\ ~mapped)
                        /\ owed' = owed + HeadLen + r.file
                 /\ writeBuff' = writeBuff + HeadLen
                 /\ readBuff' = Tail(readBuff)
                 /\ Rearm("out")
                 /\ UNCHANGED <<isClose, peerOpen, inbox, room, ret, lives, isET>>

(* HttpResponse::Init and MakeResponse: the last file is unmapped, the head*)
(* is appended to writeBuff, and a file is mapped if there is one.         *)
MakeResponse(r) == /\ writeBuff' = writeBuff + HeadLen
                   /\ mapped' = (r.file > 0)

(* Process: the second iovec is set only if there is a file.               *)
Process == /\ pc = "process"
           /\ readBuff # <<>>
           /\ LET r == Head(readBuff)
              IN  /\ MakeResponse(r)
                  /\ keep' = r.keep
                  /\ iovCnt' = IF r.file > 0 THEN 2 ELSE 1
                  /\ iov' = <<writeBuff + HeadLen,
                              IF r.file > 0 THEN r.file ELSE iov[2]>>
                  /\ owed' = owed + HeadLen + r.file
           /\ readBuff' = Tail(readBuff)
           /\ Rearm("out")
           /\ UNCHANGED <<isClose, peerOpen, inbox, room, ret, lives, isET>>
-----------------------------------------------------------------------------
(* HttpConn::Write: a loop of writev.                                      *)
ToWriteBytes(v) == v[1] + v[2]

Given == IF iovCnt = 2 THEN iov[1] + iov[2] ELSE iov[1]

(* Mutant of Sent: writeBuff is not emptied when the head is sent.         *)
SentKept(n) == IF n > iov[1]
                  THEN /\ iov' = <<0, iov[2] - (n - iov[1])>>
                       /\ UNCHANGED writeBuff
                  ELSE /\ iov' = <<iov[1] - n, iov[2]>>
                       /\ writeBuff' = writeBuff - n

(* What the loop does to iov and writeBuff after writev returned n.        *)
Sent(n) == IF n > iov[1]
             THEN /\ iov' = <<0, iov[2] - (n - iov[1])>>
                  /\ writeBuff' = IF iov[1] > 0 THEN 0 ELSE writeBuff
             ELSE /\ iov' = <<iov[1] - n, iov[2]>>
                  /\ writeBuff' = writeBuff - n

Wrote(result) == /\ pc' = "wrote"
                 /\ ret' = result

(* The loop goes on: its condition is on what is left after this writev.   *)
LoopOn == isET \/ ToWriteBytes(iov') > Threshold

(* writev takes n units, and the loop goes on or ends.                     *)
Writev(n) == /\ pc = "write"
             /\ n <= Given
             /\ n <= room
             /\ room' = room - n
             /\ owed' = owed - n
             /\ Sent(n)
             /\ IF LoopOn THEN UNCHANGED <<pc, ret>> ELSE Wrote("some")
             /\ UNCHANGED <<isClose, armed, peerOpen, inbox, readBuff, keep,
                            iovCnt, mapped, lives, isET>>

(* writev is given nothing to send and returns 0.                          *)
WritevNothing == /\ pc = "write"
                 /\ Given = 0
                 /\ Wrote("zero")
                 /\ UNCHANGED <<isClose, sock, buffers, owed, lives, isET>>

WritevAgain == /\ pc = "write"
               /\ Given > 0
               /\ room = 0
               /\ Wrote("again")
               /\ UNCHANGED <<isClose, sock, buffers, owed, lives, isET>>

(* The client is gone: an error, or SIGPIPE, which the program does not    *)
(* handle and which ends the process.                                      *)
WritevFails == /\ pc = "write"
               /\ ~peerOpen
               /\ Wrote("error")
               /\ UNCHANGED <<isClose, sock, buffers, owed, lives, isET>>

WritevSignal == /\ pc = "write"
                /\ ~peerOpen
                /\ pc' = "killed"
                /\ UNCHANGED <<isClose, sock, buffers, ret, owed, lives, isET>>
-----------------------------------------------------------------------------
(* OnWrite, after Write.                                                   *)

(* Mutant of NextRequest: what is left is not looked at.                   *)
NextRequestEarly == /\ pc = "wrote"
                    /\ keep
                    /\ pc' = "process"
                    /\ ret' = "none"
                    /\ UNCHANGED <<isClose, sock, buffers, owed, lives, isET>>

NextRequest == /\ pc = "wrote"
               /\ ToWriteBytes(iov) = 0
               /\ keep
               /\ pc' = "process"
               /\ ret' = "none"
               /\ UNCHANGED <<isClose, sock, buffers, owed, lives, isET>>

(* Mutant of WriteAgain: the descriptor is not registered again.           *)
WriteAgainForgotten == /\ pc = "wrote"
                       /\ ToWriteBytes(iov) > 0
                       /\ ret = "again"
                       /\ pc' = "idle"
                       /\ ret' = "none"
                       /\ UNCHANGED <<isClose, sock, buffers, owed, lives, isET>>

WriteAgain == /\ pc = "wrote"
              /\ ToWriteBytes(iov) > 0
              /\ ret = "again"
              /\ Rearm("out")
              /\ ret' = "none"
              /\ UNCHANGED <<isClose, peerOpen, inbox, room, buffers, owed, lives, isET>>

(* Mutant of WriteClose: what is left is not looked at.                    *)
WriteCloseAlways == pc = "wrote" /\ CloseConn

WriteClose == /\ pc = "wrote"
              /\ IF ToWriteBytes(iov) = 0 THEN ~keep ELSE ret # "again"
              /\ CloseConn

OnRead == Read \/ ReadClosed \/ ProcessNothing \/ Process

OnWrite == \/ \E n \in 1 .. Room : Writev(n)
           \/ WritevNothing \/ WritevAgain \/ WritevFails \/ WritevSignal
           \/ NextRequest \/ WriteAgain \/ WriteClose

Next == \/ Connect \/ (\E r \in Requests : Send(r)) \/ Receive \/ PeerClose
        \/ HangUp \/ Timeout \/ EventIn \/ EventOut
        \/ OnRead \/ OnWrite

Spec == Init /\ [][Next]_vars

(* The main thread dispatches events, a worker runs its task to the end,   *)
(* and the client receives what it is sent.                                *)
Fairness == /\ WF_vars(EventIn) /\ WF_vars(EventOut) /\ WF_vars(HangUp)
            /\ WF_vars(OnRead) /\ WF_vars(OnWrite)
            /\ WF_vars(Receive)

FairSpec == Spec /\ Fairness
-----------------------------------------------------------------------------
Answering == armed = "out" \/ pc \in {"write", "wrote"}

(* While a response is being sent, what the code still means to send is    *)
(* what the client has not been sent, and writeBuff holds what iov[0] is   *)
(* about, whatever the lengths writev returns.                             *)
OwedIsGiven == Answering => owed = Given /\ writeBuff = iov[1]

(* A response is never made over one that is not sent: the code comes to   *)
(* Process only when it is waiting for requests or is done with the last.  *)
NothingOverwritten == pc = "process" => owed = 0 /\ writeBuff = 0

(* The part of the file that is still to be sent is mapped.                *)
FileMapped == Answering /\ iovCnt = 2 /\ iov[2] > 0 => mapped

(* OnWrite closes an edge triggered connection only when the whole         *)
(* response was sent, or the client is gone.  (Level triggered, the loop   *)
(* of Write may end with up to Threshold units left, and OnWrite closes.)  *)
SentBeforeClose ==
  [][isET /\ pc = "wrote" /\ isClose' /\ ret # "error" => owed = 0]_vars

(* OnWrite does not close a connection whose request asked to keep it and  *)
(* was answered.                                                           *)
KeepAlive == [][pc = "wrote" /\ isClose' /\ ret # "error" /\ owed = 0 => ~keep]_vars

(* A request is read, and one that was read is answered in full, unless    *)
(* the connection ends.                                                    *)
EveryRequestAnswered ==
  /\ inbox # <<>> ~> inbox = <<>> \/ isClose \/ pc = "killed"
  /\ readBuff # <<>> ~> \/ readBuff = <<>> /\ owed = 0
                        \/ isClose
                        \/ pc = "killed"
=============================================================================
