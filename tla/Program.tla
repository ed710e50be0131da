------------------------------ MODULE Program ------------------------------
(***************************************************************************)
(* The program from main to its end: the constructor of HttpServer with    *)
(* InitSocket, each system call of which may fail, the opening of the log, *)
(* the loop, the destructor of HttpServer and, after main, that of Log.    *)
(*                                                                         *)
(* The log is that of Log.  In the loop, the matter of HttpServer, the     *)
(* threads do nothing here but write lines.                                *)
(***************************************************************************)
EXTENDS Log, Integers

CONSTANTS
  Ports,       \* the ports the server may be given
  InfoLines    \* lines that main writes when the server was initialised

ASSUME PortsAssumption == Ports \subseteq Nat /\ InfoLines \in Nat \ {0}
ASSUME FdsAssumption == Fds \subseteq Nat \ {0} /\ IsFiniteSet(Fds) /\ Cardinality(Fds) >= 3

VARIABLES
  pc,            \* where main is
  port,          \* m_port
  listenFd,
  setUp,         \* the tested calls that succeeded for the listening socket
  serverIsClose  \* HttpServer::isClose

serverVars == <<pc, port, listenFd, setUp, serverIsClose>>
programVars == <<dequeVars, logVars, serverVars>>

NoFd == -1

(* The calls for the listening socket whose result InitSocket looks at.    *)
SocketCalls == {"linger", "reuseaddr", "bind", "listen", "add"}

(* listenFd has no initialiser.                                            *)
ProgramInit == /\ LogInit
               /\ pc = "port"
               /\ port \in Ports
               /\ listenFd \in Fds \cup {NoFd}
               /\ setUp = {}
               /\ serverIsClose = FALSE
-----------------------------------------------------------------------------
(* InitSocket.  What it logs is dropped: the log is not open yet.          *)
GoTo(here, there) == pc = here /\ pc' = there

InitSocketFails == serverIsClose' = TRUE /\ pc' = "openlog"

BadPort == port > 65535 \/ port < 1024

CheckPort == /\ pc = "port"
             /\ IF BadPort
                  THEN InitSocketFails
                  ELSE pc' = "socket" /\ UNCHANGED serverIsClose
             /\ UNCHANGED <<dequeVars, logVars, port, listenFd, setUp>>

Socket == /\ GoTo("socket", "linger")
          /\ listenFd' = Min(Unused)
          /\ files' = With("socket")
          /\ UNCHANGED <<port, setUp, serverIsClose>>

SocketFails == /\ pc = "socket"
               /\ InitSocketFails
               /\ listenFd' = NoFd
               /\ UNCHANGED <<files, port, setUp>>

(* setsockopt, bind, listen, AddFd                                         *)
Configure(here, there) == /\ GoTo(here, there)
                          /\ setUp' = setUp \cup {here}
                          /\ UNCHANGED <<files, port, listenFd, serverIsClose>>

(* Mutant of ConfigureFails: the socket is left open.                      *)
ConfigureFailsOpen(here) == /\ pc = here
                            /\ InitSocketFails
                            /\ UNCHANGED <<files, port, listenFd, setUp>>

(* listenFd keeps the number of the descriptor that is closed.             *)
ConfigureFails(here) == /\ pc = here
                        /\ files' = Without("socket")
                        /\ InitSocketFails
                        /\ UNCHANGED <<port, listenFd, setUp>>

(* fcntl may succeed or fail, and nothing looks at the result: one step    *)
(* for both, after which the socket may be blocking or not.                *)
SetFdNonblock == /\ GoTo("nonblock", "openlog")
                 /\ UNCHANGED <<files, port, listenFd, setUp, serverIsClose>>

InitSocket ==
  /\ \/ Socket \/ SocketFails
     \/ Configure("linger", "reuseaddr") \/ Configure("reuseaddr", "bind")
     \/ Configure("bind", "listen") \/ Configure("listen", "add")
     \/ Configure("add", "nonblock")
     \/ \E call \in SocketCalls : ConfigureFails(call)
     \/ SetFdNonblock
  /\ UNCHANGED <<dequeVars, isAsync, mtx, at, lineVars, clockVars, nameVars, fp,
                 diskVars>>
-----------------------------------------------------------------------------
(* The rest of the constructor, and Start as far as it logs: one line of   *)
(* an error, or a few.                                                     *)
Reports == IF serverIsClose THEN 1 ELSE InfoLines

InitLog == /\ GoTo("openlog", "report")
           /\ \E success \in BOOLEAN : OpenLog(success)
           /\ UNCHANGED <<port, listenFd, setUp, serverIsClose>>

Report == /\ pc = "report"
          /\ counted < Reports
          /\ Begin(Main)
          /\ UNCHANGED serverVars

(* Start does not enter its loop when the server is closed.                *)
Start == /\ GoTo("report", IF serverIsClose THEN "leave" ELSE "loop")
         /\ at[Main] = "idle" /\ counted = Reports
         /\ UNCHANGED <<dequeVars, logVars, port, listenFd, setUp, serverIsClose>>

Loop == /\ pc = "loop"
        /\ \E w \in Producers : Begin(w)
        /\ UNCHANGED serverVars

(* ~HttpServer closes listenFd, whatever it is.                            *)
CloseListenFd == {listenFd}

CloseEpollFd == {f \in Fds : files[f] = "epoll"}

(* ~HttpServer, and ~Epoller of its member.                                *)
DestroyServer ==
  /\ GoTo("leave", "exit")
  /\ files' = [f \in Fds |-> IF f \in CloseListenFd \cup CloseEpollFd THEN "free"
                                                                     ELSE files[f]]
  /\ UNCHANGED <<dequeVars, isAsync, mtx, at, lineVars, clockVars, nameVars, fp,
                 diskVars, port, listenFd, setUp, serverIsClose>>

Exit == /\ pc = "exit"
        /\ Destroy
        /\ UNCHANGED serverVars

ProgramNext == \/ CheckPort \/ InitSocket \/ InitLog \/ Report \/ Start \/ Loop
               \/ DestroyServer \/ Exit
               \/ LogStep /\ UNCHANGED serverVars

ProgramSpec == ProgramInit /\ [][ProgramNext]_programVars

(* Every thread is scheduled.  Nobody has to begin to write a line.        *)
ProgramFairness ==
  /\ \A w \in Producers : WF_programVars(Write(w) /\ UNCHANGED serverVars)
  /\ WF_programVars(AsyncWrite /\ UNCHANGED serverVars)
  /\ WF_programVars(Destructor /\ UNCHANGED serverVars)

ProgramFairSpec == ProgramSpec /\ ProgramFairness
-----------------------------------------------------------------------------
ProgramTypeOK == /\ LogTypeOK
                 /\ port \in Ports
                 /\ listenFd \in Fds \cup {NoFd}
                 /\ setUp \subseteq SocketCalls
                 /\ serverIsClose \in BOOLEAN

(* Whichever call of InitSocket fails whose result is looked at, which is  *)
(* all but SetFdNonblock: the loop is entered with a socket for which they *)
(* all succeeded, or not at all, and then none is open.                    *)
AllOrNothing ==
  IF serverIsClose
    THEN pc # "loop" /\ \A f \in Fds : files[f] # "socket"
    ELSE pc \in {"openlog", "report", "loop"} =>
           listenFd \in Fds /\ files[listenFd] = "socket" /\ SocketCalls \subseteq setUp

(* The loop only ends by the process being killed, while it writes lines.  *)
(* What is lost then is at most what the deque and the flusher can hold,   *)
(* since nobody flushes the lines of the flusher, and one line for each    *)
(* thread that has not come to the end of LOG_BASE; a flush that runs into *)
(* the change of file leaves no more behind.  A program that ends by       *)
(* itself, because of an error, loses nothing, unless listenFd names a     *)
(* descriptor: then it may be the log's that ~HttpServer has closed.       *)
Unfinished == {w \in Producers : at[w] \in {"push", "fputs", "flush", "fflush", "killed"}}

BoundedLoss ==
  counted - flushed <= IF at[Main] = "end" /\ listenFd = NoFd
                         THEN 0
                         ELSE Capacity + 1 + Cardinality(Unfinished)
=============================================================================
