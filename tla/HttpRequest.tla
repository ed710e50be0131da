---------------------------- MODULE HttpRequest ----------------------------
(***************************************************************************)
(* The parser of http/http_request.cc on one connection: requests arrive   *)
(* as a stream of bytes that a read may cut anywhere, Process parses what  *)
(* is in readBuff line by line, and answers.                               *)
(*                                                                         *)
(* Text is cut into pieces that the regular expressions tell apart; a read *)
(* may end between any two.  How an answer is written is the matter of     *)
(* HttpConn: here it is one step.                                          *)
(***************************************************************************)
EXTENDS Naturals, SequencesExt, HttpResponse

CONSTANTS
  Bodies,      \* of "none", "line" (which CRLF ends) and "bare"
  Targets,     \* the kinds of the files requests name
  MaxRequests  \* bound on the requests of a connection

ASSUME RequestsAssumption == /\ Bodies \subseteq {"none", "line", "bare"}
                             /\ Targets \subseteq Kinds
                             /\ MaxRequests \in Nat

VARIABLES
  asked,       \* history: the requests sent
  stream,      \* pieces sent and not read
  buff,        \* pieces in readBuff
  readPos,     \* how many of them are behind its readPos
  pc,          \* where the thread that serves the connection is
  state,       \* of the parser
  path,        \* m_path: the number of the request whose path it is
  version11,   \* m_version is "1.1"
  keepHeader,  \* m_header has Connection: keep-alive
  parsed,      \* what ParseRequest returned
  answers,     \* history: the answers, with the request of each
  tidy         \* history: each read brought one request, whole

request == <<state, path, version11, keepHeader>>
vars == <<asked, stream, buff, readPos, pc, request, parsed, answers, tidy>>

Requests == [keep : BOOLEAN, body : Bodies, kind : Targets]

(* "GET /pa" and "th HTTP/1.1" of request n, "Connect", "ion: keep-alive", *)
(* the data of a body, and the two bytes of a line's end.                  *)
Target(n) == <<"target", n>>
Protocol == <<"protocol", 0>>
Name == <<"name", 0>>
Value == <<"value", 0>>
Data == <<"data", 0>>
CR == <<"CR", 0>>
LF == <<"LF", 0>>

Pieces(n, r) ==
  <<Target(n), Protocol, CR, LF>>
    \o (IF r.keep THEN <<Name, Value, CR, LF>> ELSE <<>>)
    \o <<CR, LF>>
    \o (CASE r.body = "none" -> <<>>
          [] r.body = "line" -> <<Data, CR, LF>>
          [] r.body = "bare" -> <<Data>>)

Init == /\ asked = <<>> /\ stream = <<>>
        /\ buff = <<>> /\ readPos = 0
        /\ pc = "wait"
        /\ state = "REQUEST_LINE"
        /\ path = 0 /\ version11 = FALSE /\ keepHeader = FALSE
        /\ parsed = FALSE
        /\ answers = <<>>
        /\ tidy = TRUE
-----------------------------------------------------------------------------
(* The client sends requests without waiting for answers.                  *)
Send(r) == /\ Len(asked) < MaxRequests
           /\ asked' = Append(asked, r)
           /\ stream' = stream \o Pieces(Len(asked) + 1, r)
           /\ UNCHANGED <<buff, readPos, pc, request, parsed, answers, tidy>>

(* OnRead and HttpConn::Read: n pieces have arrived.                       *)
Read(n) == /\ pc = "wait"
           /\ n <= Len(stream)
           /\ LET got == SubSeq(stream, 1, n)
                  next == Len(answers) + 1
              IN  /\ buff' = buff \o got
                  /\ tidy' = (tidy /\ readPos = Len(buff)
                                   /\ next \in DOMAIN asked
                                   /\ got = Pieces(next, asked[next]))
           /\ stream' = SubSeq(stream, n + 1, Len(stream))
           /\ pc' = "process"
           /\ UNCHANGED <<asked, readPos, request, parsed, answers>>
-----------------------------------------------------------------------------
Readable == SubSeq(buff, readPos + 1, Len(buff))

(* Mutant of Clear: m_header is not cleared.                               *)
ClearKeepsHeader == /\ state' = "REQUEST_LINE"
                    /\ path' = 0
                    /\ version11' = FALSE
                    /\ UNCHANGED keepHeader

(* HttpRequest::Init.                                                      *)
Clear == /\ state' = "REQUEST_LINE"
         /\ path' = 0
         /\ version11' = FALSE
         /\ keepHeader' = FALSE

(* Mutant of Process: OnProcess lacks its else branch.                     *)
ProcessForgotten == /\ pc = "process"
                    /\ Clear
                    /\ pc' = IF Readable = <<>> THEN "idle" ELSE "parse"
                    /\ UNCHANGED <<asked, stream, buff, readPos, parsed,
                                   answers, tidy>>

(* The start of Process; without a request, OnProcess waits for one.       *)
Process == /\ pc = "process"
           /\ Clear
           /\ pc' = IF Readable = <<>> THEN "wait" ELSE "parse"
           /\ UNCHANGED <<asked, stream, buff, readPos, parsed, answers, tidy>>

(* Where std::search finds CRLF.                                           *)
Ends == {p \in 1 .. Len(Readable) - 1 : Readable[p] = CR /\ Readable[p + 1] = LF}

LineLen == IF Ends = {} THEN Len(Readable) ELSE Min(Ends) - 1

Line == SubSeq(Readable, 1, LineLen)

(* The end of an iteration: a line that CRLF ends is retrieved with it, a  *)
(* line that ends with the buffer is not and ends the loop.                *)
Advance == IF Ends = {}
             THEN pc' = "respond" /\ parsed' = TRUE /\ UNCHANGED readPos
             ELSE readPos' = readPos + LineLen + 2 /\ UNCHANGED <<pc, parsed>>

(* The regular expression of a request line: two spaces, one in each of    *)
(* Target and Protocol, and anything else without one.                     *)
RequestLineAt(p) == /\ p + 1 \in DOMAIN Line
                    /\ Line[p][1] = "target" /\ Line[p + 1] = Protocol
                    /\ \A q \in DOMAIN Line \ {p, p + 1} :
                         Line[q] \in {Name, Data, CR, LF}

(* A line with a colon and no CR or LF behind it.                          *)
IsHeader == Line # <<>> /\ Last(Line) = Value

InLoop(at) == /\ pc = "parse"
              /\ Readable # <<>>
              /\ state = at
              /\ UNCHANGED <<asked, stream, buff, answers, tidy>>

ParseRequestLine == /\ InLoop("REQUEST_LINE")
                    /\ \E p \in DOMAIN Line :
                         /\ RequestLineAt(p)
                         /\ path' = Line[p][2]
                         /\ version11' = (p + 1 = Len(Line))
                    /\ state' = "HEADERS"
                    /\ Advance
                    /\ UNCHANGED keepHeader

BadRequestLine == /\ InLoop("REQUEST_LINE")
                  /\ ~ \E p \in DOMAIN Line : RequestLineAt(p)
                  /\ pc' = "respond"
                  /\ parsed' = FALSE
                  /\ UNCHANGED <<readPos, request>>

(* Mutant of AtMostTwo: the test comes after the line is retrieved.        *)
AtMostTwoBehind == Len(Readable) - LineLen - 2 <= 2

(* ReadableBytes() <= 2: pieces other than CR and LF are longer.           *)
AtMostTwo == Len(Readable) <= 2 /\ Range(Readable) \subseteq {CR, LF}

ParseHeader == /\ InLoop("HEADERS")
               /\ keepHeader' = (keepHeader \/ Line = <<Name, Value>>)
               /\ state' = CASE AtMostTwo -> "FINISH"
                             [] ~AtMostTwo /\ IsHeader -> "HEADERS"
                             [] OTHER -> "BODY"
               /\ Advance
               /\ UNCHANGED <<path, version11>>

ParseBody == /\ InLoop("BODY")
             /\ state' = "FINISH"
             /\ Advance
             /\ UNCHANGED <<path, version11, keepHeader>>

EndOfLoop == /\ pc = "parse"
             /\ Readable = <<>> \/ state = "FINISH"
             /\ pc' = "respond"
             /\ parsed' = TRUE
             /\ UNCHANGED <<asked, stream, buff, readPos, request, answers, tidy>>
-----------------------------------------------------------------------------
IsKeepAlive == keepHeader /\ version11

(* The rest of Process.  Without a request line the path is empty and      *)
(* names the directory of the files.                                       *)
Responses == IF parsed THEN MakeResponse(200, IsKeepAlive, asked[path].kind)
                       ELSE MakeResponse(400, FALSE, "directory")

Respond == /\ pc = "respond"
           /\ \E r \in Responses :
                IF r.content = "fault"
                  THEN pc' = "killed" /\ UNCHANGED answers
                  ELSE /\ pc' = "sent"
                       /\ answers' = Append(answers, [to |-> path, response |-> r])
           /\ UNCHANGED <<asked, stream, buff, readPos, request, parsed, tidy>>

(* OnWrite, when the response was sent.                                    *)
AfterWrite == /\ pc = "sent"
              /\ pc' = IF IsKeepAlive THEN "process" ELSE "closed"
              /\ UNCHANGED <<asked, stream, buff, readPos, request, parsed,
                             answers, tidy>>

ParseRequest == \/ ParseRequestLine \/ BadRequestLine \/ ParseHeader \/ ParseBody
                \/ EndOfLoop

Serve == \/ \E n \in 1 .. Len(stream) : Read(n)
         \/ Process \/ ParseRequest \/ Respond \/ AfterWrite

Next == (\E r \in Requests : Send(r)) \/ Serve

Spec == Init /\ [][Next]_vars

(* The thread goes on, and what was sent arrives.                          *)
FairSpec == Spec /\ WF_vars(Serve)
-----------------------------------------------------------------------------
(* However reads cut the stream, and whatever is left of a request that    *)
(* was answered before all of it had come: no request is answered twice or *)
(* out of order, and none is kept alive that did not ask for it.  What is  *)
(* not understood is answered, if at all, with an error that is the last.  *)
AnswersAreAsked ==
  \A i \in DOMAIN answers :
    LET a == answers[i]
    IN  \/ /\ a.to \in DOMAIN asked
           /\ a.response.keep => asked[a.to].keep
           /\ \A j \in 1 .. i - 1 : answers[j].to < a.to
        \/ /\ a.to = 0
           /\ i = Len(answers)
           /\ a.response.code # 200 /\ ~a.response.keep

Answered(i) == /\ answers[i].to = i
               /\ answers[i].response \in MakeResponse(200, asked[i].keep, asked[i].kind)

(* When each read brings one whole request, and no body ends without CRLF, *)
(* each is answered in its turn, with the code of its file, kept as it asks*)
(* for, and nothing of it is left in readBuff.  If the process ends then   *)
(* for the file of the next request, which is there and cannot be mapped,  *)
(* and never because a request was not understood.                         *)
WholeRequestsServed ==
  tidy /\ (\A i \in DOMAIN asked : asked[i].body # "bare")
    => /\ \A i \in DOMAIN answers : Answered(i)
       /\ pc \in {"wait", "sent"} => readPos = Len(buff)
       /\ pc = "killed" => path = Len(answers) + 1 /\ asked[path].kind # "missing"

(* What the client sends is read, unless the connection ends: parsing      *)
(* always comes to an end.                                                 *)
AllIsRead == stream # <<>> ~> stream = <<>> \/ pc \in {"closed", "killed"}
=============================================================================
