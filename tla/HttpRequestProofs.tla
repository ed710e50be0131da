------------------------- MODULE HttpRequestProofs -------------------------
(***************************************************************************)
(* The safety properties of HttpRequest, for every set of requests and any *)
(* number of them.                                                         *)
(*                                                                         *)
(* All is what the client has sent.  IInv says which requests it is made   *)
(* of (Kept), that the parser is behind the request line of the request    *)
(* whose path it has (Phase), and that everything that is answered is      *)
(* behind readPos when the next answer begins (Order).  Tidied, for reads  *)
(* that bring one whole request each, is where in that request the parser  *)
(* is in each of its states.                                               *)
(***************************************************************************)
EXTENDS HttpRequest, SequenceTheorems, WellFoundedInduction, TLAPS

Token == {"target", "protocol", "name", "value", "data", "CR", "LF"} \X Nat

Answer == [to : Nat,
           response : [code : Nat, keep : BOOLEAN,
                       content : {"error", "file"}]]

Typed ==
  /\ asked \in Seq(Requests)
  /\ stream \in Seq(Token) /\ buff \in Seq(Token)
  /\ readPos \in 0 .. Len(buff)
  /\ pc \in {"wait", "process", "parse", "respond", "sent", "closed", "killed"}
  /\ state \in {"REQUEST_LINE", "HEADERS", "BODY", "FINISH"}
  /\ path \in Nat
  /\ version11 \in BOOLEAN /\ keepHeader \in BOOLEAN /\ parsed \in BOOLEAN
  /\ answers \in Seq(Answer)
  /\ tidy \in BOOLEAN

All == buff \o stream

IsTarget(x) == x[1] = "target"

(* The requests of a stream are numbered in their order, and only one that *)
(* asks to be kept alive has the header.                                   *)
Kept(s, a) ==
  /\ \A p \in 1 .. Len(s) : IsTarget(s[p]) => s[p][2] \in 1 .. Len(a)
  /\ \A p, q \in 1 .. Len(s) :
       p < q /\ IsTarget(s[p]) /\ IsTarget(s[q]) => s[p][2] < s[q][2]
  /\ \A p \in 1 .. Len(s) : s[p] = Value => p > 1 /\ s[p - 1] = Name
  /\ \A p \in 1 .. Len(s) : s[p] = Name => p > 2 /\ s[p - 1] = LF /\ s[p - 2] = CR
  /\ \A p, q \in 1 .. Len(s) :
       /\ q < p /\ s[p] = Name /\ IsTarget(s[q])
       /\ \A i \in q + 1 .. p : ~IsTarget(s[i])
       => a[s[q][2]].keep

(* The requests of a stream that begin behind place k come after number n. *)
Beyond(s, k, n) == \A p \in k + 1 .. Len(s) : IsTarget(s[p]) => s[p][2] > n

Busy == pc \in {"parse", "respond", "sent"}

Phase ==
  /\ Busy /\ state = "REQUEST_LINE"
       => path = 0 /\ ~keepHeader /\ (pc \in {"respond", "sent"} => ~parsed)
  /\ pc = "parse" /\ state = "REQUEST_LINE" => readPos < Len(buff)
  /\ Busy /\ state # "REQUEST_LINE" => path \in 1 .. Len(asked)
  /\ Busy /\ keepHeader => asked[path].keep /\ Beyond(All, readPos, path)
  /\ pc = "parse" /\ state # "REQUEST_LINE" => Beyond(All, readPos, path)
  /\ pc = "parse" /\ state = "HEADERS" =>
       \E q \in 1 .. readPos :
         All[q] = Target(path) /\ \A p \in q + 1 .. readPos : ~IsTarget(All[p])

Order ==
  \A i \in 1 .. Len(answers) :
    /\ pc \in {"wait", "process"} \/ (pc = "parse" /\ state = "REQUEST_LINE")
         => Beyond(All, readPos, answers[i].to)
    /\ pc \in {"parse", "respond"} /\ state # "REQUEST_LINE" => answers[i].to < path
    /\ pc = "sent" /\ state # "REQUEST_LINE" => answers[i].to <= path
    /\ answers[i].to = 0 => pc \in {"sent", "closed"} /\ state = "REQUEST_LINE"

IInv == Typed /\ Kept(All, asked) /\ Phase /\ Order /\ AnswersAreAsked

(* Where the blank line of request r begins, and how long its body is.     *)
Blank(r) == IF r.keep THEN 8 ELSE 4
Body(r) == IF r.body = "line" THEN 3 ELSE 0

Now == Len(answers) + 1

(* The last request read is the next to answer, and is all in readBuff.    *)
Base == Len(buff) - Len(Pieces(Now, asked[Now]))

Whole ==
  /\ Now \in 1 .. Len(asked)
  /\ Base \in Nat
  /\ \A p \in 1 .. Len(Pieces(Now, asked[Now])) :
       buff[Base + p] = Pieces(Now, asked[Now])[p]

Parsing(r) ==
  \/ state = "REQUEST_LINE" /\ readPos = Base
  \/ /\ path = Now /\ version11
     /\ \/ state = "HEADERS" /\ readPos = Base + 4 /\ ~keepHeader /\ r.keep
        \/ state = "HEADERS" /\ readPos = Base + Blank(r) /\ keepHeader = r.keep
        \/ /\ state = "BODY" /\ readPos = Base + Blank(r) + 2 /\ keepHeader = r.keep
           /\ r.body = "line"
        \/ state = "FINISH" /\ readPos = Len(buff) /\ keepHeader = r.keep

NoBare == \A i \in 1 .. Len(asked) : asked[i].body # "bare"

Tidied ==
  tidy /\ NoBare =>
    /\ \A i \in 1 .. Len(answers) : Answered(i)
    /\ pc \in {"wait", "sent"} => readPos = Len(buff)
    /\ pc = "process" /\ readPos < Len(buff) => Whole /\ readPos = Base
    /\ pc = "parse" => Whole /\ Parsing(asked[Now])
    /\ pc = "respond" =>
         /\ Now \in 1 .. Len(asked) /\ path = Now /\ version11
         /\ keepHeader = asked[Now].keep
         /\ parsed /\ readPos = Len(buff)
    /\ pc = "killed" =>
         Now \in 1 .. Len(asked) /\ path = Now /\ asked[Now].kind # "missing"
-----------------------------------------------------------------------------
(* Min picks an element of a set of numbers.                               *)
LEMMA Least ==
  ASSUME NEW S \in SUBSET Nat, S # {}
  PROVE  Min(S) \in S /\ \A x \in S : Min(S) <= x
<1> DEFINE R == OpToRel(<, Nat)
<1>1. IsWellFoundedOn(R, Nat)
  BY NatLessThanWellFounded
<1>2. \A x, y \in Nat : x < y => <<x, y>> \in R
  BY DEF OpToRel
<1> HIDE DEF R
<1>3. PICK x \in S : \A y \in S : ~(<<y, x>> \in R)
  BY <1>1, WFMin
<1>4. ASSUME NEW y \in S PROVE x <= y
  <2>1. x \in Nat /\ y \in Nat
    OBVIOUS
  <2>2. ~(y < x)
    BY <1>2, <1>3, <2>1, Zenon
  <2> QED
    BY <2>1, <2>2
<1> QED
  BY <1>4 DEF Min

(* The pieces of a request, by their places.                               *)
LEMMA PiecesAt ==
  ASSUME NEW n \in Nat, NEW r \in Requests
  PROVE  LET t == Pieces(n, r)
         IN  /\ t \in Seq(Token)
             /\ Len(t) \in Blank(r) + 2 .. Blank(r) + 5
             /\ r.body # "bare" => Len(t) = Blank(r) + 2 + Body(r)
             /\ t[1] = Target(n) /\ t[2] = Protocol /\ t[3] = CR /\ t[4] = LF
             /\ r.keep => t[5] = Name /\ t[6] = Value /\ t[7] = CR /\ t[8] = LF
             /\ t[Blank(r) + 1] = CR /\ t[Blank(r) + 2] = LF
             /\ \A p \in Blank(r) + 3 .. Len(t) : t[p] \in {Data, CR, LF}
             /\ r.body = "line" => /\ t[Blank(r) + 3] = Data
                                   /\ t[Blank(r) + 4] = CR /\ t[Blank(r) + 5] = LF
<1> USE DEF Pieces, Blank, Body, Target, Protocol, Name, Value, Data, CR, LF, Token
<1>0. r.body \in {"none", "line", "bare"} /\ r.keep \in BOOLEAN
  BY RequestsAssumption DEF Requests
<1>1. CASE r.keep /\ r.body = "none"
  BY <1>1
<1>2. CASE r.keep /\ r.body = "line"
  BY <1>2
<1>3. CASE r.keep /\ r.body = "bare"
  BY <1>3
<1>4. CASE ~r.keep /\ r.body = "none"
  BY <1>4
<1>5. CASE ~r.keep /\ r.body = "line"
  BY <1>5
<1>6. CASE ~r.keep /\ r.body = "bare"
  BY <1>6
<1> QED
  BY <1>0, <1>1, <1>2, <1>3, <1>4, <1>5, <1>6

(* Only its first piece is a target, and only the header has a name.       *)
LEMMA PiecesKinds ==
  ASSUME NEW n \in Nat, NEW r \in Requests
  PROVE  LET t == Pieces(n, r)
         IN  /\ \A p \in 2 .. Len(t) : ~IsTarget(t[p])
             /\ \A p \in 1 .. Len(t) : t[p] = Name => p = 5 /\ r.keep
             /\ \A p \in 1 .. Len(t) : t[p] = Value => p = 6 /\ r.keep
<1> USE DEF Pieces, Target, Protocol, Name, Value, Data, CR, LF, IsTarget
<1>0. r.body \in {"none", "line", "bare"} /\ r.keep \in BOOLEAN
  BY RequestsAssumption DEF Requests
<1>1. CASE r.keep /\ r.body = "none"
  BY <1>1
<1>2. CASE r.keep /\ r.body = "line"
  BY <1>2
<1>3. CASE r.keep /\ r.body = "bare"
  BY <1>3
<1>4. CASE ~r.keep /\ r.body = "none"
  BY <1>4
<1>5. CASE ~r.keep /\ r.body = "line"
  BY <1>5
<1>6. CASE ~r.keep /\ r.body = "bare"
  BY <1>6
<1> QED
  BY <1>0, <1>1, <1>2, <1>3, <1>4, <1>5, <1>6

LEMMA Regroup ==
  ASSUME NEW s \in Seq(Token), NEW t \in Seq(Token), NEW u \in Seq(Token)
  PROVE  (s \o t) \o u = s \o (t \o u)
BY ConcatAssociative, SMTT(30)

(* What the parser looks at when it looks for the end of a line.           *)
LEMMA Lines ==
  ASSUME Typed
  PROVE  /\ Len(Readable) = Len(buff) - readPos
         /\ \A p \in 1 .. Len(Readable) : Readable[p] = buff[readPos + p]
         /\ LineLen \in 0 .. Len(Readable)
         /\ Line \in Seq(Token) /\ Len(Line) = LineLen
         /\ \A p \in 1 .. LineLen : Line[p] = buff[readPos + p]
         /\ Ends # {} => /\ LineLen + 2 <= Len(Readable)
                         /\ buff[readPos + LineLen + 1] = CR
                         /\ buff[readPos + LineLen + 2] = LF
         /\ \A p \in 1 .. LineLen :
              p < Len(Readable) => ~(buff[readPos + p] = CR /\ buff[readPos + p + 1] = LF)
<1>0. readPos \in Nat /\ Len(buff) \in Nat
  BY DEF Typed
<1>1. /\ Readable \in Seq(Token) /\ Len(Readable) \in Nat
      /\ Len(Readable) = Len(buff) - readPos
      /\ \A p \in 1 .. Len(Readable) : Readable[p] = buff[readPos + p]
  BY DEF Readable, Typed
<1>2. Ends \in SUBSET Nat
  BY <1>1 DEF Ends
<1>3. CASE Ends = {}
  <2>1. LineLen = Len(Readable)
    BY <1>3 DEF LineLen
  <2>2. /\ Line \in Seq(Token) /\ Len(Line) = LineLen
        /\ \A p \in 1 .. LineLen : Line[p] = Readable[p]
    BY <1>1, <2>1 DEF Line
  <2>3. ASSUME NEW p \in 1 .. LineLen, p < Len(Readable)
        PROVE  ~(buff[readPos + p] = CR /\ buff[readPos + p + 1] = LF)
    <3>1. p \notin Ends
      BY <1>3
    <3> QED
      <4>1. p \in 1 .. Len(Readable) - 1 /\ p \in Nat
        BY <1>1, <2>1, <2>3
      <4>2. /\ Readable[p] = buff[readPos + p]
            /\ Readable[p + 1] = buff[readPos + (p + 1)]
        BY <1>1, <4>1
      <4>3. readPos + (p + 1) = readPos + p + 1
        BY <1>0, <4>1
      <4> QED
        BY <3>1, <4>1, <4>2, <4>3 DEF Ends
  <2>4. LineLen \in 0 .. Len(Readable)
    BY <1>1, <2>1
  <2>5. \A p \in 1 .. LineLen : Line[p] = buff[readPos + p]
    BY <1>1, <2>1, <2>2
  <2> QED
    BY <1>1, <1>3, <2>2, <2>3, <2>4, <2>5
<1>4. CASE Ends # {}
  <2>1. Min(Ends) \in Ends /\ \A x \in Ends : Min(Ends) <= x
    BY <1>2, <1>4, Least
  <2>2. LineLen = Min(Ends) - 1
    BY <1>4 DEF LineLen
  <2>3. LineLen \in 0 .. Len(Readable) /\ LineLen + 2 <= Len(Readable)
    BY <1>1, <2>1, <2>2 DEF Ends
  <2>4. /\ Line \in Seq(Token) /\ Len(Line) = LineLen
        /\ \A p \in 1 .. LineLen : Line[p] = Readable[p]
    BY <1>1, <2>3 DEF Line
  <2>5. buff[readPos + LineLen + 1] = CR /\ buff[readPos + LineLen + 2] = LF
    <3>1. Readable[LineLen + 1] = CR /\ Readable[LineLen + 2] = LF
      BY <1>1, <2>1, <2>2, <2>3 DEF Ends
    <3>2. LineLen + 1 \in 1 .. Len(Readable) /\ LineLen + 2 \in 1 .. Len(Readable)
      BY <1>1, <2>3
    <3>3. /\ Readable[LineLen + 1] = buff[readPos + (LineLen + 1)]
          /\ Readable[LineLen + 2] = buff[readPos + (LineLen + 2)]
      BY <1>1, <3>2
    <3> QED
      BY <2>3, <3>1, <3>3 DEF Typed
  <2>6. ASSUME NEW p \in 1 .. LineLen, p < Len(Readable)
        PROVE  ~(buff[readPos + p] = CR /\ buff[readPos + p + 1] = LF)
    <3>0. p \in Nat /\ p < LineLen + 1 /\ p \in 1 .. Len(Readable) - 1
      BY <1>1, <2>3, <2>6
    <3>1. p \notin Ends
      <4>1. Min(Ends) \in Nat
        BY <1>2, <2>1
      <4>2. p < Min(Ends)
        BY <1>1, <2>2, <2>3, <3>0, <4>1
      <4> QED
        BY <2>1, <3>0, <4>1, <4>2
    <3>2. /\ Readable[p] = buff[readPos + p]
          /\ Readable[p + 1] = buff[readPos + (p + 1)]
      BY <1>1, <3>0
    <3>3. readPos + (p + 1) = readPos + p + 1
      BY <1>0, <3>0
    <3> QED
      BY <3>0, <3>1, <3>2, <3>3 DEF Ends
  <2> QED
    <3>1. \A p \in 1 .. LineLen : Line[p] = buff[readPos + p]
      BY <1>1, <2>3, <2>4
    <3> QED
      BY <1>1, <2>3, <2>4, <2>5, <2>6, <3>1
<1> QED
  BY <1>3, <1>4

(* The line ends where its first CRLF is.                                  *)
LEMMA LineEnds ==
  ASSUME Typed, NEW k \in Nat, readPos + k + 2 <= Len(buff),
         buff[readPos + k + 1] = CR, buff[readPos + k + 2] = LF,
         \A p \in 1 .. k : buff[readPos + p] # CR
  PROVE  Ends # {} /\ LineLen = k
<1>0. readPos \in Nat /\ Len(buff) \in Nat
  BY DEF Typed
<1>1. /\ Len(Readable) = Len(buff) - readPos
      /\ \A p \in 1 .. Len(Readable) : Readable[p] = buff[readPos + p]
      /\ LineLen \in 0 .. Len(Readable)
      /\ Ends # {} => buff[readPos + LineLen + 1] = CR
      /\ \A p \in 1 .. LineLen :
           p < Len(Readable) => ~(buff[readPos + p] = CR /\ buff[readPos + p + 1] = LF)
  BY Lines
<1>a. Len(Readable) \in Nat /\ LineLen \in Nat /\ k + 2 <= Len(Readable)
  BY <1>0, <1>1
<1>b. /\ readPos + (k + 1) = readPos + k + 1
      /\ readPos + (k + 2) = readPos + k + 2
      /\ readPos + (k + 1) + 1 = readPos + k + 2
      /\ k + 1 \in 1 .. Len(Readable) /\ k + 2 \in 1 .. Len(Readable)
      /\ k + 1 \in 1 .. Len(Readable) - 1 /\ (k + 1) + 1 = k + 2
  BY <1>0, <1>a
<1>2. k + 1 \in Ends
  <2>1. Readable[k + 1] = CR /\ Readable[k + 2] = LF
    BY <1>1, <1>b
  <2> QED
    BY <1>b, <2>1 DEF Ends
<1>3. ~(k + 1 \in 1 .. LineLen)
  <2>1. k + 1 < Len(Readable)
    BY <1>a
  <2> QED
    BY <1>1, <1>b, <2>1
<1>4. ~(LineLen < k)
  <2>1. ~(LineLen + 1 \in 1 .. k)
    <3>1. buff[readPos + (LineLen + 1)] = CR
      <4>1. readPos + (LineLen + 1) = readPos + LineLen + 1
        BY <1>0, <1>a
      <4> QED
        BY <1>1, <1>2, <4>1
    <3> QED
      BY <3>1
  <2> QED
    BY <1>a, <2>1
<1> QED
  BY <1>a, <1>2, <1>3, <1>4
-----------------------------------------------------------------------------
(* What Advance does to what is typed, and to readPos.                     *)
LEMMA Advanced ==
  ASSUME Typed, Advance, UNCHANGED buff
  PROVE  /\ readPos' \in readPos .. Len(buff)
         /\ pc' \in {pc, "respond"} /\ parsed' \in BOOLEAN
         /\ Ends # {} => readPos' = readPos + LineLen + 2 /\ pc' = pc /\ parsed' = parsed
         /\ Ends = {} => readPos' = readPos /\ pc' = "respond" /\ parsed' = TRUE
<1>1. /\ Len(Readable) = Len(buff) - readPos
      /\ LineLen \in 0 .. Len(Readable)
      /\ Ends # {} => LineLen + 2 <= Len(Readable)
  BY Lines
<1>2. readPos \in Nat /\ Len(buff) \in Nat /\ readPos <= Len(buff) /\ parsed \in BOOLEAN
  BY DEF Typed
<1>3. CASE Ends = {}
  BY <1>2, <1>3 DEF Advance
<1>4. CASE Ends # {}
  <2>1. readPos' = readPos + LineLen + 2 /\ UNCHANGED <<pc, parsed>>
    BY <1>4 DEF Advance
  <2>2. readPos + LineLen + 2 \in readPos .. Len(buff)
    BY <1>1, <1>2, <1>4
  <2> QED
    BY <1>2, <1>4, <2>1, <2>2
<1> QED
  BY <1>3, <1>4

LEMMA Answering ==
  ASSUME Typed, NEW r \in Responses, r.content # "fault"
  PROVE  r \in [code : Nat, keep : BOOLEAN, content : {"error", "file"}]
<1>1. \A k : Contents(k) \subseteq {"error", "file", "fault"}
  BY DEF Contents
<1>2. \A c \in Nat : \A k : ResCode(c, k) \in Nat
  BY DEF ResCode
<1>3. \E c \in Nat, b \in BOOLEAN : \E k : r \in MakeResponse(c, b, k)
  <2>1. IsKeepAlive \in BOOLEAN
    BY DEF IsKeepAlive, Typed
  <2>2. r \in MakeResponse(200, IsKeepAlive, asked[path].kind)
        \/ r \in MakeResponse(400, FALSE, "directory")
    BY DEF Responses
  <2>3. CASE r \in MakeResponse(200, IsKeepAlive, asked[path].kind)
    <3>1. 200 \in Nat
      OBVIOUS
    <3> QED
      BY <2>1, <2>3, <3>1, Zenon
  <2>4. CASE r \in MakeResponse(400, FALSE, "directory")
    <3>1. 400 \in Nat /\ FALSE \in BOOLEAN
      OBVIOUS
    <3> QED
      BY <2>4, <3>1, Zenon
  <2> QED
    BY <2>2, <2>3, <2>4
<1> QED
  BY <1>1, <1>2, <1>3 DEF MakeResponse

LEMMA TypedStep == Typed /\ [Next]_vars => Typed'
<1> SUFFICES ASSUME Typed, [Next]_vars PROVE Typed'
  OBVIOUS
<1>0. Advance /\ buff' = buff
        => readPos' \in 0 .. Len(buff) /\ pc' \in {pc, "respond"} /\ parsed' \in BOOLEAN
  <2>1. ASSUME Advance, buff' = buff
        PROVE  readPos' \in readPos .. Len(buff) /\ pc' \in {pc, "respond"} /\ parsed' \in BOOLEAN
    BY <2>1, Advanced
  <2>2. readPos \in Nat /\ Len(buff) \in Nat
    BY DEF Typed
  <2> QED
    BY <2>1, <2>2
<1> USE DEF Typed
<1>1. ASSUME NEW r \in Requests, Send(r) PROVE Typed'
  <2>1. Pieces(Len(asked) + 1, r) \in Seq(Token)
    BY <1>1, PiecesAt
  <2> QED
    BY <1>1, <2>1 DEF Send, request
<1>2. ASSUME NEW n \in 1 .. Len(stream), Read(n) PROVE Typed'
  <2>1. SubSeq(stream, 1, n) \in Seq(Token) /\ SubSeq(stream, n + 1, Len(stream)) \in Seq(Token)
    BY <1>2
  <2>2. buff' \in Seq(Token) /\ Len(buff') >= Len(buff)
    BY <1>2, <2>1 DEF Read
  <2> QED
    BY <1>2, <2>1, <2>2 DEF Read, request
<1>3. CASE Process
  BY <1>3 DEF Process, Clear
<1>4. CASE ParseRequestLine
  <2>1. /\ pc = "parse" /\ Advance /\ UNCHANGED <<asked, stream, buff, answers, tidy>>
        /\ state' = "HEADERS" /\ UNCHANGED keepHeader
    BY <1>4 DEF ParseRequestLine, InLoop
  <2>2. PICK p \in DOMAIN Line : path' = Line[p][2] /\ version11' = (p + 1 = Len(Line))
    BY <1>4 DEF ParseRequestLine
  <2>3. Line[p] \in Token
    BY <2>2, Lines
  <2>4. path' \in Nat
    BY <2>2, <2>3 DEF Token
  <2>5. readPos' \in 0 .. Len(buff) /\ pc' \in {pc, "respond"} /\ parsed' \in BOOLEAN
    BY <1>0, <2>1
  <2> QED
    BY <2>1, <2>2, <2>4, <2>5
<1>5. CASE BadRequestLine
  BY <1>5 DEF BadRequestLine, InLoop, request
<1>6. CASE ParseHeader
  <2>1. /\ pc = "parse" /\ Advance /\ UNCHANGED <<asked, stream, buff, answers, tidy>>
        /\ state' \in {"HEADERS", "BODY", "FINISH"} /\ UNCHANGED <<path, version11>>
        /\ keepHeader' \in BOOLEAN
    BY <1>6 DEF ParseHeader, InLoop
  <2>5. readPos' \in 0 .. Len(buff) /\ pc' \in {pc, "respond"} /\ parsed' \in BOOLEAN
    BY <1>0, <2>1
  <2> QED
    BY <2>1, <2>5
<1>7. CASE ParseBody
  <2>1. /\ pc = "parse" /\ Advance /\ UNCHANGED <<asked, stream, buff, answers, tidy>>
        /\ state' = "FINISH" /\ UNCHANGED <<path, version11, keepHeader>>
    BY <1>7 DEF ParseBody, InLoop
  <2>5. readPos' \in 0 .. Len(buff) /\ pc' \in {pc, "respond"} /\ parsed' \in BOOLEAN
    BY <1>0, <2>1
  <2> QED
    BY <2>1, <2>5
<1>8. CASE EndOfLoop
  BY <1>8 DEF EndOfLoop, request
<1>9. CASE Respond
  <2>1. ASSUME NEW r \in Responses, r.content # "fault"
        PROVE  r \in [code : Nat, keep : BOOLEAN, content : {"error", "file"}]
    BY <2>1, Answering
  <2>2. PICK r \in Responses :
          IF r.content = "fault"
            THEN pc' = "killed" /\ UNCHANGED answers
            ELSE /\ pc' = "sent"
                 /\ answers' = Append(answers, [to |-> path, response |-> r])
    BY <1>9 DEF Respond
  <2>3. answers' \in Seq(Answer) /\ pc' \in {"killed", "sent"}
    <3>1. CASE r.content = "fault"
      BY <1>9, <2>2, <3>1
    <3>2. CASE r.content # "fault"
      <4> DEFINE a == [to |-> path, response |-> r]
      <4>1. a \in Answer
        BY <2>1, <3>2 DEF Answer
      <4>2. answers' = Append(answers, a) /\ pc' = "sent"
        BY <2>2, <3>2
      <4>3. answers \in Seq(Answer)
        OBVIOUS
      <4> HIDE DEF a, Typed
      <4> QED
        BY <4>1, <4>2, <4>3
    <3> QED
      BY <3>1, <3>2
  <2> QED
    BY <1>9, <2>3 DEF Respond, request
<1>10. CASE AfterWrite
  BY <1>10 DEF AfterWrite, request
<1>11. CASE UNCHANGED vars
  BY <1>11 DEF vars, request
<1> QED
  BY <1>1, <1>2, <1>3, <1>4, <1>5, <1>6, <1>7, <1>8, <1>9, <1>10, <1>11
  DEF Next, Serve, ParseRequest
-----------------------------------------------------------------------------
(* What the client has sent: in All at the places of buff first, then of   *)
(* stream.                                                                 *)
LEMMA AllAt ==
  ASSUME Typed
  PROVE  /\ All \in Seq(Token) /\ Len(All) = Len(buff) + Len(stream)
         /\ \A p \in 1 .. Len(buff) : All[p] = buff[p]
BY DEF All, Typed

(* Only the client adds to it.                                             *)
LEMMA AllStays == Typed /\ Serve => All' = All /\ asked' = asked
<1> SUFFICES ASSUME Typed, Serve PROVE All' = All /\ asked' = asked
  OBVIOUS
<1>1. ASSUME NEW n \in 1 .. Len(stream), Read(n) PROVE All' = All
  <2> DEFINE got == SubSeq(stream, 1, n)
             rest == SubSeq(stream, n + 1, Len(stream))
  <2>1. stream \in Seq(Token) /\ buff \in Seq(Token)
    BY DEF Typed
  <2>2. got \in Seq(Token) /\ rest \in Seq(Token)
    BY <2>1
  <2>3. got \o rest = SubSeq(stream, 1, Len(stream))
    BY <2>1, ConcatAdjacentSubSeq
  <2>4. got \o rest = stream
    BY <2>1, <2>3, SubSeqFull
  <2>5. buff' = buff \o got /\ stream' = rest
    BY <1>1 DEF Read
  <2> HIDE DEF got, rest
  <2>6. (buff \o got) \o rest = buff \o (got \o rest)
    BY <2>1, <2>2, Regroup
  <2> QED
    BY <2>4, <2>5, <2>6 DEF All
<1> QED
  BY <1>1
  DEF Serve, Read, Process, ParseRequest, ParseRequestLine, BadRequestLine, ParseHeader,
      ParseBody, EndOfLoop, Respond, AfterWrite, InLoop, All

LEMMA AllGrows ==
  ASSUME Typed, NEW r \in Requests, Send(r)
  PROVE  LET t == Pieces(Len(asked) + 1, r)
         IN  /\ t \in Seq(Token) /\ Len(All') = Len(All) + Len(t)
             /\ \A p \in 1 .. Len(All) : All'[p] = All[p]
             /\ \A p \in 1 .. Len(t) : All'[Len(All) + p] = t[p]
             /\ asked' = Append(asked, r) /\ Len(asked') = Len(asked) + 1
             /\ \A i \in 1 .. Len(asked) : asked'[i] = asked[i]
             /\ asked'[Len(asked) + 1] = r
<1> DEFINE t == Pieces(Len(asked) + 1, r)
<1>1. t \in Seq(Token)
  BY PiecesAt DEF Typed
<1>2. stream' = stream \o t /\ buff' = buff /\ asked' = Append(asked, r)
  BY DEF Send
<1> HIDE DEF t
<1>3. All' = All \o t /\ All \in Seq(Token)
  <2>1. buff \in Seq(Token) /\ stream \in Seq(Token)
    BY DEF Typed
  <2>2. buff \o (stream \o t) = (buff \o stream) \o t
    BY <1>1, <2>1, Regroup
  <2> QED
    BY <1>2, <2>1, <2>2 DEF All
<1> QED
  BY <1>1, <1>2, <1>3 DEF Typed, t
-----------------------------------------------------------------------------
LEMMA KeptStep ==
  Typed /\ Kept(All, asked) /\ [Next]_vars => Kept(All, asked)'
<1> SUFFICES ASSUME Typed, Kept(All, asked), [Next]_vars PROVE Kept(All', asked')
  OBVIOUS
<1>1. ASSUME NEW r \in Requests, Send(r) PROVE Kept(All', asked')
  <2> DEFINE n == Len(asked) + 1
             t == Pieces(n, r)
             m == Len(All)
  <2>0. n \in Nat /\ n > 0 /\ m \in Nat /\ Len(asked) \in Nat
    BY AllAt DEF Typed
  <2>1. /\ t \in Seq(Token) /\ Len(t) \in Blank(r) + 2 .. Blank(r) + 5
        /\ t[1] = Target(n) /\ t[2] = Protocol /\ t[3] = CR /\ t[4] = LF
        /\ r.keep => t[5] = Name /\ t[6] = Value /\ t[7] = CR /\ t[8] = LF
        /\ t[Blank(r) + 1] = CR /\ t[Blank(r) + 2] = LF
        /\ \A p \in Blank(r) + 3 .. Len(t) : t[p] \in {Data, CR, LF}
    BY <2>0, PiecesAt
  <2>2. r.keep \in BOOLEAN
    BY DEF Requests
  <2>3. /\ \A p \in 2 .. Len(t) : ~IsTarget(t[p])
        /\ \A p \in 1 .. Len(t) : t[p] = Name => p = 5 /\ r.keep
        /\ \A p \in 1 .. Len(t) : t[p] = Value => p = 6 /\ r.keep
    BY <2>0, PiecesKinds
  <2>4. IsTarget(t[1]) /\ t[1][2] = n /\ Len(t) \in Nat
    BY <2>1 DEF IsTarget, Target
  <2>5. /\ Len(All') = m + Len(t)
        /\ \A p \in 1 .. m : All'[p] = All[p]
        /\ \A p \in 1 .. Len(t) : All'[m + p] = t[p]
        /\ Len(asked') = n
        /\ \A i \in 1 .. Len(asked) : asked'[i] = asked[i]
        /\ asked'[n] = r
    BY <1>1, AllGrows
  <2> HIDE DEF t, n, m
  <2>6. \A p \in 1 .. Len(All') : p \in 1 .. m \/ \E k \in 1 .. Len(t) : p = m + k
    <3> SUFFICES ASSUME NEW p \in 1 .. Len(All'), p > m
                 PROVE  \E k \in 1 .. Len(t) : p = m + k
      BY <2>0
    <3>1. p - m \in 1 .. Len(t) /\ p = m + (p - m)
      BY <2>0, <2>4, <2>5
    <3> QED
      BY <3>1
  <2>7. \A p \in 1 .. Len(All') : p > m /\ IsTarget(All'[p]) => p = m + 1 /\ All'[p][2] = n
    <3> SUFFICES ASSUME NEW p \in 1 .. Len(All'), p > m, IsTarget(All'[p])
                 PROVE  p = m + 1 /\ All'[p][2] = n
      OBVIOUS
    <3>1. PICK k \in 1 .. Len(t) : p = m + k
      BY <2>0, <2>6
    <3>2. All'[p] = t[k]
      BY <2>5, <3>1
    <3>3. k = 1
      BY <2>3, <2>4, <3>2
    <3> QED
      BY <2>4, <3>1, <3>2, <3>3
  <2>8. \A p \in 1 .. m : IsTarget(All'[p]) => All'[p][2] \in 1 .. Len(asked)
    BY <2>5 DEF Kept, m
  <2>9. \A p, q \in 1 .. m :
          p < q /\ IsTarget(All'[p]) /\ IsTarget(All'[q]) => All'[p][2] < All'[q][2]
    BY <2>5 DEF Kept, m
  <2>10. \A p \in 1 .. Len(All') : IsTarget(All'[p]) => All'[p][2] \in 1 .. Len(asked')
    BY <2>0, <2>5, <2>7, <2>8 DEF n
  <2>11. \A p, q \in 1 .. Len(All') :
           p < q /\ IsTarget(All'[p]) /\ IsTarget(All'[q]) => All'[p][2] < All'[q][2]
    <3> SUFFICES ASSUME NEW p \in 1 .. Len(All'), NEW q \in 1 .. Len(All'),
                        p < q, IsTarget(All'[p]), IsTarget(All'[q])
                 PROVE  All'[p][2] < All'[q][2]
      OBVIOUS
    <3>1. p \in 1 .. m
      BY <2>0, <2>7
    <3>2. CASE q \in 1 .. m
      BY <2>9, <3>1, <3>2
    <3>3. CASE q > m
      BY <2>0, <2>7, <2>8, <3>1, <3>3 DEF n
    <3> QED
      BY <2>0, <3>2, <3>3
  <2>12. \A p \in 1 .. Len(All') : All'[p] = Value => p > 1 /\ All'[p - 1] = Name
    <3> SUFFICES ASSUME NEW p \in 1 .. Len(All'), All'[p] = Value
                 PROVE  p > 1 /\ All'[p - 1] = Name
      OBVIOUS
    <3>1. CASE p \in 1 .. m
      <4>1. p > 1 /\ All[p - 1] = Name
        BY <2>5, <3>1 DEF Kept, m
      <4>2. p - 1 \in 1 .. m
        BY <2>0, <3>1, <4>1
      <4> QED
        BY <2>5, <4>1, <4>2
    <3>2. ASSUME NEW k \in 1 .. Len(t), p = m + k PROVE p > 1 /\ All'[p - 1] = Name
      <4>1. k = 6 /\ r.keep
        BY <2>3, <2>5, <3>2
      <4>2. All'[m + 5] = Name
        <5>1. 5 \in 1 .. Len(t)
          BY <2>4, <3>2, <4>1
        <5>2. t[5] = Name
          BY <2>1, <4>1
        <5> QED
          BY <2>5, <5>1, <5>2
      <4>3. p - 1 = m + 5
        BY <2>0, <3>2, <4>1
      <4> QED
        BY <2>0, <3>2, <4>1, <4>2, <4>3
    <3> QED
      BY <2>6, <3>1, <3>2
  <2>13. \A p \in 1 .. Len(All') :
           All'[p] = Name => p > 2 /\ All'[p - 1] = LF /\ All'[p - 2] = CR
    <3> SUFFICES ASSUME NEW p \in 1 .. Len(All'), All'[p] = Name
                 PROVE  p > 2 /\ All'[p - 1] = LF /\ All'[p - 2] = CR
      OBVIOUS
    <3>1. CASE p \in 1 .. m
      <4>1. p > 2 /\ All[p - 1] = LF /\ All[p - 2] = CR
        BY <2>5, <3>1 DEF Kept, m
      <4>2. p - 1 \in 1 .. m /\ p - 2 \in 1 .. m
        BY <2>0, <3>1, <4>1
      <4> QED
        BY <2>5, <4>1, <4>2
    <3>2. ASSUME NEW k \in 1 .. Len(t), p = m + k
          PROVE  p > 2 /\ All'[p - 1] = LF /\ All'[p - 2] = CR
      <4>1. k = 5 /\ r.keep
        BY <2>3, <2>5, <3>2
      <4>2. All'[m + 4] = LF /\ All'[m + 3] = CR
        <5>1. 4 \in 1 .. Len(t) /\ 3 \in 1 .. Len(t)
          BY <2>4, <3>2, <4>1
        <5>2. t[4] = LF /\ t[3] = CR
          BY <2>1
        <5> QED
          BY <2>5, <5>1, <5>2
      <4>3. p - 1 = m + 4 /\ p - 2 = m + 3
        BY <2>0, <3>2, <4>1
      <4> QED
        BY <2>0, <3>2, <4>1, <4>2, <4>3
    <3> QED
      BY <2>6, <3>1, <3>2
  <2>14. ASSUME NEW p \in 1 .. Len(All'), NEW q \in 1 .. Len(All'),
                q < p, All'[p] = Name, IsTarget(All'[q]),
                \A i \in q + 1 .. p : ~IsTarget(All'[i])
         PROVE  asked'[All'[q][2]].keep
    <3>1. CASE p \in 1 .. m
      <4>1. q \in 1 .. m
        BY <2>0, <2>14, <3>1
      <4>2. \A i \in q + 1 .. p : All'[i] = All[i]
        BY <2>0, <2>5, <3>1, <4>1
      <4>3. All[p] = Name /\ IsTarget(All[q]) /\ \A i \in q + 1 .. p : ~IsTarget(All[i])
        BY <2>5, <2>14, <3>1, <4>1, <4>2
      <4>4. asked[All[q][2]].keep
        BY <2>14, <3>1, <4>1, <4>3 DEF Kept, m
      <4> QED
        BY <2>5, <2>8, <2>14, <4>1, <4>4
    <3>2. ASSUME NEW k \in 1 .. Len(t), p = m + k PROVE asked'[All'[q][2]].keep
      <4>1. k = 5 /\ r.keep
        BY <2>3, <2>5, <2>14, <3>2
      <4>2. q \notin 1 .. m
        <5>1. IsTarget(All'[m + 1]) /\ m + 1 < p
          BY <2>0, <2>4, <2>5, <3>2, <4>1
        <5> QED
          BY <2>0, <2>14, <3>2, <5>1
      <4>3. All'[q][2] = n
        BY <2>0, <2>7, <2>14, <4>2
      <4> QED
        BY <2>5, <4>1, <4>3
    <3> QED
      BY <2>6, <3>1, <3>2
  <2> QED
    BY <2>10, <2>11, <2>12, <2>13, <2>14 DEF Kept
<1>2. CASE Serve
  BY <1>2, AllStays
<1>3. CASE UNCHANGED vars
  BY <1>3 DEF vars, All
<1> QED
  BY <1>1, <1>2, <1>3 DEF Next
-----------------------------------------------------------------------------
LEMMA BeyondMore ==
  ASSUME NEW s, NEW n, NEW k \in Nat, NEW l \in Nat, k <= l, Len(s) \in Nat, Beyond(s, k, n)
  PROVE  Beyond(s, l, n)
BY DEF Beyond

(* What begins behind a target comes after it.                             *)
LEMMA BeyondTarget ==
  ASSUME NEW s, NEW a, Kept(s, a), Len(s) \in Nat, Len(a) \in Nat,
         NEW x \in 1 .. Len(s), IsTarget(s[x]), NEW k \in Nat, x <= k
  PROVE  Beyond(s, k, s[x][2])
<1> SUFFICES ASSUME NEW p \in k + 1 .. Len(s), IsTarget(s[p])
             PROVE  s[p][2] > s[x][2]
  BY DEF Beyond
<1>1. p \in 1 .. Len(s) /\ x < p
  OBVIOUS
<1>2. s[x][2] < s[p][2] /\ s[x][2] \in 1 .. Len(a) /\ s[p][2] \in 1 .. Len(a)
  BY <1>1 DEF Kept
<1> QED
  BY <1>2

LEMMA BeyondFewer ==
  ASSUME NEW s, NEW a, Kept(s, a), Len(s) \in Nat, Len(a) \in Nat,
         NEW k \in Nat, NEW n \in Nat, NEW m \in Nat, m <= n, Beyond(s, k, n)
  PROVE  Beyond(s, k, m)
<1> SUFFICES ASSUME NEW p \in k + 1 .. Len(s), IsTarget(s[p])
             PROVE  s[p][2] > m
  BY DEF Beyond
<1>1. s[p][2] > n /\ p \in 1 .. Len(s)
  BY DEF Beyond
<1>2. s[p][2] \in 1 .. Len(a)
  BY <1>1 DEF Kept
<1> QED
  BY <1>1, <1>2

(* What the client sends is behind readPos.                                *)
LEMMA BeyondSent ==
  ASSUME Typed, NEW r \in Requests, Send(r), NEW n \in 0 .. Len(asked),
         Beyond(All, readPos, n)
  PROVE  Beyond(All', readPos', n)
<1> DEFINE t == Pieces(Len(asked) + 1, r)
           m == Len(All)
<1>0. Len(asked) \in Nat /\ m \in Nat /\ readPos \in Nat /\ readPos' = readPos
  BY AllAt DEF Typed, Send
<1>1. /\ t \in Seq(Token) /\ Len(All') = m + Len(t)
      /\ \A p \in 1 .. m : All'[p] = All[p]
      /\ \A p \in 1 .. Len(t) : All'[m + p] = t[p]
  BY AllGrows
<1>2. t[1] = Target(Len(asked) + 1) /\ \A p \in 2 .. Len(t) : ~IsTarget(t[p])
  <2>1. Len(asked) + 1 \in Nat
    BY <1>0
  <2>2. t[1] = Target(Len(asked) + 1)
    BY <2>1, PiecesAt
  <2>3. \A p \in 2 .. Len(t) : ~IsTarget(t[p])
    BY <2>1, PiecesKinds
  <2> QED
    BY <2>2, <2>3
<1>3. Len(t) \in Nat
  BY <1>1
<1> HIDE DEF t, m
<1>4. ASSUME NEW p \in readPos + 1 .. Len(All'), IsTarget(All'[p])
      PROVE  All'[p][2] > n
  <2>1. CASE p <= m
    <3>1. p \in 1 .. m /\ p \in readPos + 1 .. m
      BY <1>0, <1>1, <1>3, <2>1
    <3>2. All'[p] = All[p]
      BY <1>1, <3>1
    <3> QED
      BY <1>4, <3>1, <3>2 DEF Beyond, m
  <2>2. CASE p > m
    <3>1. p - m \in 1 .. Len(t) /\ p = m + (p - m)
      BY <1>0, <1>1, <1>3, <2>2
    <3>2. All'[p] = t[p - m]
      BY <1>1, <3>1
    <3>3. p - m = 1
      BY <1>2, <1>3, <1>4, <3>1, <3>2
    <3> QED
      BY <1>0, <1>2, <3>2, <3>3 DEF Target
  <2> QED
    BY <1>0, <1>1, <1>3, <2>1, <2>2
<1> QED
  BY <1>0, <1>4 DEF Beyond

LEMMA ReadPosGrows == Typed /\ Serve => readPos' \in readPos .. Len(buff')
<1> SUFFICES ASSUME Typed, Serve PROVE readPos' \in readPos .. Len(buff')
  OBVIOUS
<1>0. readPos \in Nat /\ Len(buff) \in Nat /\ readPos <= Len(buff)
  BY DEF Typed
<1>1. ASSUME NEW n \in 1 .. Len(stream), Read(n) PROVE readPos' \in readPos .. Len(buff')
  <2>1. SubSeq(stream, 1, n) \in Seq(Token)
    BY DEF Typed
  <2>2. Len(buff') >= Len(buff) /\ Len(buff') \in Nat /\ readPos' = readPos
    BY <1>1, <2>1 DEF Read, Typed
  <2> QED
    BY <1>0, <2>2
<1>2. ASSUME Advance, buff' = buff PROVE readPos' \in readPos .. Len(buff')
  BY <1>2, Advanced
<1>3. CASE ParseRequestLine \/ ParseHeader \/ ParseBody
  BY <1>2, <1>3 DEF ParseRequestLine, ParseHeader, ParseBody, InLoop
<1>4. CASE Process \/ BadRequestLine \/ EndOfLoop \/ Respond \/ AfterWrite
  <2>1. readPos' = readPos /\ buff' = buff
    BY <1>4 DEF Process, BadRequestLine, EndOfLoop, Respond, AfterWrite, InLoop
  <2> QED
    BY <1>0, <2>1
<1> QED
  BY <1>1, <1>3, <1>4 DEF Serve, ParseRequest

LEMMA BeyondStays ==
  ASSUME Typed, Serve, NEW n, Beyond(All, readPos, n)
  PROVE  Beyond(All', readPos', n)
<1>1. readPos \in Nat /\ readPos' \in Nat /\ readPos <= readPos' /\ Len(All) \in Nat
  BY ReadPosGrows, TypedStep, AllAt DEF Typed, Next
<1>2. Beyond(All, readPos', n)
  BY <1>1, BeyondMore
<1> QED
  BY <1>2, AllStays

(* The line that was read has the target whose number is the path.         *)
LEMMA TargetRead ==
  ASSUME Typed, Kept(All, asked), ParseRequestLine
  PROVE  \E x \in readPos + 1 .. Len(All) :
           /\ All[x] = Target(path') /\ path' \in 1 .. Len(asked)
           /\ pc' = "parse" =>
                x <= readPos' /\ \A p \in x + 1 .. readPos' : ~IsTarget(All[p])
<1>0. readPos \in Nat /\ Len(buff) \in Nat /\ readPos <= Len(buff)
  BY DEF Typed
<1>1. /\ Len(Readable) = Len(buff) - readPos
      /\ LineLen \in 0 .. Len(Readable)
      /\ Line \in Seq(Token) /\ Len(Line) = LineLen
      /\ \A p \in 1 .. LineLen : Line[p] = buff[readPos + p]
      /\ Ends # {} => /\ LineLen + 2 <= Len(Readable)
                      /\ buff[readPos + LineLen + 1] = CR
                      /\ buff[readPos + LineLen + 2] = LF
  BY Lines
<1>2. /\ Len(All) \in Nat /\ Len(buff) <= Len(All)
      /\ \A p \in 1 .. Len(buff) : All[p] = buff[p]
  BY AllAt DEF Typed
<1>3. PICK p \in 1 .. LineLen :
        /\ Line[p][1] = "target" /\ p + 1 \in 1 .. LineLen /\ Line[p + 1] = Protocol
        /\ \A q \in 1 .. LineLen : q # p /\ q # p + 1 => Line[q] \in {Name, Data, CR, LF}
        /\ path' = Line[p][2]
  BY <1>1, SMTT(30) DEF ParseRequestLine, RequestLineAt
<1>4. \A q \in 1 .. LineLen : readPos + q \in 1 .. Len(buff) /\ All[readPos + q] = Line[q]
  <2> SUFFICES ASSUME NEW q \in 1 .. LineLen
               PROVE  readPos + q \in 1 .. Len(buff) /\ All[readPos + q] = Line[q]
    OBVIOUS
  <2>1. readPos + q \in 1 .. Len(buff)
    BY <1>0, <1>1
  <2> QED
    BY <1>1, <1>2, <2>1
<1> DEFINE x == readPos + p
<1>5. LineLen \in Nat /\ x \in readPos + 1 .. Len(All) /\ x \in 1 .. Len(All) /\ x \in Nat
  <2>1. LineLen \in Nat /\ LineLen <= Len(buff) - readPos
    BY <1>0, <1>1
  <2>2. p \in Nat /\ p >= 1 /\ p <= LineLen
    BY <2>1
  <2>3. Len(All) \in Nat /\ Len(buff) <= Len(All)
    BY <1>2
  <2> QED
    BY <1>0, <2>1, <2>2, <2>3, SMTT(30)
<1>6. All[x] = Target(path')
  <2>1. Line[p] \in Token /\ All[x] = Line[p]
    BY <1>1, <1>4
  <2> QED
    BY <1>3, <2>1 DEF Token, Target
<1>7. path' \in 1 .. Len(asked)
  BY <1>5, <1>6 DEF Kept, IsTarget, Target
<1>8. ASSUME pc' = "parse"
      PROVE  x <= readPos' /\ \A q \in x + 1 .. readPos' : ~IsTarget(All[q])
  <2>1. Ends # {} /\ readPos' = readPos + LineLen + 2
    BY <1>8, Advanced DEF ParseRequestLine, InLoop
  <2>2. x <= readPos'
    BY <1>0, <1>5, <2>1
  <2>3. ASSUME NEW q \in x + 1 .. readPos' PROVE ~IsTarget(All[q])
    <3>1. CASE q - readPos \in 1 .. LineLen
      <4>1. All[q] = Line[q - readPos] /\ q - readPos # p
        <5>1. q \in Int /\ q > x /\ p \in Int
          BY <1>0, <1>1, <1>5, <2>1
        <5>2. readPos + (q - readPos) = q /\ q - readPos # p
          BY <1>0, <5>1
        <5> QED
          BY <1>4, <3>1, <5>2
      <4>2. Line[q - readPos] \in {Protocol, Name, Data, CR, LF}
        BY <1>3, <3>1, <4>1
      <4> QED
        BY <4>1, <4>2 DEF IsTarget, Protocol, Name, Data, CR, LF
    <3>2. CASE q = readPos + LineLen + 1
      BY <1>0, <1>1, <1>2, <1>5, <2>1, <3>2 DEF IsTarget, CR
    <3>3. CASE q = readPos + LineLen + 2
      BY <1>0, <1>1, <1>2, <1>5, <2>1, <3>3 DEF IsTarget, LF
    <3> QED
      BY <1>0, <1>5, <2>1, <3>1, <3>2, <3>3
  <2> QED
    BY <2>2, <2>3
<1> QED
  BY <1>5, <1>6, <1>7, <1>8

(* A line that ends with the header has no target.                         *)
LEMMA HeaderHasNoTarget ==
  ASSUME Typed, Kept(All, asked), IsHeader
  PROVE  \A p \in 1 .. LineLen : ~IsTarget(All[readPos + p])
<1>0. readPos \in Nat /\ Len(buff) \in Nat /\ readPos <= Len(buff)
  BY DEF Typed
<1>1. /\ Len(Readable) = Len(buff) - readPos
      /\ LineLen \in 0 .. Len(Readable)
      /\ Line \in Seq(Token) /\ Len(Line) = LineLen
      /\ \A p \in 1 .. LineLen : Line[p] = buff[readPos + p]
      /\ \A p \in 1 .. LineLen :
           p < Len(Readable) => ~(buff[readPos + p] = CR /\ buff[readPos + p + 1] = LF)
  BY Lines
<1>2. /\ Len(All) \in Nat /\ Len(buff) <= Len(All)
      /\ \A p \in 1 .. Len(buff) : All[p] = buff[p]
  BY AllAt DEF Typed
<1>3. LineLen \in 1 .. Len(Readable) /\ LineLen \in Nat /\ Line[LineLen] = Value
  BY <1>0, <1>1 DEF IsHeader, Last
<1> DEFINE v == readPos + LineLen
<1>4. v \in 1 .. Len(buff) /\ v \in 1 .. Len(All) /\ All[v] = Value
  BY <1>0, <1>1, <1>2, <1>3
<1>5. v > 1 /\ All[v - 1] = Name
  BY <1>4 DEF Kept
<1>6. v - 1 \in 1 .. Len(All) /\ v - 1 > 2 /\ All[v - 2] = LF /\ All[v - 3] = CR
  <2>1. v - 1 \in 1 .. Len(All)
    BY <1>4, <1>5, <1>2
  <2>2. v - 1 > 2 /\ All[v - 1 - 1] = LF /\ All[v - 1 - 2] = CR
    BY <1>5, <2>1 DEF Kept
  <2>3. v - 1 - 1 = v - 2 /\ v - 1 - 2 = v - 3
    BY <1>4
  <2> QED
    BY <2>1, <2>2, <2>3
<1>7. LineLen < 4
  <2> SUFFICES ASSUME LineLen >= 4 PROVE FALSE
    BY <1>3
  <2>1. /\ LineLen - 3 \in 1 .. LineLen /\ LineLen - 3 < Len(Readable)
        /\ readPos + (LineLen - 3) = v - 3 /\ readPos + (LineLen - 3) + 1 = v - 2
        /\ v - 3 \in 1 .. Len(buff) /\ v - 2 \in 1 .. Len(buff)
    BY <1>0, <1>1, <1>3
  <2>2. ~(buff[v - 3] = CR /\ buff[v - 2] = LF)
    BY <1>1, <2>1
  <2> QED
    BY <1>2, <1>6, <2>1, <2>2
<1>8. ASSUME NEW p \in 1 .. LineLen PROVE ~IsTarget(All[readPos + p])
  <2>1. readPos + p = v \/ readPos + p = v - 1 \/ readPos + p = v - 2
    BY <1>0, <1>3, <1>7
  <2> QED
    BY <1>4, <1>5, <1>6, <2>1 DEF IsTarget, Value, Name, LF
<1> QED
  BY <1>8
-----------------------------------------------------------------------------
LEMMA PhaseStep ==
  Typed /\ Kept(All, asked) /\ Phase /\ [Next]_vars => Phase'
<1> SUFFICES ASSUME Typed, Kept(All, asked), Phase, [Next]_vars PROVE Phase'
  OBVIOUS
<1>0. Typed' /\ (Serve => All' = All /\ asked' = asked)
  BY TypedStep, AllStays
<1>a. readPos \in Nat /\ readPos' \in Nat /\ Len(asked) \in Nat /\ Len(buff) \in Nat /\ readPos <= Len(buff)
      /\ Len(All) \in Nat /\ Len(buff) <= Len(All)
  BY <1>0, AllAt DEF Typed
<1>b. ASSUME Serve, NEW n, Beyond(All, readPos, n) PROVE Beyond(All', readPos', n)
  BY <1>b, BeyondStays
<1>1. ASSUME NEW r \in Requests, Send(r) PROVE Phase'
  <2>1. /\ UNCHANGED <<buff, readPos, pc, state, path, version11, keepHeader, parsed>>
        /\ Len(asked') = Len(asked) + 1
        /\ \A i \in 1 .. Len(asked) : asked'[i] = asked[i]
        /\ \A p \in 1 .. Len(All) : All'[p] = All[p]
    BY <1>1, AllGrows DEF Send, request
  <2>2. Len(asked) \in Nat
    BY DEF Typed
  <2>3. ASSUME path \in 1 .. Len(asked), Beyond(All, readPos, path)
        PROVE  Beyond(All', readPos', path')
    BY <1>1, <2>1, <2>2, <2>3, BeyondSent
  <2>4. Busy' = Busy /\ (Busy /\ state # "REQUEST_LINE" => path \in 1 .. Len(asked))
    BY <2>1 DEF Busy, Phase
  <2>5. Busy /\ keepHeader => path \in 1 .. Len(asked)
    BY DEF Phase
  <2>6. pc' = "parse" /\ state' = "HEADERS" =>
          \E q \in 1 .. readPos' :
            All'[q] = Target(path') /\ \A p \in q + 1 .. readPos' : ~IsTarget(All'[p])
    <3> SUFFICES ASSUME pc = "parse", state = "HEADERS"
                 PROVE  \E q \in 1 .. readPos :
                          /\ All'[q] = Target(path)
                          /\ \A p \in q + 1 .. readPos : ~IsTarget(All'[p])
      BY <2>1
    <3>1. PICK q \in 1 .. readPos :
            All[q] = Target(path) /\ \A p \in q + 1 .. readPos : ~IsTarget(All[p])
      BY DEF Phase
    <3>2. All'[q] = All[q] /\ \A p \in q + 1 .. readPos : All'[p] = All[p]
      BY <1>a, <2>1, <3>1
    <3> QED
      BY <3>1, <3>2
  <2>7. Busy' /\ state' # "REQUEST_LINE" => path' \in 1 .. Len(asked')
    BY <2>1, <2>2, <2>4
  <2>8. Busy' /\ keepHeader' => asked'[path'].keep /\ Beyond(All', readPos', path')
    <3>1. Busy /\ keepHeader => asked[path].keep /\ Beyond(All, readPos, path)
      BY DEF Phase
    <3> QED
      BY <2>1, <2>3, <2>4, <2>5, <3>1
  <2>9. pc' = "parse" /\ state' # "REQUEST_LINE" => Beyond(All', readPos', path')
    <3>1. pc = "parse" /\ state # "REQUEST_LINE" => Beyond(All, readPos, path)
      BY DEF Phase
    <3> QED
      BY <2>1, <2>3, <2>4, <3>1 DEF Busy
  <2> QED
    BY <2>1, <2>4, <2>6, <2>7, <2>8, <2>9 DEF Phase
<1>2. ASSUME NEW n \in 1 .. Len(stream), Read(n) PROVE Phase'
  BY <1>2 DEF Read, Phase, Busy
<1>3. CASE Process
  <2>1. Readable # <<>> => readPos < Len(buff)
    BY <1>a, Lines
  <2> QED
    BY <1>3, <2>1 DEF Process, Clear, Phase, Busy
<1>4. CASE ParseRequestLine
  <2>1. /\ pc = "parse" /\ state = "REQUEST_LINE" /\ state' = "HEADERS"
        /\ keepHeader' = keepHeader /\ ~keepHeader
    BY <1>4 DEF ParseRequestLine, InLoop, Phase, Busy
  <2>2. Serve
    BY <1>4 DEF Serve, ParseRequest
  <2>3. PICK x \in readPos + 1 .. Len(All) :
           /\ All[x] = Target(path') /\ path' \in 1 .. Len(asked)
           /\ pc' = "parse" =>
                x <= readPos' /\ \A p \in x + 1 .. readPos' : ~IsTarget(All[p])
    BY <1>4, TargetRead
  <2>4. ASSUME pc' = "parse" PROVE Beyond(All, readPos', path')
    <3>1. x \in 1 .. Len(All) /\ IsTarget(All[x]) /\ All[x][2] = path' /\ x <= readPos'
      BY <1>a, <2>3, <2>4 DEF IsTarget, Target
    <3> QED
      BY <1>a, <3>1, BeyondTarget
  <2>5. ASSUME pc' = "parse"
        PROVE  \E q \in 1 .. readPos' :
                 All[q] = Target(path') /\ \A p \in q + 1 .. readPos' : ~IsTarget(All[p])
    <3>1. x \in 1 .. readPos'
      BY <1>a, <2>3, <2>5
    <3> QED
      BY <2>3, <2>5, <3>1
  <2> QED
    BY <1>0, <2>1, <2>2, <2>3, <2>4, <2>5 DEF Phase
<1>5. CASE BadRequestLine
  BY <1>5 DEF BadRequestLine, InLoop, request, Phase, Busy
<1>6. CASE ParseHeader
  <2>1. /\ pc = "parse" /\ state = "HEADERS" /\ state' # "REQUEST_LINE" /\ path' = path
        /\ keepHeader' = (keepHeader \/ Line = <<Name, Value>>)
        /\ state' = "HEADERS" => IsHeader
        /\ Advance /\ buff' = buff
    BY <1>6 DEF ParseHeader, InLoop
  <2>2. Serve
    BY <1>6 DEF Serve, ParseRequest
  <2>3. path \in 1 .. Len(asked) /\ Beyond(All, readPos, path)
    BY <2>1 DEF Phase, Busy
  <2>4. Beyond(All', readPos', path') /\ path' \in 1 .. Len(asked')
    BY <1>0, <1>b, <2>1, <2>2, <2>3
  <2>5. PICK q \in 1 .. readPos :
          All[q] = Target(path) /\ \A p \in q + 1 .. readPos : ~IsTarget(All[p])
    BY <2>1 DEF Phase
  <2>6. /\ Len(Readable) = Len(buff) - readPos
        /\ LineLen \in 0 .. Len(Readable) /\ Len(Line) = LineLen
        /\ \A p \in 1 .. LineLen : Line[p] = buff[readPos + p]
        /\ Ends # {} => /\ LineLen + 2 <= Len(Readable)
                        /\ buff[readPos + LineLen + 1] = CR
                        /\ buff[readPos + LineLen + 2] = LF
    BY Lines
  <2>7. \A p \in 1 .. Len(buff) : All[p] = buff[p]
    BY AllAt
  <2>8. Line = <<Name, Value>> => asked[path].keep
    <3> SUFFICES ASSUME Line = <<Name, Value>> PROVE asked[path].keep
      OBVIOUS
    <3>1. LineLen = 2 /\ Line[1] = Name
      BY <2>6
    <3>2. readPos + 1 \in 1 .. Len(buff) /\ All[readPos + 1] = Name
      BY <1>a, <2>6, <2>7, <3>1
    <3>3. /\ q \in 1 .. Len(All) /\ readPos + 1 \in 1 .. Len(All) /\ q < readPos + 1
          /\ \A p \in q + 1 .. readPos + 1 : ~IsTarget(All[p])
      BY <1>a, <2>5, <3>2 DEF IsTarget, Name
    <3>4. IsTarget(All[q]) /\ All[q][2] = path
      BY <2>5 DEF IsTarget, Target
    <3> QED
      BY <3>2, <3>3, <3>4 DEF Kept
  <2>9. keepHeader' => asked[path].keep
    BY <2>1, <2>8 DEF Phase, Busy
  <2>10. ASSUME pc' = "parse", state' = "HEADERS"
         PROVE  \E x \in 1 .. readPos' :
                  All[x] = Target(path) /\ \A p \in x + 1 .. readPos' : ~IsTarget(All[p])
    <3>1. Ends # {} /\ readPos' = readPos + LineLen + 2
      BY <2>1, <2>10, Advanced
    <3>2. \A p \in 1 .. LineLen : ~IsTarget(All[readPos + p])
      BY <2>1, <2>10, HeaderHasNoTarget
    <3>3. ~IsTarget(All[readPos + LineLen + 1]) /\ ~IsTarget(All[readPos + LineLen + 2])
      BY <1>a, <2>6, <2>7, <3>1 DEF IsTarget, CR, LF
    <3>4. ASSUME NEW p \in q + 1 .. readPos' PROVE ~IsTarget(All[p])
      <4>0. LineLen \in Nat
        BY <1>a, <2>6
      <4>1. CASE p <= readPos
        BY <1>a, <2>5, <4>1
      <4>2. CASE p - readPos \in 1 .. LineLen
        <5>1. readPos + (p - readPos) = p
          BY <1>a
        <5> QED
          BY <3>2, <4>2, <5>1
      <4>3. CASE p = readPos + LineLen + 1 \/ p = readPos + LineLen + 2
        BY <3>3, <4>3
      <4> QED
        BY <1>a, <3>1, <4>0, <4>1, <4>2, <4>3
    <3>5. q \in 1 .. readPos'
      BY <1>a, <2>6, <3>1
    <3> QED
      BY <2>5, <3>4, <3>5
  <2> QED
    BY <1>0, <2>1, <2>2, <2>4, <2>9, <2>10 DEF Phase, Busy
<1>7. CASE ParseBody
  <2>1. /\ pc = "parse" /\ state = "BODY" /\ state' = "FINISH"
        /\ path' = path /\ keepHeader' = keepHeader
    BY <1>7 DEF ParseBody, InLoop
  <2>2. Serve
    BY <1>7 DEF Serve, ParseRequest
  <2>3. path \in 1 .. Len(asked) /\ Beyond(All, readPos, path)
        /\ (keepHeader => asked[path].keep)
    BY <2>1 DEF Phase, Busy
  <2>4. Beyond(All', readPos', path')
    BY <1>b, <2>1, <2>2, <2>3
  <2> QED
    BY <1>0, <2>1, <2>2, <2>3, <2>4 DEF Phase
<1>8. CASE EndOfLoop \/ Respond \/ AfterWrite
  <2>1. /\ Serve /\ UNCHANGED <<readPos, buff, state, path, keepHeader>>
        /\ (Busy' => Busy) /\ pc' # "parse"
        /\ pc' = "respond" => pc = "parse" /\ (Readable = <<>> \/ state = "FINISH")
    BY <1>8 DEF Serve, ParseRequest, EndOfLoop, Respond, AfterWrite, request, Busy
  <2>2. pc' = "respond" => state # "REQUEST_LINE"
    <3>1. readPos < Len(buff) => Readable # <<>>
      BY <1>a, Lines
    <3> QED
      BY <2>1, <3>1 DEF Phase
  <2>3. Busy' /\ state' = "REQUEST_LINE"
          => path' = 0 /\ ~keepHeader' /\ (pc' \in {"respond", "sent"} => ~parsed')
    <3>1. CASE Respond
      BY <2>1, <3>1 DEF Phase, Busy, Respond
    <3>2. CASE EndOfLoop
      BY <2>1, <2>2, <3>2 DEF EndOfLoop
    <3>3. CASE AfterWrite
      BY <3>3 DEF AfterWrite, Busy
    <3> QED
      BY <1>8, <3>1, <3>2, <3>3
  <2>4. Busy' /\ state' # "REQUEST_LINE" => path' \in 1 .. Len(asked')
    BY <1>0, <2>1 DEF Phase
  <2>5. Busy' /\ keepHeader' => asked'[path'].keep /\ Beyond(All', readPos', path')
    BY <1>0, <2>1 DEF Phase
  <2>6. pc' = "respond" => state' # "REQUEST_LINE"
    BY <2>1, <2>2
  <2> QED
    BY <2>1, <2>3, <2>4, <2>5, <2>6 DEF Phase
<1>9. CASE UNCHANGED vars
  BY <1>9 DEF vars, request, All, Phase, Busy, Beyond, IsTarget
<1> QED
  BY <1>1, <1>2, <1>3, <1>4, <1>5, <1>6, <1>7, <1>8, <1>9 DEF Next, Serve, ParseRequest
-----------------------------------------------------------------------------
(* The last answer is the one to the path; those before it are behind.     *)
LEMMA OrderStep == IInv /\ [Next]_vars => Order'
<1> SUFFICES ASSUME IInv, [Next]_vars PROVE Order'
  OBVIOUS
<1> DEFINE Before == pc \in {"wait", "process"} \/ (pc = "parse" /\ state = "REQUEST_LINE")
           Within == pc \in {"parse", "respond"} /\ state # "REQUEST_LINE"
           Ended == pc \in {"sent", "closed"}
<1>0. Typed /\ Kept(All, asked) /\ Phase /\ Order /\ AnswersAreAsked
  BY DEF IInv
<1>a. /\ Len(answers) \in Nat /\ DOMAIN answers = 1 .. Len(answers)
      /\ \A i \in 1 .. Len(answers) : answers[i].to \in Nat
      /\ Len(asked) \in Nat /\ DOMAIN asked = 1 .. Len(asked)
      /\ path \in Nat
  <2>1. answers \in Seq(Answer) /\ asked \in Seq(Requests) /\ path \in Nat
    BY <1>0 DEF Typed
  <2>2. /\ Len(answers) \in Nat /\ DOMAIN answers = 1 .. Len(answers)
        /\ \A i \in 1 .. Len(answers) : answers[i] \in Answer
    BY <2>1
  <2>3. Len(asked) \in Nat /\ DOMAIN asked = 1 .. Len(asked)
    BY <2>1
  <2> QED
    BY <2>1, <2>2, <2>3 DEF Answer
<1>b. \A i \in 1 .. Len(answers) :
        /\ Before => Beyond(All, readPos, answers[i].to)
        /\ Within => answers[i].to < path
        /\ pc = "sent" /\ state # "REQUEST_LINE" => answers[i].to <= path
        /\ answers[i].to = 0 => Ended /\ state = "REQUEST_LINE"
        /\ answers[i].to \in 0 .. Len(asked)
  BY <1>0, <1>a DEF Order, AnswersAreAsked
<1>c. ASSUME Serve, NEW n, Beyond(All, readPos, n) PROVE Beyond(All', readPos', n)
  BY <1>0, <1>c, BeyondStays
<1>1. ASSUME NEW r \in Requests, Send(r) PROVE Order'
  <2>1. UNCHANGED <<readPos, pc, state, path, answers>>
    BY <1>1 DEF Send, request
  <2>2. \A i \in 1 .. Len(answers) : Before => Beyond(All', readPos', answers[i].to)
    <3> SUFFICES ASSUME NEW i \in 1 .. Len(answers), Before
                 PROVE  Beyond(All', readPos', answers[i].to)
      OBVIOUS
    <3>1. answers[i].to \in 0 .. Len(asked) /\ Beyond(All, readPos, answers[i].to)
      BY <1>a, <1>b
    <3> QED
      BY <1>0, <1>1, <3>1, BeyondSent
  <2> QED
    BY <1>b, <2>1, <2>2 DEF Order
<1>2. ASSUME Serve, UNCHANGED answers, Before' => Before, Within' => Within \/ ParseRequestLine,
             ~Ended, pc' # "sent", UNCHANGED path \/ ParseRequestLine
      PROVE  Order'
  <2>1. ASSUME NEW i \in 1 .. Len(answers), Before' PROVE Beyond(All', readPos', answers[i].to)
    BY <1>2, <1>b, <1>c, <2>1
  <2>2. ASSUME NEW i \in 1 .. Len(answers), Within' PROVE answers[i].to < path'
    <3>1. CASE ~ParseRequestLine
      BY <1>2, <1>b, <2>2, <3>1
    <3>2. CASE ParseRequestLine
      <4>1. PICK x \in readPos + 1 .. Len(All) : All[x] = Target(path') /\ path' \in 1 .. Len(asked)
        BY <1>0, <3>2, TargetRead
      <4>2. Beyond(All, readPos, answers[i].to)
        BY <1>b, <3>2 DEF ParseRequestLine, InLoop
      <4>3. All[x][2] = path' /\ IsTarget(All[x])
        BY <4>1 DEF IsTarget, Target
      <4>4. path' > answers[i].to
        BY <4>2, <4>3 DEF Beyond
      <4> QED
        BY <1>a, <4>1, <4>4
    <3> QED
      BY <3>1, <3>2
  <2> QED
    BY <1>2, <1>b, <2>1, <2>2 DEF Order
<1>3. CASE \E n \in 1 .. Len(stream) : Read(n)
  <2>1. /\ Serve /\ UNCHANGED answers /\ pc = "wait" /\ pc' = "process" /\ UNCHANGED path
    BY <1>3 DEF Serve, Read, request
  <2> QED
    BY <1>2, <2>1
<1>4. CASE Process
  <2>1. ASSUME NEW i \in 1 .. Len(answers) PROVE Beyond(All', readPos', answers[i].to)
    BY <1>4, <1>b, <1>c DEF Process, Serve
  <2> QED
    BY <1>4, <1>b, <2>1 DEF Process, Clear, Order
<1>5. CASE ParseRequest
  <2>1. /\ Serve /\ pc = "parse" /\ UNCHANGED answers /\ pc' \in {"parse", "respond"}
        /\ UNCHANGED path \/ ParseRequestLine
        /\ Within' => Within \/ ParseRequestLine
        /\ ~Before'  \/ Before
    <3>1. ASSUME Advance, buff' = buff PROVE pc' \in {pc, "respond"}
      BY <1>0, <3>1, Advanced
    <3>2. CASE ParseRequestLine
      BY <3>1, <3>2 DEF ParseRequestLine, InLoop, Serve, ParseRequest
    <3>3. CASE ParseHeader
      BY <3>1, <3>3 DEF ParseHeader, InLoop, Serve, ParseRequest
    <3>4. CASE ParseBody
      BY <3>1, <3>4 DEF ParseBody, InLoop, Serve, ParseRequest
    <3>5. CASE BadRequestLine
      BY <3>5 DEF BadRequestLine, InLoop, Serve, ParseRequest, request
    <3>6. CASE EndOfLoop
      <4>1. /\ Serve /\ pc = "parse" /\ UNCHANGED <<answers, path, state>> /\ pc' = "respond"
        BY <3>6 DEF EndOfLoop, Serve, ParseRequest, request
      <4> QED
        BY <4>1
    <3> QED
      BY <1>5, <3>2, <3>3, <3>4, <3>5, <3>6 DEF ParseRequest
  <2> QED
    BY <1>2, <2>1
<1>6. CASE Respond
  <2>1. pc = "respond" /\ path' = path /\ pc' \in {"killed", "sent"}
        /\ \/ UNCHANGED answers /\ pc' = "killed"
           \/ \E r \in Responses : answers' = Append(answers, [to |-> path, response |-> r])
    BY <1>6 DEF Respond, request
  <2>2. CASE UNCHANGED answers /\ pc' = "killed"
    BY <1>b, <2>1, <2>2 DEF Order
  <2>3. ASSUME NEW r \in Responses, pc' = "sent",
               answers' = Append(answers, [to |-> path, response |-> r])
        PROVE  Order'
    <3>0. state' = state /\ (state # "REQUEST_LINE" => path # 0)
      BY <1>0, <1>6, <2>1 DEF Respond, request, Phase, Busy
    <3>1. state # "REQUEST_LINE" => \A i \in 1 .. Len(answers) : answers[i].to <= path
      BY <1>a, <1>b, <2>1
    <3>2. /\ Len(answers') = Len(answers) + 1
          /\ \A i \in 1 .. Len(answers) : answers'[i] = answers[i]
          /\ answers'[Len(answers) + 1].to = path
      BY <1>0, <2>3 DEF Typed
    <3>3. state # "REQUEST_LINE" => \A i \in 1 .. Len(answers') : answers'[i].to <= path'
      BY <1>a, <2>1, <3>1, <3>2
    <3>4. \A i \in 1 .. Len(answers') : answers'[i].to = 0 => state = "REQUEST_LINE"
      BY <1>a, <1>b, <2>1, <3>0, <3>2
    <3> QED
      BY <2>3, <3>0, <3>3, <3>4 DEF Order
  <2> QED
    BY <1>6, <2>1, <2>2, <2>3 DEF Respond
<1>7. CASE AfterWrite
  <2>1. /\ pc = "sent" /\ Serve /\ UNCHANGED <<answers, path, state>>
        /\ pc' \in {"process", "closed"}
        /\ pc' = "process" => keepHeader /\ state # "REQUEST_LINE"
    BY <1>0, <1>7 DEF AfterWrite, Serve, IsKeepAlive, request, Phase, Busy
  <2>2. ASSUME NEW i \in 1 .. Len(answers), pc' = "process"
        PROVE  Beyond(All', readPos', answers[i].to)
    <3>1. Beyond(All, readPos, path) /\ answers[i].to <= path
      BY <1>0, <1>b, <2>1, <2>2 DEF Phase, Busy
    <3>2. Beyond(All', readPos', path) /\ answers[i].to \in Nat
      BY <1>a, <1>c, <2>1, <3>1
    <3>3. Kept(All, asked) /\ All' = All /\ asked' = asked
      BY <1>0, <2>1, AllStays
    <3>4. readPos' \in Nat /\ Len(All) \in Nat
      BY <1>0, TypedStep, AllAt DEF Typed
    <3> QED
      BY <1>a, <3>1, <3>2, <3>3, <3>4, BeyondFewer
  <2> QED
    BY <1>b, <2>1, <2>2 DEF Order
<1>8. CASE UNCHANGED vars
  BY <1>0, <1>8 DEF vars, request, All, Order, Beyond, IsTarget
<1> QED
  BY <1>1, <1>3, <1>4, <1>5, <1>6, <1>7, <1>8 DEF Next, Serve

(* An answer that keeps the connection is to a request with the header.    *)
LEMMA AskedStep == IInv /\ [Next]_vars => AnswersAreAsked'
<1> SUFFICES ASSUME IInv, [Next]_vars PROVE AnswersAreAsked'
  OBVIOUS
<1>0. Typed /\ Phase /\ Order /\ AnswersAreAsked /\ Phase'
  BY PhaseStep DEF IInv
<1>a. /\ Len(answers) \in Nat /\ DOMAIN answers = 1 .. Len(answers)
      /\ Len(asked) \in Nat /\ DOMAIN asked = 1 .. Len(asked)
  BY <1>0 DEF Typed
<1>1. ASSUME NEW r \in Requests, Send(r) PROVE AnswersAreAsked'
  <2>1. /\ answers' = answers /\ DOMAIN asked \subseteq DOMAIN asked'
        /\ \A i \in DOMAIN asked : asked'[i] = asked[i]
    BY <1>0, <1>1 DEF Send, Typed
  <2> QED
    BY <1>0, <2>1 DEF AnswersAreAsked
<1>2. CASE Respond
  <2>1. pc = "respond" /\ asked' = asked /\ state' = state
        /\ \/ UNCHANGED answers
           \/ \E r \in Responses : pc' = "sent"
                /\ answers' = Append(answers, [to |-> path, response |-> r])
    BY <1>2 DEF Respond, request
  <2>2. CASE UNCHANGED answers
    BY <1>0, <2>1, <2>2 DEF AnswersAreAsked
  <2>3. ASSUME NEW r \in Responses, pc' = "sent",
               answers' = Append(answers, [to |-> path, response |-> r])
        PROVE  AnswersAreAsked'
    <3> DEFINE n == Len(answers) + 1
    <3>1. /\ DOMAIN answers' = 1 .. n /\ Len(answers') = n /\ n \in Nat
          /\ \A i \in 1 .. Len(answers) : answers'[i] = answers[i]
          /\ answers'[n].to = path /\ answers'[n].response = r
      BY <1>0, <2>3 DEF Typed
    <3>2. ASSUME NEW i \in 1 .. Len(answers)
          PROVE  /\ answers'[i].to \in DOMAIN asked
                 /\ answers'[i].response.keep => asked[answers'[i].to].keep
                 /\ \A j \in 1 .. i - 1 : answers'[j].to < answers'[i].to
      <4>1. answers[i].to # 0
        BY <1>0, <2>1 DEF Order
      <4>2. /\ answers[i].to \in DOMAIN asked
            /\ answers[i].response.keep => asked[answers[i].to].keep
            /\ \A j \in 1 .. i - 1 : answers[j].to < answers[i].to
        BY <1>0, <1>a, <4>1 DEF AnswersAreAsked
      <4>3. \A j \in 1 .. i - 1 : j \in 1 .. Len(answers)
        BY <1>a
      <4> QED
        BY <3>1, <4>2, <4>3
    <3>3. CASE state = "REQUEST_LINE"
      <4>1. path = 0 /\ ~parsed
        BY <1>0, <2>1, <3>3 DEF Phase, Busy
      <4>2. r.code # 200 /\ ~r.keep
        <5>1. r \in MakeResponse(400, FALSE, "directory")
          BY <4>1 DEF Responses
        <5>2. r.code = ResCode(400, "directory") /\ r.keep = FALSE
          BY <5>1 DEF MakeResponse
        <5> QED
          BY <5>2 DEF ResCode
      <4> QED
        BY <1>a, <2>1, <3>1, <3>2, <4>1, <4>2 DEF AnswersAreAsked
    <3>4. CASE state # "REQUEST_LINE"
      <4>1. path \in 1 .. Len(asked) /\ (keepHeader => asked[path].keep)
        BY <1>0, <2>1, <3>4 DEF Phase, Busy
      <4>2. r.keep => keepHeader
        BY DEF Responses, MakeResponse, IsKeepAlive
      <4>3. \A i \in 1 .. Len(answers) : answers[i].to < path
        BY <1>0, <2>1, <3>4 DEF Order
      <4>4. /\ answers'[n].to \in DOMAIN asked
            /\ answers'[n].response.keep => asked[answers'[n].to].keep
            /\ \A j \in 1 .. n - 1 : answers'[j].to < answers'[n].to
        BY <1>a, <3>1, <4>1, <4>2, <4>3
      <4> QED
        BY <1>a, <2>1, <3>1, <3>2, <4>4 DEF AnswersAreAsked
    <3> QED
      BY <3>3, <3>4
  <2> QED
    BY <2>1, <2>2, <2>3
<1>3. CASE UNCHANGED <<asked, answers>>
  BY <1>0, <1>3 DEF AnswersAreAsked
<1> QED
  BY <1>1, <1>2, <1>3
  DEF Next, Serve, Read, Process, ParseRequest, ParseRequestLine, BadRequestLine, ParseHeader,
      ParseBody, EndOfLoop, AfterWrite, InLoop, vars

LEMMA InitIInv == Init => IInv
<1> SUFFICES ASSUME Init PROVE IInv
  OBVIOUS
<1>1. Typed
  <2>1. /\ asked \in Seq(Requests) /\ answers \in Seq(Answer)
        /\ stream \in Seq(Token) /\ buff \in Seq(Token)
    BY DEF Init
  <2>2. readPos \in 0 .. Len(buff)
    BY DEF Init
  <2> QED
    BY <2>1, <2>2 DEF Init, Typed
<1>2. All = <<>> /\ Len(All) = 0 /\ answers = <<>> /\ Len(answers) = 0
  BY DEF Init, All
<1>3. Kept(All, asked)
  BY <1>2 DEF Kept
<1>4. Phase
  BY DEF Init, Phase, Busy
<1>5. Order /\ AnswersAreAsked
  BY <1>2 DEF Order, AnswersAreAsked
<1> QED
  BY <1>1, <1>3, <1>4, <1>5 DEF IInv

LEMMA Inductive == Spec => []IInv
<1>1. IInv /\ [Next]_vars => IInv'
  BY TypedStep, KeptStep, PhaseStep, OrderStep, AskedStep DEF IInv
<1> QED
  BY InitIInv, <1>1, PTL DEF Spec

(* Whatever the client sends, however the reads of the connection cut it   *)
(* and whatever is left in readBuff of a request that was answered early:  *)
(* ParseRequest gives the path and the header of one request together, no  *)
(* request is answered twice or out of order, and no answer keeps the      *)
(* connection of a request that did not ask for it.                        *)
THEOREM AskedInOrder == Spec => []AnswersAreAsked
<1>1. IInv => AnswersAreAsked
  BY DEF IInv
<1> QED
  BY Inductive, <1>1, PTL
-----------------------------------------------------------------------------
(* Where the pieces of a whole request are in readBuff.                    *)
LEMMA WholeAt ==
  ASSUME Typed, Whole, NoBare, NEW r, r = asked[Now], NEW b, b = Base
  PROVE  /\ b \in Nat /\ r \in Requests /\ r.keep \in BOOLEAN /\ r.body \in {"none", "line"}
         /\ Blank(r) \in Nat /\ Blank(r) >= 4 /\ (r.keep => Blank(r) = 8)
         /\ Body(r) = IF r.body = "line" THEN 3 ELSE 0
         /\ Now \in Nat
         /\ Len(buff) = b + Blank(r) + 2 + Body(r)
         /\ buff[b + 1] = Target(Now) /\ buff[b + 2] = Protocol
         /\ buff[b + 3] = CR /\ buff[b + 4] = LF
         /\ r.keep => /\ buff[b + 5] = Name /\ buff[b + 6] = Value
                      /\ buff[b + 7] = CR /\ buff[b + 8] = LF
         /\ buff[b + Blank(r) + 1] = CR /\ buff[b + Blank(r) + 2] = LF
         /\ r.body = "line" => /\ buff[b + Blank(r) + 3] = Data
                               /\ buff[b + Blank(r) + 4] = CR
                               /\ buff[b + Blank(r) + 5] = LF
<1> DEFINE t == Pieces(Now, r)
<1>1. Now \in 1 .. Len(asked) /\ b \in Nat
      /\ \A p \in 1 .. Len(t) : buff[b + p] = t[p]
  BY DEF Whole
<1>2. asked \in Seq(Requests) /\ Len(asked) \in Nat /\ Len(buff) \in Nat
  BY DEF Typed
<1>3. Now \in Nat /\ r \in Requests /\ r.body # "bare"
  BY <1>1, <1>2 DEF NoBare
<1>4. r.keep \in BOOLEAN /\ r.body \in {"none", "line"}
  BY <1>3, RequestsAssumption DEF Requests
<1>5. /\ t \in Seq(Token)
      /\ Len(t) = Blank(r) + 2 + Body(r)
      /\ t[1] = Target(Now) /\ t[2] = Protocol /\ t[3] = CR /\ t[4] = LF
      /\ r.keep => t[5] = Name /\ t[6] = Value /\ t[7] = CR /\ t[8] = LF
      /\ t[Blank(r) + 1] = CR /\ t[Blank(r) + 2] = LF
      /\ r.body = "line" => /\ t[Blank(r) + 3] = Data
                            /\ t[Blank(r) + 4] = CR /\ t[Blank(r) + 5] = LF
  BY <1>3, PiecesAt
<1>6. Len(buff) = b + Len(t)
  <2>1. Len(t) \in Nat
    BY <1>5
  <2> QED
    BY <1>2, <2>1 DEF Base
<1>7. /\ Blank(r) \in Nat /\ Blank(r) >= 4 /\ (r.keep => Blank(r) = 8)
      /\ Body(r) = IF r.body = "line" THEN 3 ELSE 0
  BY <1>4 DEF Blank, Body
<1> HIDE DEF t
<1>s. /\ b \in Nat /\ Blank(r) \in Nat /\ Blank(r) >= 4 /\ Body(r) \in Nat
      /\ Len(t) = Blank(r) + 2 + Body(r)
      /\ r.keep => Blank(r) = 8
      /\ r.body = "line" => Body(r) = 3
  BY <1>1, <1>5, <1>7
<1>8. /\ 1 \in 1 .. Len(t) /\ 2 \in 1 .. Len(t) /\ 3 \in 1 .. Len(t) /\ 4 \in 1 .. Len(t)
      /\ Blank(r) + 1 \in 1 .. Len(t) /\ Blank(r) + 2 \in 1 .. Len(t)
      /\ b + (Blank(r) + 1) = b + Blank(r) + 1 /\ b + (Blank(r) + 2) = b + Blank(r) + 2
  BY <1>s
<1>9. /\ buff[b + 1] = Target(Now) /\ buff[b + 2] = Protocol
      /\ buff[b + 3] = CR /\ buff[b + 4] = LF
      /\ buff[b + Blank(r) + 1] = CR /\ buff[b + Blank(r) + 2] = LF
  <2>1. /\ buff[b + (Blank(r) + 1)] = t[Blank(r) + 1]
        /\ buff[b + (Blank(r) + 2)] = t[Blank(r) + 2]
    BY <1>1, <1>8
  <2> QED
    BY <1>1, <1>5, <1>8, <2>1
<1>10. ASSUME r.keep
       PROVE  /\ buff[b + 5] = Name /\ buff[b + 6] = Value
              /\ buff[b + 7] = CR /\ buff[b + 8] = LF
  <2>1. 5 \in 1 .. Len(t) /\ 6 \in 1 .. Len(t) /\ 7 \in 1 .. Len(t) /\ 8 \in 1 .. Len(t)
    BY <1>s, <1>10
  <2> QED
    BY <1>1, <1>5, <1>10, <2>1
<1>11. ASSUME r.body = "line"
       PROVE  /\ buff[b + Blank(r) + 3] = Data
              /\ buff[b + Blank(r) + 4] = CR /\ buff[b + Blank(r) + 5] = LF
  <2>1. /\ Blank(r) + 3 \in 1 .. Len(t) /\ b + (Blank(r) + 3) = b + Blank(r) + 3
        /\ Blank(r) + 4 \in 1 .. Len(t) /\ b + (Blank(r) + 4) = b + Blank(r) + 4
        /\ Blank(r) + 5 \in 1 .. Len(t) /\ b + (Blank(r) + 5) = b + Blank(r) + 5
    <3>1. b \in Nat /\ Blank(r) \in Nat /\ Len(t) = Blank(r) + 5
      BY <1>s, <1>11
    <3> QED
      BY <3>1, SMTT(30)
  <2>2. /\ buff[b + (Blank(r) + 3)] = t[Blank(r) + 3]
        /\ buff[b + (Blank(r) + 4)] = t[Blank(r) + 4]
        /\ buff[b + (Blank(r) + 5)] = t[Blank(r) + 5]
    BY <1>1, <2>1
  <2> QED
    BY <1>5, <1>11, <2>1, <2>2
<1>12. Len(buff) = b + Blank(r) + 2 + Body(r)
  BY <1>s, <1>6
<1> QED
  BY <1>1, <1>3, <1>4, <1>7, <1>9, <1>10, <1>11, <1>12

(* The lines of a whole request.                                           *)
LEMMA WholeLines ==
  ASSUME Typed, Whole, NoBare, NEW r, r = asked[Now], NEW b, b = Base
  PROVE  /\ readPos = b => /\ Ends # {} /\ LineLen = 2
                           /\ Line[1] = Target(Now) /\ Line[2] = Protocol
         /\ readPos = b + 4 /\ r.keep => /\ Ends # {} /\ LineLen = 2
                                         /\ Line = <<Name, Value>>
                                         /\ Len(Readable) > 2
         /\ readPos = b + Blank(r) => /\ Ends # {} /\ LineLen = 0 /\ Line = <<>>
                                      /\ AtMostTwo <=> r.body # "line"
         /\ readPos = b + Blank(r) + 2 /\ r.body = "line" => Ends # {} /\ LineLen = 1
<1>1. /\ b \in Nat /\ r.keep \in BOOLEAN /\ r.body \in {"none", "line"}
      /\ Blank(r) \in Nat /\ Blank(r) >= 4 /\ (r.keep => Blank(r) = 8)
      /\ Body(r) = IF r.body = "line" THEN 3 ELSE 0
      /\ Len(buff) = b + Blank(r) + 2 + Body(r)
      /\ buff[b + 1] = Target(Now) /\ buff[b + 2] = Protocol
      /\ buff[b + 3] = CR /\ buff[b + 4] = LF
      /\ r.keep => /\ buff[b + 5] = Name /\ buff[b + 6] = Value
                   /\ buff[b + 7] = CR /\ buff[b + 8] = LF
      /\ buff[b + Blank(r) + 1] = CR /\ buff[b + Blank(r) + 2] = LF
      /\ r.body = "line" => /\ buff[b + Blank(r) + 3] = Data
                            /\ buff[b + Blank(r) + 4] = CR
                            /\ buff[b + Blank(r) + 5] = LF
  BY WholeAt, ZenonT(30)
<1>2. /\ Len(Readable) = Len(buff) - readPos
      /\ \A p \in 1 .. Len(Readable) : Readable[p] = buff[readPos + p]
      /\ Line \in Seq(Token) /\ Len(Line) = LineLen
      /\ \A p \in 1 .. LineLen : Line[p] = buff[readPos + p]
  BY Lines
<1>s. /\ b \in Nat /\ Blank(r) \in Nat /\ Blank(r) >= 4
      /\ r.keep => Blank(r) = 8
  BY <1>1
<1>r. Body(r) \in Nat
  BY <1>1
<1>t. Len(buff) = b + Blank(r) + 2 + Body(r)
  BY <1>1
<1>v. Len(Readable) = (b + Blank(r) + 2 + Body(r)) - readPos
  <2>1. Len(Readable) = Len(buff) - readPos
    BY <1>2
  <2> QED
    BY <1>t, <2>1
<1>u. IF r.body = "line" THEN Body(r) = 3 ELSE Body(r) = 0
  BY <1>1
<1>3. Target(Now) # CR /\ Protocol # CR /\ Name # CR /\ Value # CR /\ Data # CR
  BY DEF Target, Protocol, Name, Value, Data, CR
<1>4. ASSUME readPos = b
      PROVE  /\ Ends # {} /\ LineLen = 2
             /\ Line[1] = Target(Now) /\ Line[2] = Protocol
  <2>1. readPos + 2 + 2 <= Len(buff) /\ readPos + 2 + 1 = b + 3 /\ readPos + 2 + 2 = b + 4
    BY <1>r, <1>s, <1>t, <1>u, <1>v, <1>4
  <2>2. \A p \in 1 .. 2 : buff[readPos + p] # CR
    <3>1. \A p \in 1 .. 2 : readPos + p = b + 1 \/ readPos + p = b + 2
      BY <1>r, <1>s, <1>t, <1>u, <1>v, <1>4
    <3> QED
      BY <1>1, <1>3, <3>1
  <2>3. Ends # {} /\ LineLen = 2
    BY <1>1, <2>1, <2>2, LineEnds
  <2> QED
    BY <1>1, <1>2, <1>4, <2>3
<1>5. ASSUME readPos = b + 4, r.keep
      PROVE  /\ Ends # {} /\ LineLen = 2 /\ Line = <<Name, Value>> /\ Len(Readable) > 2
  <2>1. readPos + 2 + 2 <= Len(buff) /\ readPos + 2 + 1 = b + 7 /\ readPos + 2 + 2 = b + 8
        /\ readPos + 1 = b + 5 /\ readPos + 2 = b + 6
    BY <1>r, <1>s, <1>t, <1>u, <1>v, <1>5
  <2>2. \A p \in 1 .. 2 : buff[readPos + p] # CR
    <3>1. \A p \in 1 .. 2 : readPos + p = b + 5 \/ readPos + p = b + 6
      BY <1>s, <1>5, SMTT(30)
    <3> QED
      BY <1>1, <1>3, <1>5, <3>1
  <2>3. Ends # {} /\ LineLen = 2
    BY <1>1, <1>5, <2>1, <2>2, LineEnds
  <2>4. Line[1] = Name /\ Line[2] = Value
    BY <1>1, <1>2, <1>5, <2>1, <2>3
  <2>5. Line = <<Name, Value>>
    BY <1>2, <2>3, <2>4
  <2>6. Len(Readable) > 2
    BY <1>r, <1>s, <1>t, <1>u, <1>v, <1>5
  <2> QED
    BY <2>3, <2>5, <2>6
<1>6. ASSUME readPos = b + Blank(r)
      PROVE  Ends # {} /\ LineLen = 0 /\ Line = <<>> /\ (AtMostTwo <=> r.body # "line")
  <2>a. readPos + 0 + 2 <= Len(buff)
    BY <1>r, <1>s, <1>t, <1>6
  <2>b. readPos + 0 + 1 = b + Blank(r) + 1 /\ readPos + 0 + 2 = b + Blank(r) + 2
    BY <1>s, <1>6
  <2>c. readPos + 1 = b + Blank(r) + 1 /\ readPos + 2 = b + Blank(r) + 2
    BY <1>s, <1>6
  <2>1. Len(Readable) = 2 + Body(r)
    BY <1>r, <1>s, <1>v, <1>6
  <2>2. Ends # {} /\ LineLen = 0
    <3>1. \A p \in 1 .. 0 : buff[readPos + p] # CR
      OBVIOUS
    <3> QED
      BY <1>1, <2>a, <2>b, <3>1, LineEnds
  <2>3. Line = <<>>
    BY <1>2, <2>2
  <2>4. CASE r.body = "line"
    <3>1. ~(Len(Readable) <= 2)
      BY <1>r, <1>s, <1>t, <1>u, <1>v, <2>1, <2>4
    <3> QED
      BY <2>2, <2>3, <2>4, <3>1 DEF AtMostTwo
  <2>5. CASE r.body # "line"
    <3>1. Readable[1] = CR /\ Readable[2] = LF /\ Len(Readable) = 2
      <4>1. Len(Readable) = 2
        BY <1>u, <2>1, <2>5
      <4>2. 1 \in 1 .. Len(Readable) /\ 2 \in 1 .. Len(Readable)
        BY <4>1
      <4>3. Readable[1] = buff[readPos + 1] /\ Readable[2] = buff[readPos + 2]
        BY <1>2, <4>2
      <4> QED
        BY <1>1, <2>c, <4>1, <4>3
    <3>2. DOMAIN Readable = 1 .. 2
      <4>1. Readable \in Seq(Token)
        BY DEF Readable, Typed
      <4> QED
        BY <3>1, <4>1
    <3>3. Range(Readable) \subseteq {CR, LF}
      BY <3>1, <3>2 DEF Range
    <3> QED
      BY <2>2, <2>3, <2>5, <3>1, <3>3 DEF AtMostTwo
  <2> QED
    BY <2>4, <2>5
<1>7. ASSUME readPos = b + Blank(r) + 2, r.body = "line"
      PROVE  Ends # {} /\ LineLen = 1
  <2>a. readPos + 1 + 2 <= Len(buff)
    BY <1>s, <1>t, <1>u, <1>7
  <2>b. readPos + 1 + 1 = b + Blank(r) + 4 /\ readPos + 1 + 2 = b + Blank(r) + 5
    BY <1>s, <1>7
  <2>c. readPos + 1 = b + Blank(r) + 3
    BY <1>s, <1>7
  <2>2. \A p \in 1 .. 1 : buff[readPos + p] # CR
    <3>1. buff[readPos + 1] # CR
      <4>1. buff[b + Blank(r) + 3] = Data
        BY <1>1, <1>7
      <4> QED
        BY <1>3, <2>c, <4>1
    <3> QED
      BY <3>1
  <2> QED
    BY <1>1, <1>7, <2>a, <2>b, <2>2, LineEnds
<1> QED
  BY <1>4, <1>5, <1>6, <1>7
-----------------------------------------------------------------------------
(* A step of the loop goes on in the whole request.                        *)
LEMMA TidiedParse ==
  ASSUME Typed, Phase, Tidied, tidy, NoBare, ParseRequest
  PROVE  /\ UNCHANGED <<asked, buff, answers, tidy>>
         /\ pc' = "parse" => Parsing(asked[Now])'
         /\ pc' \in {"parse", "respond"}
         /\ pc' = "respond" => /\ path' = Now /\ version11'
                               /\ keepHeader' = asked[Now].keep
                               /\ parsed' /\ readPos' = Len(buff)
<1> DEFINE r == asked[Now]
           b == Base
<1>0. UNCHANGED <<asked, buff, answers, tidy>> /\ pc = "parse"
  BY DEF ParseRequest, ParseRequestLine, BadRequestLine, ParseHeader, ParseBody, EndOfLoop, InLoop
<1>1. Now' = Now /\ Base' = b /\ asked'[Now'] = r
  BY <1>0 DEF Now, Base
<1>2. Whole /\ Parsing(r)
  BY <1>0 DEF Tidied
<1>3. /\ b \in Nat /\ r.keep \in BOOLEAN /\ r.body \in {"none", "line"}
      /\ Blank(r) \in Nat /\ Blank(r) >= 4 /\ (r.keep => Blank(r) = 8)
      /\ Body(r) = IF r.body = "line" THEN 3 ELSE 0
      /\ Len(buff) = b + Blank(r) + 2 + Body(r)
  BY <1>2, WholeAt
<1>4. ~r.keep => Blank(r) = 4
  BY DEF Blank
<1>5. /\ readPos = b => /\ Ends # {} /\ LineLen = 2
                        /\ Line[1] = Target(Now) /\ Line[2] = Protocol
      /\ readPos = b + 4 /\ r.keep => /\ Ends # {} /\ LineLen = 2
                                      /\ Line = <<Name, Value>>
                                      /\ Len(Readable) > 2
      /\ readPos = b + Blank(r) => /\ Ends # {} /\ LineLen = 0 /\ Line = <<>>
                                   /\ AtMostTwo <=> r.body # "line"
      /\ readPos = b + Blank(r) + 2 /\ r.body = "line" => Ends # {} /\ LineLen = 1
  BY <1>2, WholeLines
<1>6. Line \in Seq(Token) /\ Len(Line) = LineLen
  BY Lines
<1>a. Now \in Nat /\ Now # 0
  BY DEF Now, Typed
<1>p. Parsing(asked[Now])' <=>
        \/ state' = "REQUEST_LINE" /\ readPos' = b
        \/ /\ path' = Now /\ version11'
           /\ \/ state' = "HEADERS" /\ readPos' = b + 4 /\ ~keepHeader' /\ r.keep
              \/ state' = "HEADERS" /\ readPos' = b + Blank(r) /\ keepHeader' = r.keep
              \/ /\ state' = "BODY" /\ readPos' = b + Blank(r) + 2 /\ keepHeader' = r.keep
                 /\ r.body = "line"
              \/ state' = "FINISH" /\ readPos' = Len(buff) /\ keepHeader' = r.keep
  BY <1>0, <1>1 DEF Parsing, Blank
<1>q. \/ state = "REQUEST_LINE" /\ readPos = b
      \/ /\ path = Now /\ version11
         /\ \/ state = "HEADERS" /\ readPos = b + 4 /\ ~keepHeader /\ r.keep
            \/ state = "HEADERS" /\ readPos = b + Blank(r) /\ keepHeader = r.keep
            \/ /\ state = "BODY" /\ readPos = b + Blank(r) + 2 /\ keepHeader = r.keep
               /\ r.body = "line"
            \/ state = "FINISH" /\ readPos = Len(buff) /\ keepHeader = r.keep
  BY <1>2 DEF Parsing
<1> HIDE DEF r, b
<1>7. ASSUME Ends # {}, Advance
      PROVE  readPos' = readPos + LineLen + 2 /\ pc' = "parse"
  BY <1>0, <1>7 DEF Advance
<1>8. CASE state = "REQUEST_LINE"
  <2>1. readPos = b /\ ~keepHeader
    BY <1>0, <1>8, <1>q DEF Phase, Busy
  <2>2. Ends # {} /\ LineLen = 2 /\ Line[1] = Target(Now) /\ Line[2] = Protocol
    BY <1>5, <2>1
  <2>3. DOMAIN Line = {1, 2}
    BY <1>6, <2>2
  <2>4. RequestLineAt(1)
    BY <2>2, <2>3 DEF RequestLineAt, Target
  <2>5. \A p \in DOMAIN Line : RequestLineAt(p) => p = 1
    BY <2>3 DEF RequestLineAt
  <2>6. ParseRequestLine
    <3>1. ~BadRequestLine /\ ~ParseHeader /\ ~ParseBody
      BY <1>8, <2>3, <2>4 DEF BadRequestLine, ParseHeader, ParseBody, InLoop
    <3>2. ~EndOfLoop
      <4>1. Readable # <<>>
        <5>1. Len(Readable) = Len(buff) - readPos /\ readPos < Len(buff)
          BY <1>0, <1>8, Lines DEF Phase
        <5>2. readPos \in Nat /\ Len(buff) \in Nat
          BY DEF Typed
        <5> QED
          BY <5>1, <5>2
      <4> QED
        BY <1>8, <4>1 DEF EndOfLoop
    <3> QED
      BY <3>1, <3>2 DEF ParseRequest
  <2>7. path' = Now /\ version11' /\ state' = "HEADERS" /\ keepHeader' = keepHeader /\ Advance
    <3>1. PICK p \in DOMAIN Line :
            RequestLineAt(p) /\ path' = Line[p][2] /\ version11' = (p + 1 = Len(Line))
      BY <2>6 DEF ParseRequestLine
    <3>2. p = 1
      BY <2>5, <3>1
    <3>3. path' = Now /\ version11'
      <4>1. path' = Now
        BY <2>2, <3>1, <3>2 DEF Target
      <4>2. 1 + 1 = Len(Line)
        BY <1>6, <2>2
      <4> QED
        BY <3>1, <3>2, <4>1, <4>2
    <3> QED
      BY <2>6, <3>3 DEF ParseRequestLine
  <2>8. readPos' = b + 4 /\ pc' = "parse"
    BY <1>3, <1>7, <2>1, <2>2, <2>7
  <2>9. keepHeader' = FALSE
    BY <2>1, <2>7 DEF Typed
  <2>10. CASE r.keep
    BY <1>0, <1>p, <2>7, <2>8, <2>9, <2>10
  <2>11. CASE ~r.keep
    <3>1. readPos' = b + Blank(r) /\ keepHeader' = r.keep
      BY <1>3, <1>4, <2>8, <2>9, <2>11
    <3> QED
      BY <1>0, <1>p, <2>7, <2>8, <3>1
  <2> QED
    BY <2>10, <2>11
<1>9. CASE state = "HEADERS"
  <2>1. path = Now /\ version11
    BY <1>9, <1>q
  <2>2. ParseHeader
    <3>1. ~BadRequestLine /\ ~ParseRequestLine /\ ~ParseBody
      BY <1>9 DEF BadRequestLine, ParseRequestLine, ParseBody, InLoop
    <3>2. Readable # <<>>
      <4>1. Ends # {}
        BY <1>5, <1>9, <1>q
      <4> QED
        BY <4>1 DEF Ends
    <3> QED
      BY <1>9, <3>1, <3>2 DEF ParseRequest, EndOfLoop
  <2>3. /\ keepHeader' = (keepHeader \/ Line = <<Name, Value>>)
        /\ state' = CASE AtMostTwo -> "FINISH"
                      [] ~AtMostTwo /\ IsHeader -> "HEADERS"
                      [] OTHER -> "BODY"
        /\ Advance /\ path' = path /\ version11' = version11
    BY <2>2 DEF ParseHeader
  <2>4. CASE readPos = b + 4 /\ ~keepHeader /\ r.keep
    <3>1. Ends # {} /\ LineLen = 2 /\ Line = <<Name, Value>> /\ Len(Readable) > 2
      BY <1>5, <2>4
    <3>2. ~AtMostTwo
      <4>1. Len(Readable) \in Int
        BY Lines DEF Typed
      <4> QED
        BY <3>1, <4>1 DEF AtMostTwo
    <3>3. IsHeader
      BY <3>1 DEF IsHeader, Last
    <3>4. state' = "HEADERS" /\ keepHeader'
      BY <2>3, <3>1, <3>2, <3>3
    <3>5. readPos' = b + 8 /\ pc' = "parse"
      BY <1>3, <1>7, <2>3, <2>4, <3>1
    <3>6. readPos' = b + Blank(r) /\ keepHeader' = r.keep
      BY <1>3, <2>4, <3>4, <3>5
    <3> QED
      BY <1>0, <1>p, <2>1, <2>3, <3>4, <3>5, <3>6
  <2>5. CASE readPos = b + Blank(r) /\ keepHeader = r.keep
    <3>1. Ends # {} /\ LineLen = 0 /\ Line = <<>> /\ (AtMostTwo <=> r.body # "line")
      BY <1>5, <2>5
    <3>2. ~IsHeader /\ Line # <<Name, Value>>
      BY <3>1 DEF IsHeader
    <3>3. keepHeader' = r.keep
      BY <1>3, <2>3, <2>5, <3>2
    <3>4. readPos' = b + Blank(r) + 2 /\ pc' = "parse"
      BY <1>3, <1>7, <2>3, <2>5, <3>1
    <3>5. CASE r.body = "line"
      <4>1. state' = "BODY"
        BY <2>3, <3>1, <3>2, <3>5
      <4> QED
        BY <1>0, <1>p, <2>1, <2>3, <3>3, <3>4, <3>5, <4>1
    <3>6. CASE r.body # "line"
      <4>1. state' = "FINISH"
        BY <2>3, <3>1, <3>6
      <4>2. readPos' = Len(buff)
        BY <1>3, <3>4, <3>6
      <4> QED
        BY <1>0, <1>p, <2>1, <2>3, <3>3, <3>4, <4>1, <4>2
    <3> QED
      BY <3>5, <3>6
  <2> QED
    BY <1>9, <1>q, <2>4, <2>5
<1>10. CASE state = "BODY"
  <2>1. /\ path = Now /\ version11 /\ keepHeader = r.keep /\ r.body = "line"
        /\ readPos = b + Blank(r) + 2
    BY <1>10, <1>q
  <2>2. Ends # {} /\ LineLen = 1
    BY <1>5, <2>1
  <2>3. ParseBody
    <3>1. Readable # <<>>
      BY <2>2 DEF Ends
    <3> QED
      BY <1>10, <3>1
      DEF ParseRequest, BadRequestLine, ParseRequestLine, ParseHeader, EndOfLoop, InLoop
  <2>4. /\ state' = "FINISH" /\ Advance
        /\ path' = path /\ version11' = version11 /\ keepHeader' = keepHeader
    BY <2>3 DEF ParseBody
  <2>5. readPos' = readPos + 3 /\ pc' = "parse"
    <3>1. readPos' = readPos + LineLen + 2 /\ pc' = "parse"
      BY <1>7, <2>2, <2>4
    <3> QED
      BY <1>3, <2>1, <2>2, <3>1
  <2>6. readPos' = Len(buff)
    BY <1>3, <2>1, <2>5
  <2> QED
    BY <1>0, <1>p, <2>1, <2>4, <2>5, <2>6
<1>11. CASE state = "FINISH"
  <2>1. path = Now /\ version11 /\ keepHeader = r.keep /\ readPos = Len(buff)
    BY <1>11, <1>q
  <2>2. EndOfLoop
    BY <1>11
    DEF ParseRequest, BadRequestLine, ParseRequestLine, ParseHeader, ParseBody, InLoop
  <2>3. pc' = "respond" /\ parsed' = TRUE /\ UNCHANGED <<path, version11, keepHeader, readPos>>
    BY <2>2 DEF EndOfLoop, request
  <2> QED
    BY <1>0, <2>1, <2>3 DEF r
<1> QED
  BY <1>8, <1>9, <1>10, <1>11 DEF Typed

LEMMA TidiedStep == IInv /\ Tidied /\ [Next]_vars => Tidied'
<1> SUFFICES ASSUME IInv, Tidied, [Next]_vars, tidy', NoBare'
             PROVE  /\ \A i \in 1 .. Len(answers') : Answered(i)'
                    /\ pc' \in {"wait", "sent"} => readPos' = Len(buff')
                    /\ pc' = "process" /\ readPos' < Len(buff') => Whole' /\ readPos' = Base'
                    /\ pc' = "parse" => Whole' /\ Parsing(asked[Now])'
                    /\ pc' = "respond" =>
                         /\ Now' \in 1 .. Len(asked') /\ path' = Now' /\ version11'
                         /\ keepHeader' = asked'[Now'].keep
                         /\ parsed' /\ readPos' = Len(buff')
                    /\ pc' = "killed" =>
                         /\ Now' \in 1 .. Len(asked') /\ path' = Now'
                         /\ asked'[Now'].kind # "missing"
  BY DEF Tidied
<1>0. Typed /\ Phase /\ AnswersAreAsked /\ Typed'
  BY TypedStep DEF IInv
<1>a. /\ Len(asked) \in Nat /\ Len(answers) \in Nat /\ Len(buff) \in Nat /\ readPos \in Nat
      /\ readPos <= Len(buff) /\ DOMAIN answers = 1 .. Len(answers)
      /\ DOMAIN asked = 1 .. Len(asked)
  BY <1>0 DEF Typed
<1>b. Len(Readable) = Len(buff) - readPos
  BY <1>0, Lines
<1>1. ASSUME NEW r \in Requests, Send(r)
      PROVE  Tidied'
  <2>1. /\ UNCHANGED <<buff, readPos, pc, state, path, version11, keepHeader, parsed, answers, tidy>>
        /\ asked' = Append(asked, r) /\ asked \in Seq(Requests)
    BY <1>0, <1>1 DEF Send, request, Typed
  <2>2. /\ Len(asked') = Len(asked) + 1
        /\ \A i \in 1 .. Len(asked) : asked'[i] = asked[i]
        /\ 1 .. Len(asked) \subseteq 1 .. Len(asked')
    BY <2>1
  <2>3. tidy /\ NoBare
    BY <2>1, <2>2 DEF NoBare
  <2>4. ASSUME NEW i \in 1 .. Len(answers) PROVE Answered(i)'
    <3>1. Answered(i)
      BY <2>3 DEF Tidied
    <3>2. asked'[i] = asked[i]
      BY <1>0, <1>a, <2>2, <3>1 DEF AnswersAreAsked, Answered
    <3> QED
      BY <2>1, <3>1, <3>2 DEF Answered
  <2>5. Now' = Now
    BY <2>1 DEF Now
  <2>6. Now \in 1 .. Len(asked) => asked'[Now'] = asked[Now] /\ Base' = Base
    BY <2>1, <2>2, <2>5 DEF Base
  <2>7. Whole => Whole' /\ Base' = Base /\ asked'[Now'] = asked[Now]
    <3>1. Now \in 1 .. Len(asked) => Now' \in 1 .. Len(asked')
      BY <2>2, <2>5
    <3> QED
      BY <2>1, <2>5, <2>6, <3>1 DEF Whole
  <2>8. Whole /\ Parsing(asked[Now]) => Parsing(asked[Now])'
    BY <2>1, <2>5, <2>7 DEF Parsing, Blank
  <2>9. Now \in 1 .. Len(asked) => Now' \in 1 .. Len(asked')
    BY <2>2, <2>5
  <2> QED
    BY <2>1, <2>3, <2>4, <2>5, <2>6, <2>7, <2>8, <2>9 DEF Tidied
<1>2. ASSUME NEW n \in 1 .. Len(stream), Read(n) PROVE Tidied'
  <2> DEFINE got == SubSeq(stream, 1, n)
  <2>1. /\ pc = "wait" /\ pc' = "process" /\ UNCHANGED <<asked, answers, readPos>>
        /\ buff' = buff \o got /\ tidy /\ readPos = Len(buff)
        /\ Now \in DOMAIN asked /\ got = Pieces(Now, asked[Now])
    BY <1>2 DEF Read, Now
  <2>2. NoBare
    BY <2>1 DEF NoBare
  <2>3. ASSUME NEW i \in 1 .. Len(answers) PROVE Answered(i)'
    BY <2>1, <2>2 DEF Tidied, Answered
  <2>4. got \in Seq(Token) /\ buff \in Seq(Token) /\ Len(got) \in Nat
    BY <1>0 DEF Typed
  <2>5. Now' = Now /\ asked'[Now'] = asked[Now]
    BY <2>1 DEF Now
  <2> HIDE DEF got
  <2>6. /\ Len(buff') = Len(buff) + Len(got)
        /\ \A p \in 1 .. Len(got) : buff'[Len(buff) + p] = got[p]
    BY <2>1, <2>4
  <2>7. Base' = Len(buff)
    BY <1>a, <2>1, <2>4, <2>5, <2>6 DEF Base
  <2>8. Whole' /\ readPos' = Base'
    BY <1>a, <2>1, <2>5, <2>6, <2>7 DEF Whole
  <2> QED
    BY <2>1, <2>3, <2>8 DEF Tidied
<1>3. ASSUME UNCHANGED <<asked, answers>>, tidy, NoBare, NEW i \in 1 .. Len(answers)
      PROVE  Answered(i)'
  BY <1>3 DEF Tidied, Answered
<1>4. CASE Process
  <2>1. /\ pc = "process" /\ UNCHANGED <<asked, stream, buff, readPos, answers, tidy>>
        /\ state' = "REQUEST_LINE"
        /\ pc' = IF Readable = <<>> THEN "wait" ELSE "parse"
    BY <1>4 DEF Process, Clear
  <2>2. tidy /\ NoBare
    BY <2>1 DEF NoBare
  <2>3. Now' = Now /\ Base' = Base /\ (Whole => Whole')
    BY <2>1 DEF Now, Base, Whole
  <2>4. Readable \in Seq(Token)
    BY <1>0 DEF Readable, Typed
  <2>5. CASE Readable = <<>>
    <3>1. readPos' = Len(buff')
      BY <1>a, <1>b, <2>1, <2>4, <2>5
    <3> QED
      BY <1>3, <2>1, <2>2, <2>5, <3>1 DEF Tidied
  <2>6. CASE Readable # <<>>
    <3>1. readPos < Len(buff)
      BY <1>a, <1>b, <2>4, <2>6
    <3>2. Whole /\ readPos = Base
      BY <2>1, <2>2, <3>1 DEF Tidied
    <3>3. Whole' /\ Parsing(asked[Now])'
      BY <2>1, <2>3, <3>2 DEF Parsing
    <3> QED
      BY <1>3, <2>1, <2>2, <2>6, <3>3 DEF Tidied
  <2> QED
    BY <2>5, <2>6
<1>5. CASE ParseRequest
  <2>1. tidy /\ NoBare /\ pc = "parse"
    <3>1. /\ pc = "parse" /\ UNCHANGED <<asked, tidy>>
      BY <1>5 DEF ParseRequest, ParseRequestLine, BadRequestLine, ParseHeader, ParseBody,
                  EndOfLoop, InLoop
    <3> QED
      BY <3>1 DEF NoBare
  <2>2. /\ UNCHANGED <<asked, buff, answers, tidy>>
        /\ pc' = "parse" => Parsing(asked[Now])'
        /\ pc' \in {"parse", "respond"}
        /\ pc' = "respond" => /\ path' = Now /\ version11'
                              /\ keepHeader' = asked[Now].keep
                              /\ parsed' /\ readPos' = Len(buff)
    BY <1>0, <1>5, <2>1, TidiedParse
  <2>3. Whole
    BY <2>1 DEF Tidied
  <2>4. Whole' /\ Now' = Now
    BY <2>2, <2>3 DEF Whole, Base, Now
  <2>5. Now \in 1 .. Len(asked)
    BY <2>3 DEF Whole
  <2> QED
    BY <1>3, <2>1, <2>2, <2>4, <2>5 DEF Tidied
<1>6. CASE Respond
  <2>1. pc = "respond" /\ UNCHANGED <<asked, buff, readPos, tidy>>
    BY <1>6 DEF Respond
  <2>2. tidy /\ NoBare
    BY <2>1 DEF NoBare
  <2>3. /\ Now \in 1 .. Len(asked) /\ path = Now /\ version11
        /\ keepHeader = asked[Now].keep /\ parsed /\ readPos = Len(buff)
    BY <2>1, <2>2 DEF Tidied
  <2>4. PICK s \in Responses :
          IF s.content = "fault"
            THEN pc' = "killed" /\ UNCHANGED answers
            ELSE /\ pc' = "sent"
                 /\ answers' = Append(answers, [to |-> path, response |-> s])
    BY <1>6 DEF Respond
  <2> DEFINE r == asked[Now]
  <2>5. r \in Requests /\ r.keep \in BOOLEAN /\ r.kind \in Kinds
    <3>1. r \in Requests
      BY <1>0, <2>3 DEF Typed
    <3> QED
      BY <3>1, RequestsAssumption DEF Requests
  <2>6. IsKeepAlive = r.keep
    BY <2>3, <2>5 DEF IsKeepAlive
  <2>7. s \in MakeResponse(200, r.keep, r.kind)
    BY <2>3, <2>4, <2>6 DEF Responses
  <2>8. CASE s.content = "fault"
    <3>1. "fault" \in Contents(r.kind)
      BY <2>7, <2>8 DEF MakeResponse
    <3>2. r.kind # "missing"
      BY <3>1 DEF Contents
    <3>3. Now' = Now /\ path' = path
      BY <1>6, <2>4, <2>8 DEF Respond, request, Now
    <3> QED
      BY <1>3, <2>1, <2>2, <2>3, <2>4, <2>8, <3>2, <3>3 DEF Tidied
  <2>9. CASE s.content # "fault"
    <3>1. pc' = "sent" /\ answers' = Append(answers, [to |-> path, response |-> s])
      BY <2>4, <2>9
    <3>2. answers \in Seq(Answer)
      BY <1>0 DEF Typed
    <3>3. /\ Len(answers') = Now
          /\ \A i \in 1 .. Len(answers) : answers'[i] = answers[i]
          /\ answers'[Now] = [to |-> path, response |-> s]
      BY <3>1, <3>2 DEF Now
    <3>4. ASSUME NEW i \in 1 .. Len(answers') PROVE Answered(i)'
      <4>1. CASE i = Now
        BY <2>1, <2>3, <2>7, <3>3, <4>1 DEF Answered
      <4>2. CASE i \in 1 .. Len(answers)
        <5>1. Answered(i)
          BY <2>2, <4>2 DEF Tidied
        <5> QED
          BY <2>1, <3>3, <4>2, <5>1 DEF Answered
      <4> QED
        BY <1>a, <3>3, <4>1, <4>2 DEF Now
    <3> QED
      BY <2>1, <2>3, <3>1, <3>4 DEF Tidied
  <2> QED
    BY <2>8, <2>9
<1>7. CASE AfterWrite
  <2>1. /\ pc = "sent" /\ UNCHANGED <<asked, buff, readPos, answers, tidy>>
        /\ pc' \in {"process", "closed"}
    BY <1>7 DEF AfterWrite
  <2>2. tidy /\ NoBare
    BY <2>1 DEF NoBare
  <2>3. readPos = Len(buff)
    BY <2>1, <2>2 DEF Tidied
  <2> QED
    BY <1>3, <1>a, <2>1, <2>2, <2>3 DEF Tidied
<1>8. CASE UNCHANGED vars
  <2>1. UNCHANGED <<asked, buff, readPos, pc, state, path, version11, keepHeader, parsed, answers, tidy>>
    BY <1>8 DEF vars, request
  <2>2. tidy /\ NoBare
    BY <2>1 DEF NoBare
  <2>3. Now' = Now /\ Base' = Base /\ (Whole => Whole')
        /\ (Parsing(asked[Now]) => Parsing(asked[Now])')
    BY <2>1 DEF Now, Base, Whole, Parsing, Blank
  <2> QED
    BY <1>3, <2>1, <2>2, <2>3 DEF Tidied
<1> QED
  <2>1. CASE \E r \in Requests : Send(r)
    <3>1. Tidied'
      BY <1>1, <2>1
    <3> QED
      BY <3>1 DEF Tidied
  <2>2. CASE \E n \in 1 .. Len(stream) : Read(n)
    <3>1. Tidied'
      BY <1>2, <2>2
    <3> QED
      BY <3>1 DEF Tidied
  <2> QED
    BY <1>4, <1>5, <1>6, <1>7, <1>8, <2>1, <2>2 DEF Next, Serve

(* As long as each read brings one request, all of it, and no body ends    *)
(* without CRLF: ParseRequest retrieves all of it, and Process answers it  *)
(* with what its target is and with the connection that it asks for.       *)
THEOREM WholeServed == Spec => []WholeRequestsServed
<1>1. Init => Tidied
  <2> SUFFICES ASSUME Init PROVE Tidied
    OBVIOUS
  <2>1. Len(answers) = 0 /\ pc = "wait" /\ readPos = Len(buff)
    BY DEF Init
  <2> QED
    BY <2>1 DEF Tidied
<1>2. IInv /\ Tidied /\ [Next]_vars => Tidied'
  BY TidiedStep
<1>3. IInv /\ Tidied => WholeRequestsServed
  <2> SUFFICES ASSUME IInv, Tidied PROVE WholeRequestsServed
    OBVIOUS
  <2>1. DOMAIN answers = 1 .. Len(answers) /\ DOMAIN asked = 1 .. Len(asked)
    BY DEF IInv, Typed
  <2>2. Len(answers) \in Nat
    BY DEF IInv, Typed
  <2> QED
    BY <2>1, <2>2 DEF Tidied, WholeRequestsServed, NoBare, Now
<1> QED
  BY Inductive, <1>1, <1>2, <1>3, PTL DEF Spec
=============================================================================
