---------------------------- MODULE BufferProofs ----------------------------
(***************************************************************************)
(* Theorems about Buffer for any bytes, any initial size and chunks of any *)
(* length.                                                                 *)
(*                                                                         *)
(* TypeOK is inductive.  That bytes are kept in order is a lemma about     *)
(* each function of the code: what it does to Readable, the bytes that are *)
(* in, proved byte by byte.                                                *)
(***************************************************************************)
EXTENDS Buffer, SequenceTheorems, TLAPS

(* The buffers the code is meant to work on.                               *)
Good(b) == /\ b \in [buffer : Seq(Byte), readPos : Nat, writePos : Nat]
           /\ b.readPos <= b.writePos
           /\ b.writePos <= Len(b.buffer)

(* Two buffers hold the same bytes.                                        *)
SameBytes(b, c) == Readable(c) = Readable(b)

LEMMA StateGood == Good(State) <=> TypeOK
BY DEF Good, State, TypeOK

(* A function on 1 .. n is a sequence.                                     *)
LEMMA FunctionIsSeq ==
  ASSUME NEW S, NEW n \in Nat, NEW f \in [1 .. n -> S]
  PROVE  f \in Seq(S) /\ Len(f) = n
<1>1. f \in Seq(S)
  BY SeqDef
<1>2. Len(f) \in Nat /\ DOMAIN f = 1 .. Len(f) /\ DOMAIN f = 1 .. n
  BY <1>1, LenProperties
<1> QED
  BY <1>1, <1>2

LEMMA ChunksAreSeqs == ASSUME NEW s \in Chunks PROVE s \in Seq(Byte) /\ Len(s) \in Nat
BY SizeAssumption, FunctionIsSeq DEF Chunks

LEMMA ZerosAreBytes ==
  ASSUME NEW n \in Nat PROVE Zeros(n) \in Seq(Byte) /\ Len(Zeros(n)) = n
BY BytesAssumption, FunctionIsSeq DEF Zeros

(* The bytes between two positions of a sequence.                          *)
LEMMA Between ==
  ASSUME NEW S, NEW s \in Seq(S), NEW r \in Nat, NEW w \in Nat, r <= w, w <= Len(s)
  PROVE  /\ SubSeq(s, r + 1, w) \in Seq(S)
         /\ Len(SubSeq(s, r + 1, w)) = w - r
         /\ \A k \in 1 .. w - r : SubSeq(s, r + 1, w)[k] = s[r + k]
<1>1. Len(s) \in Nat
  OBVIOUS
<1>2. r + 1 \in Int /\ w \in Int /\ \A k \in r + 1 .. w : s[k] \in S
  BY <1>1, ElementOfSeq
<1>3. /\ SubSeq(s, r + 1, w) \in Seq(S)
      /\ Len(SubSeq(s, r + 1, w)) = IF r + 1 <= w THEN w - (r + 1) + 1 ELSE 0
      /\ \A k \in 1 .. w - (r + 1) + 1 : SubSeq(s, r + 1, w)[k] = s[r + 1 + k - 1]
  BY <1>2, SubSeqProperties
<1>4. Len(SubSeq(s, r + 1, w)) = w - r
  <2>1. CASE r = w
    <3>1. ~(r + 1 <= w) /\ w - r = 0
      BY <2>1
    <3> QED
      BY <1>3, <3>1, Zenon
  <2>2. CASE r # w
    <3>1. r + 1 <= w /\ w - (r + 1) + 1 = w - r
      BY <2>2
    <3> QED
      BY <1>3, <3>1, Zenon
  <2> QED
    BY <2>1, <2>2
<1>5. ASSUME NEW k \in 1 .. w - r PROVE SubSeq(s, r + 1, w)[k] = s[r + k]
  <2>1. k \in 1 .. w - (r + 1) + 1 /\ r + 1 + k - 1 = r + k
    OBVIOUS
  <2> QED
    BY <1>3, <2>1, Zenon
<1> QED
  BY <1>3, <1>4, <1>5, Zenon

LEMMA Parts ==
  ASSUME NEW b, Good(b)
  PROVE  /\ b.buffer \in Seq(Byte) /\ b.readPos \in Nat /\ b.writePos \in Nat
         /\ b.readPos <= b.writePos /\ b.writePos <= Len(b.buffer)
         /\ Len(b.buffer) \in Nat
BY DEF Good

(* The bytes that are in.                                                  *)
LEMMA ReadableBytesAre ==
  ASSUME NEW b, Good(b)
  PROVE  /\ Readable(b) \in Seq(Byte)
         /\ Len(Readable(b)) = ReadableBytes(b)
         /\ ReadableBytes(b) \in Nat /\ WritableBytes(b) \in Nat
         /\ Len(b.buffer) \in Nat
         /\ \A k \in 1 .. ReadableBytes(b) : Readable(b)[k] = b.buffer[b.readPos + k]
<1>1. /\ b.buffer \in Seq(Byte) /\ b.readPos \in Nat /\ b.writePos \in Nat
      /\ b.readPos <= b.writePos /\ b.writePos <= Len(b.buffer)
      /\ Len(b.buffer) \in Nat
  BY DEF Good
<1>2. ReadableBytes(b) \in Nat /\ WritableBytes(b) \in Nat
  BY <1>1 DEF ReadableBytes, WritableBytes
<1>3. /\ Readable(b) \in Seq(Byte)
      /\ Len(Readable(b)) = b.writePos - b.readPos
      /\ \A k \in 1 .. b.writePos - b.readPos : Readable(b)[k] = b.buffer[b.readPos + k]
  <2>1. PICK t \in Seq(Byte), r \in Nat, w \in Nat :
          /\ t = b.buffer /\ r = b.readPos /\ w = b.writePos
          /\ r <= w /\ w <= Len(t)
    BY <1>1
  <2> DEFINE q == SubSeq(t, r + 1, w)
  <2>2. q \in Seq(Byte) /\ Len(q) = w - r /\ \A k \in 1 .. w - r : q[k] = t[r + k]
    <3>1. r <= w /\ w <= Len(t)
      BY <2>1
    <3> QED
      BY <3>1, Between
  <2>3. Readable(b) = q
    BY <2>1 DEF Readable
  <2> HIDE DEF q
  <2> QED
    BY <2>1, <2>2, <2>3
<1> QED
  BY <1>1, <1>2, <1>3 DEF ReadableBytes

(* Two buffers whose readable parts agree byte by byte.                    *)
LEMMA SameByByte ==
  ASSUME NEW b, NEW c, Good(b), Good(c), ReadableBytes(c) = ReadableBytes(b),
         \A k \in 1 .. ReadableBytes(b) : c.buffer[c.readPos + k] = b.buffer[b.readPos + k]
  PROVE  SameBytes(b, c)
<1>1. \A k \in 1 .. Len(Readable(c)) : Readable(c)[k] = Readable(b)[k]
  BY ReadableBytesAre
<1> QED
  BY <1>1, ReadableBytesAre, SeqEqual DEF SameBytes
-----------------------------------------------------------------------------
(* resize makes the array longer and keeps the bytes that are in.          *)
LEMMA ResizeKeeps ==
  ASSUME NEW b, Good(b), NEW size \in Nat, Len(b.buffer) <= size
  PROVE  /\ Good(Resize(b, size)) /\ SameBytes(b, Resize(b, size))
         /\ WritableBytes(Resize(b, size)) = size - b.writePos
<1> DEFINE c == Resize(b, size)
           z == Zeros(size - Len(b.buffer))
<1>1. /\ b.buffer \in Seq(Byte) /\ b.readPos \in Nat /\ b.writePos \in Nat
      /\ b.readPos <= b.writePos /\ b.writePos <= Len(b.buffer)
      /\ Len(b.buffer) \in Nat
  BY DEF Good
<1>2. z \in Seq(Byte) /\ Len(z) = size - Len(b.buffer)
  <2>1. size - Len(b.buffer) \in Nat
    BY <1>1
  <2> QED
    BY <2>1, ZerosAreBytes, Zenon
<1>3. c = [buffer |-> b.buffer \o z, readPos |-> b.readPos, writePos |-> b.writePos]
  <2>1. c = [b EXCEPT !.buffer = b.buffer \o z]
    BY DEF Resize
  <2> HIDE DEF z
  <2> QED
    BY <2>1 DEF Good
<1>4. /\ b.buffer \o z \in Seq(Byte) /\ Len(b.buffer \o z) = size
      /\ \A k \in 1 .. Len(b.buffer) : (b.buffer \o z)[k] = b.buffer[k]
  <2> HIDE DEF z
  <2>1. /\ b.buffer \o z \in Seq(Byte)
        /\ Len(b.buffer \o z) = Len(b.buffer) + Len(z)
        /\ \A k \in 1 .. Len(b.buffer) + Len(z) :
             (b.buffer \o z)[k] = IF k <= Len(b.buffer) THEN b.buffer[k]
                                                        ELSE z[k - Len(b.buffer)]
    BY <1>1, <1>2, ConcatProperties
  <2>2. \A k \in 1 .. Len(b.buffer) : k \in 1 .. Len(b.buffer) + Len(z) /\ k <= Len(b.buffer)
    BY <1>1, <1>2
  <2>3. Len(b.buffer) + Len(z) = size
    BY <1>1, <1>2
  <2> QED
    BY <2>1, <2>2, <2>3, Zenon
<1> HIDE DEF z, c
<1>5. /\ c.buffer = b.buffer \o z /\ c.readPos = b.readPos /\ c.writePos = b.writePos
      /\ c \in [buffer : Seq(Byte), readPos : Nat, writePos : Nat]
  BY <1>1, <1>3, <1>4
<1>6. Good(c)
  BY <1>1, <1>4, <1>5 DEF Good
<1>7. ReadableBytes(c) = ReadableBytes(b)
  BY <1>5 DEF ReadableBytes
<1>8. ASSUME NEW k \in 1 .. ReadableBytes(b)
      PROVE  c.buffer[c.readPos + k] = b.buffer[b.readPos + k]
  <2>1. b.readPos + k \in 1 .. Len(b.buffer)
    BY <1>1 DEF ReadableBytes
  <2> QED
    BY <1>4, <1>5, <2>1
<1>9. SameBytes(b, c)
  BY <1>6, <1>7, <1>8, SameByByte
<1>10. WritableBytes(c) = size - b.writePos
  BY <1>4, <1>5 DEF WritableBytes
<1> QED
  BY <1>6, <1>9, <1>10 DEF c

(* Compacting moves the bytes that are in to the start of the array.       *)
LEMMA CompactKeeps ==
  ASSUME NEW b, Good(b)
  PROVE  /\ Good(Compact(b)) /\ SameBytes(b, Compact(b))
         /\ WritableBytes(Compact(b)) = WritableBytes(b) + PrependableBytes(b)
<1> DEFINE c == Compact(b)
           n == ReadableBytes(b)
           behind == SubSeq(b.buffer, n + 1, Len(b.buffer))
<1>1. /\ b.buffer \in Seq(Byte) /\ b.readPos \in Nat /\ b.writePos \in Nat
      /\ b.readPos <= b.writePos /\ b.writePos <= Len(b.buffer)
      /\ Len(b.buffer) \in Nat
  BY Parts
<1>2. /\ n \in Nat /\ n <= Len(b.buffer) /\ n = b.writePos - b.readPos
      /\ Readable(b) \in Seq(Byte) /\ Len(Readable(b)) = n
      /\ \A k \in 1 .. n : Readable(b)[k] = b.buffer[b.readPos + k]
  BY <1>1, ReadableBytesAre DEF ReadableBytes
<1>3. c = [buffer |-> Readable(b) \o behind, readPos |-> 0, writePos |-> n]
  BY DEF Compact
<1> HIDE DEF n, c
<1>4. behind \in Seq(Byte) /\ Len(behind) = Len(b.buffer) - n
  BY <1>1, <1>2, Between
<1> HIDE DEF behind
<1>5. /\ Readable(b) \o behind \in Seq(Byte)
      /\ Len(Readable(b) \o behind) = Len(b.buffer)
      /\ \A k \in 1 .. n : (Readable(b) \o behind)[k] = Readable(b)[k]
  <2>1. /\ Readable(b) \o behind \in Seq(Byte)
        /\ Len(Readable(b) \o behind) = n + Len(behind)
        /\ \A k \in 1 .. n + Len(behind) :
             (Readable(b) \o behind)[k] = IF k <= n THEN Readable(b)[k] ELSE behind[k - n]
    BY <1>2, <1>4, ConcatProperties
  <2>2. n + Len(behind) = Len(b.buffer)
    BY <1>1, <1>2, <1>4
  <2>3. \A k \in 1 .. n : k \in 1 .. n + Len(behind) /\ k <= n
    BY <1>1, <1>2, <2>2
  <2> QED
    BY <2>1, <2>2, <2>3, Zenon
<1>6. /\ c.buffer = Readable(b) \o behind /\ c.readPos = 0 /\ c.writePos = n
      /\ c \in [buffer : Seq(Byte), readPos : Nat, writePos : Nat]
  BY <1>2, <1>3, <1>5
<1>7. Good(c) /\ ReadableBytes(c) = n
  BY <1>1, <1>2, <1>5, <1>6 DEF Good, ReadableBytes
<1>8. ASSUME NEW k \in 1 .. n PROVE c.buffer[c.readPos + k] = b.buffer[b.readPos + k]
  <2>1. c.readPos + k = k
    BY <1>6
  <2> QED
    BY <1>2, <1>5, <1>6, <2>1
<1>9. SameBytes(b, c)
  BY <1>7, <1>8, SameByByte DEF n
<1>10. WritableBytes(c) = WritableBytes(b) + PrependableBytes(b)
  BY <1>1, <1>2, <1>5, <1>6 DEF WritableBytes, PrependableBytes
<1> QED
  BY <1>7, <1>9, <1>10 DEF c

(* EnsureWriteable: whichever way it makes room, there is enough of it,    *)
(* and the bytes that are in stay as they are.                             *)
LEMMA EnsureWriteableKeeps ==
  ASSUME NEW b, Good(b), NEW len \in Nat
  PROVE  /\ Good(EnsureWriteable(b, len)) /\ SameBytes(b, EnsureWriteable(b, len))
         /\ len <= WritableBytes(EnsureWriteable(b, len))
<1>1. /\ b.readPos \in Nat /\ b.writePos \in Nat
      /\ b.readPos <= b.writePos /\ b.writePos <= Len(b.buffer)
      /\ Len(b.buffer) \in Nat
  BY Parts
<1>2. CASE len <= WritableBytes(b)
  <2>1. EnsureWriteable(b, len) = b
    BY <1>1, <1>2 DEF EnsureWriteable, WritableBytes
  <2> QED
    BY <1>2, <2>1 DEF SameBytes
<1>3. CASE WritableBytes(b) < len /\ WritableBytes(b) + PrependableBytes(b) < len
  <2> DEFINE size == b.writePos + len + 1
  <2>1. EnsureWriteable(b, len) = Resize(b, size)
    BY <1>3 DEF EnsureWriteable, MakeSpace
  <2>2. size \in Nat /\ Len(b.buffer) <= size /\ len <= size - b.writePos
    BY <1>1, <1>3 DEF WritableBytes, PrependableBytes
  <2> HIDE DEF size
  <2> QED
    BY <2>1, <2>2, ResizeKeeps
<1>4. CASE WritableBytes(b) < len /\ ~(WritableBytes(b) + PrependableBytes(b) < len)
  <2>1. EnsureWriteable(b, len) = Compact(b)
    BY <1>4 DEF EnsureWriteable, MakeSpace
  <2>2. len <= WritableBytes(b) + PrependableBytes(b)
    BY <1>1, <1>4 DEF WritableBytes, PrependableBytes
  <2> QED
    BY <2>1, <2>2, CompactKeeps
<1> QED
  BY <1>1, <1>2, <1>3, <1>4 DEF WritableBytes
-----------------------------------------------------------------------------
(* c is b with the bytes of s put in.                                      *)
IsPut(b, s, c) == Good(c) /\ Readable(c) = Readable(b) \o s

LEMMA PutByByte ==
  ASSUME NEW b, NEW c, Good(b), Good(c), NEW s \in Seq(Byte),
         ReadableBytes(c) = ReadableBytes(b) + Len(s),
         \A k \in 1 .. ReadableBytes(b) :
           c.buffer[c.readPos + k] = b.buffer[b.readPos + k],
         \A k \in 1 .. Len(s) : c.buffer[c.readPos + (ReadableBytes(b) + k)] = s[k]
  PROVE  IsPut(b, s, c)
<1> DEFINE n == ReadableBytes(b)
           t == Readable(b) \o s
<1>1. n \in Nat /\ Len(s) \in Nat /\ Readable(b) \in Seq(Byte) /\ Len(Readable(b)) = n
  BY ReadableBytesAre
<1>2. /\ t \in Seq(Byte) /\ Len(t) = n + Len(s)
      /\ \A k \in 1 .. n + Len(s) : t[k] = IF k <= n THEN Readable(b)[k] ELSE s[k - n]
  <2> HIDE DEF n
  <2>1. /\ t \in Seq(Byte) /\ Len(t) = Len(Readable(b)) + Len(s)
        /\ \A k \in 1 .. Len(Readable(b)) + Len(s) :
             t[k] = IF k <= Len(Readable(b)) THEN Readable(b)[k] ELSE s[k - Len(Readable(b))]
    BY <1>1, ConcatProperties, Zenon
  <2> QED
    BY <1>1, <2>1, Zenon
<1> HIDE DEF n, t
<1>3. /\ Readable(c) \in Seq(Byte) /\ Len(Readable(c)) = n + Len(s)
      /\ \A k \in 1 .. n + Len(s) : Readable(c)[k] = c.buffer[c.readPos + k]
  BY ReadableBytesAre DEF n
<1>4. ASSUME NEW k \in 1 .. n + Len(s) PROVE Readable(c)[k] = t[k]
  <2>1. CASE k <= n
    <3>1. k \in 1 .. n
      BY <1>1, <2>1
    <3>2. Readable(b)[k] = b.buffer[b.readPos + k]
      BY <3>1, ReadableBytesAre DEF n
    <3> QED
      BY <1>2, <1>3, <2>1, <3>1, <3>2 DEF n
  <2>2. CASE ~(k <= n)
    <3>1. k - n \in 1 .. Len(s) /\ n + (k - n) = k
      BY <1>1, <2>2
    <3>2. c.buffer[c.readPos + (n + (k - n))] = s[k - n]
      BY <3>1 DEF n
    <3> QED
      BY <1>2, <1>3, <2>2, <3>1, <3>2
  <2> QED
    BY <2>1, <2>2
<1>5. Readable(c) = t
  BY <1>2, <1>3, <1>4, SeqEqual
<1> QED
  BY <1>5 DEF IsPut, t

(* Bytes for which there is room are put behind those that are in.         *)
LEMMA CopiedPuts ==
  ASSUME NEW b, Good(b), NEW s \in Seq(Byte), Len(s) <= WritableBytes(b)
  PROVE  /\ IsPut(b, s, Copied(b, s))
         /\ WritableBytes(Copied(b, s)) = WritableBytes(b) - Len(s)
<1> DEFINE c == Copied(b, s)
           f == [p \in DOMAIN b.buffer |-> IF p - b.writePos \in DOMAIN s
                                             THEN s[p - b.writePos] ELSE b.buffer[p]]
<1>1. /\ b.buffer \in Seq(Byte) /\ b.readPos \in Nat /\ b.writePos \in Nat
      /\ b.readPos <= b.writePos /\ b.writePos <= Len(b.buffer)
      /\ Len(b.buffer) \in Nat
      /\ DOMAIN b.buffer = 1 .. Len(b.buffer)
  BY Parts
<1>2. /\ DOMAIN s = 1 .. Len(s) /\ Len(s) \in Nat
      /\ b.writePos + Len(s) <= Len(b.buffer)
  BY <1>1 DEF WritableBytes
<1>3. c = [buffer |-> f, readPos |-> b.readPos, writePos |-> b.writePos + Len(s)]
  <2>1. c = [b EXCEPT !.buffer = f, !.writePos = b.writePos + Len(s)]
    BY DEF Copied
  <2> HIDE DEF f
  <2> QED
    BY <2>1 DEF Good
<1>4. f \in Seq(Byte) /\ Len(f) = Len(b.buffer)
  <2>1. \A p \in 1 .. Len(s) : s[p] \in Byte
    BY ElementOfSeq
  <2>2. \A p \in 1 .. Len(b.buffer) : b.buffer[p] \in Byte
    BY <1>1, ElementOfSeq
  <2>3. f \in [1 .. Len(b.buffer) -> Byte]
    BY <1>1, <1>2, <2>1, <2>2
  <2> HIDE DEF f
  <2> QED
    BY <1>1, <2>3, FunctionIsSeq
<1>5. \A p \in 1 .. b.writePos : f[p] = b.buffer[p]
  BY <1>1, <1>2
<1>6. \A k \in 1 .. Len(s) : f[b.writePos + k] = s[k]
  <2>1. \A k \in 1 .. Len(s) : /\ b.writePos + k \in 1 .. Len(b.buffer)
                               /\ b.writePos + k - b.writePos = k
    BY <1>1, <1>2
  <2>2. ASSUME NEW k \in 1 .. Len(s) PROVE f[b.writePos + k] = s[k]
    BY <1>1, <1>2, <2>1, SMTT(30)
  <2> HIDE DEF f
  <2> QED
    BY <2>2
<1> HIDE DEF f, c
<1>7. /\ c.buffer = f /\ c.readPos = b.readPos /\ c.writePos = b.writePos + Len(s)
      /\ Good(c)
  BY <1>1, <1>2, <1>3, <1>4 DEF Good
<1>8. /\ ReadableBytes(c) = ReadableBytes(b) + Len(s)
      /\ ReadableBytes(b) \in Nat
      /\ WritableBytes(c) = WritableBytes(b) - Len(s)
  BY <1>1, <1>2, <1>4, <1>7 DEF ReadableBytes, WritableBytes
<1>9. ASSUME NEW k \in 1 .. ReadableBytes(b)
      PROVE  c.buffer[c.readPos + k] = b.buffer[b.readPos + k]
  <2>1. b.readPos + k \in 1 .. b.writePos
    BY <1>1 DEF ReadableBytes
  <2> QED
    BY <1>5, <1>7, <2>1
<1>10. ASSUME NEW k \in 1 .. Len(s)
       PROVE  c.buffer[c.readPos + (ReadableBytes(b) + k)] = s[k]
  <2>1. c.readPos + (ReadableBytes(b) + k) = b.writePos + k
    BY <1>1, <1>7 DEF ReadableBytes
  <2> QED
    BY <1>6, <1>7, <2>1
<1>11. IsPut(b, s, c)
  BY <1>7, <1>8, <1>9, <1>10, PutByByte
<1> QED
  BY <1>8, <1>11 DEF c

(* Append: room is made, then the bytes are put in.                        *)
LEMMA AppendedPuts ==
  ASSUME NEW b, Good(b), NEW s \in Seq(Byte) PROVE IsPut(b, s, Appended(b, s))
<1> DEFINE e == EnsureWriteable(b, Len(s))
<1>1. Good(e) /\ Readable(e) = Readable(b) /\ Len(s) <= WritableBytes(e)
  BY EnsureWriteableKeeps DEF SameBytes
<1>2. Appended(b, s) = Copied(e, s)
  BY DEF Appended
<1> HIDE DEF e
<1> QED
  BY <1>1, <1>2, CopiedPuts DEF IsPut

(* ReadFd: what did not fit and is appended comes behind what did.         *)
LEMMA ReceivedPuts ==
  ASSUME NEW b, Good(b), NEW s \in Seq(Byte) PROVE IsPut(b, s, Received(b, s))
<1>0. WritableBytes(b) \in Nat /\ Len(s) \in Nat /\ Readable(b) \in Seq(Byte)
  BY ReadableBytesAre
<1>1. CASE Len(s) <= WritableBytes(b)
  BY <1>1, CopiedPuts DEF Received
<1>2. CASE ~(Len(s) <= WritableBytes(b))
  <2> DEFINE fit == WritableBytes(b)
             first == SubSeq(s, 1, fit)
             rest == SubSeq(s, fit + 1, Len(s))
             c == Copied(b, first)
  <2>0. Received(b, s) = Appended(c, rest)
    BY <1>2 DEF Received
  <2>1. fit \in Nat /\ fit < Len(s)
    BY <1>0, <1>2
  <2> HIDE DEF fit
  <2>2. /\ first \in Seq(Byte) /\ Len(first) = fit
        /\ \A k \in 1 .. fit : first[k] = s[k]
    <3>1. /\ SubSeq(s, 0 + 1, fit) \in Seq(Byte)
          /\ Len(SubSeq(s, 0 + 1, fit)) = fit - 0
          /\ \A k \in 1 .. fit - 0 : SubSeq(s, 0 + 1, fit)[k] = s[0 + k]
      BY <1>0, <2>1, Between
    <3>2. 0 + 1 = 1 /\ fit - 0 = fit /\ \A k \in 1 .. fit : 0 + k = k
      BY <2>1
    <3> QED
      BY <3>1, <3>2, Zenon
  <2>3. /\ rest \in Seq(Byte) /\ Len(rest) = Len(s) - fit
        /\ \A k \in 1 .. Len(s) - fit : rest[k] = s[fit + k]
    BY <1>0, <2>1, Between
  <2> HIDE DEF first, rest
  <2>4. first \o rest = s
    <3>1. /\ first \o rest \in Seq(Byte)
          /\ Len(first \o rest) = Len(s)
          /\ \A k \in 1 .. Len(s) :
               (first \o rest)[k] = IF k <= fit THEN first[k] ELSE rest[k - fit]
      <4>1. Len(first) + Len(rest) = Len(s)
        BY <1>0, <2>1, <2>2, <2>3
      <4> QED
        BY <2>2, <2>3, <4>1, ConcatProperties
    <3>2. ASSUME NEW k \in 1 .. Len(s) PROVE (first \o rest)[k] = s[k]
      <4>1. CASE k <= fit
        <5>1. k \in 1 .. fit
          BY <2>1, <4>1
        <5> QED
          BY <2>2, <3>1, <4>1, <5>1
      <4>2. CASE ~(k <= fit)
        <5>1. k - fit \in 1 .. Len(s) - fit /\ fit + (k - fit) = k
          BY <1>0, <2>1, <4>2
        <5> QED
          BY <2>3, <3>1, <4>2, <5>1
      <4> QED
        BY <4>1, <4>2
    <3> QED
      BY <3>1, <3>2, SeqEqual
  <2>5. Good(c) /\ Readable(c) = Readable(b) \o first
    <3>1. Len(first) <= WritableBytes(b)
      BY <2>1, <2>2 DEF fit
    <3> QED
      BY <2>2, <3>1, CopiedPuts DEF IsPut
  <2> HIDE DEF c
  <2>6. IsPut(c, rest, Appended(c, rest))
    BY <2>3, <2>5, AppendedPuts
  <2>7. (Readable(b) \o first) \o rest = Readable(b) \o s
    <3>1. Readable(b) \in Seq(Byte) /\ first \in Seq(Byte) /\ rest \in Seq(Byte)
      BY <1>0, <2>2, <2>3
    <3>2. (Readable(b) \o first) \o rest = Readable(b) \o (first \o rest)
      BY <3>1, ConcatAssociative, SMTT(30)
    <3> QED
      BY <2>4, <3>2
  <2> QED
    BY <2>0, <2>5, <2>6, <2>7 DEF IsPut
<1> QED
  BY <1>1, <1>2

(* Log::write: the zero that snprintf puts behind the text is not put in.  *)
LEMMA PrintfPuts ==
  ASSUME NEW b, Good(b), NEW s \in Seq(Byte), Len(s) < WritableBytes(b)
  PROVE  IsPut(b, s, [Copied(b, Append(s, Zero)) EXCEPT !.writePos = @ - 1])
<1> DEFINE n == ReadableBytes(b)
           t == Append(s, Zero)
           c == Copied(b, t)
           d == [c EXCEPT !.writePos = @ - 1]
<1>1. /\ t \in Seq(Byte) /\ Len(t) = Len(s) + 1 /\ Len(s) \in Nat
      /\ \A k \in 1 .. Len(s) : t[k] = s[k]
  BY BytesAssumption
<1>2. n \in Nat /\ Len(Readable(b)) = n /\ WritableBytes(b) \in Nat
  BY ReadableBytesAre
<1> HIDE DEF n, t
<1>3. Good(c) /\ Readable(c) = Readable(b) \o t
  BY <1>1, <1>2, CopiedPuts DEF IsPut
<1> HIDE DEF c
<1>4. /\ Readable(c) \in Seq(Byte) /\ Len(Readable(c)) = n + Len(s) + 1
      /\ \A k \in 1 .. n : Readable(c)[k] = Readable(b)[k]
      /\ \A k \in 1 .. Len(s) : Readable(c)[n + k] = s[k]
  <2>1. Readable(b) \in Seq(Byte)
    BY ReadableBytesAre
  <2>2. /\ Readable(c) \in Seq(Byte)
        /\ Len(Readable(c)) = n + Len(t)
        /\ \A k \in 1 .. n + Len(t) :
             Readable(c)[k] = IF k <= n THEN Readable(b)[k] ELSE t[k - n]
    <3>1. /\ Readable(b) \o t \in Seq(Byte)
          /\ Len(Readable(b) \o t) = Len(Readable(b)) + Len(t)
          /\ \A k \in 1 .. Len(Readable(b)) + Len(t) :
               (Readable(b) \o t)[k] = IF k <= Len(Readable(b)) THEN Readable(b)[k]
                                       ELSE t[k - Len(Readable(b))]
      BY <1>1, <2>1, ConcatProperties, Zenon
    <3> QED
      BY <1>2, <1>3, <3>1, Zenon
  <2>3. ASSUME NEW k \in 1 .. Len(s) PROVE Readable(c)[n + k] = s[k]
    <3>1. n + k \in 1 .. n + Len(t) /\ ~(n + k <= n) /\ n + k - n = k
      BY <1>1, <1>2
    <3>2. Readable(c)[n + k] = t[n + k - n]
      <4>1. \A j \in 1 .. n + Len(t) : ~(j <= n) => Readable(c)[j] = t[j - n]
        BY <2>2
      <4> QED
        BY <1>1, <1>2, <3>1, <4>1
    <3>3. t[k] = s[k]
      BY <1>1
    <3> QED
      BY <3>1, <3>2, <3>3, Zenon
  <2> QED
    BY <1>1, <1>2, <2>2, <2>3
<1>5. /\ c.buffer \in Seq(Byte) /\ c.readPos \in Nat /\ c.writePos \in Nat
      /\ c.readPos <= c.writePos /\ c.writePos <= Len(c.buffer)
      /\ Len(c.buffer) \in Nat
  BY <1>3, Parts
<1>6. /\ c.writePos - c.readPos = n + Len(s) + 1
      /\ \A k \in 1 .. n + Len(s) + 1 : Readable(c)[k] = c.buffer[c.readPos + k]
  <2>1. /\ Len(Readable(c)) = ReadableBytes(c)
        /\ \A k \in 1 .. ReadableBytes(c) : Readable(c)[k] = c.buffer[c.readPos + k]
    BY <1>3, ReadableBytesAre
  <2>2. ReadableBytes(c) = n + Len(s) + 1
    BY <1>4, <2>1
  <2> QED
    BY <2>1, <2>2 DEF ReadableBytes
<1>7. /\ d.buffer = c.buffer /\ d.readPos = c.readPos /\ d.writePos = c.writePos - 1
      /\ Good(d)
  <2>1. c \in [buffer : Seq(Byte), readPos : Nat, writePos : Nat]
    BY <1>3 DEF Good
  <2>2. d = [buffer |-> c.buffer, readPos |-> c.readPos, writePos |-> c.writePos - 1]
    BY <2>1
  <2>3. c.writePos - 1 \in Nat /\ c.readPos <= c.writePos - 1
    BY <1>1, <1>2, <1>5, <1>6
  <2> QED
    BY <1>5, <2>2, <2>3 DEF Good
<1> HIDE DEF d
<1>8. ReadableBytes(d) = n + Len(s)
  <2>1. ReadableBytes(d) = c.writePos - 1 - c.readPos
    BY <1>7 DEF ReadableBytes
  <2> QED
    <3>1. c.writePos - c.readPos = n + Len(s) + 1 /\ n + Len(s) \in Nat
      BY <1>1, <1>2, <1>6
    <3> QED
      BY <1>5, <2>1, <3>1, SMTT(30)
<1>9. \A k \in 1 .. n + Len(s) : d.buffer[d.readPos + k] = Readable(c)[k]
  BY <1>1, <1>2, <1>6, <1>7
<1>10. \A k \in 1 .. n : d.buffer[d.readPos + k] = b.buffer[b.readPos + k]
  <2>1. \A k \in 1 .. n : k \in 1 .. n + Len(s)
    BY <1>1, <1>2
  <2>2. \A k \in 1 .. n : Readable(b)[k] = b.buffer[b.readPos + k]
    BY ReadableBytesAre DEF n
  <2> QED
    BY <1>4, <1>9, <2>1, <2>2
<1>11. \A k \in 1 .. Len(s) : d.buffer[d.readPos + (n + k)] = s[k]
  <2>1. \A k \in 1 .. Len(s) : n + k \in 1 .. n + Len(s)
    BY <1>1, <1>2
  <2> QED
    BY <1>4, <1>9, <2>1
<1>12. IsPut(b, s, d)
  BY <1>7, <1>8, <1>10, <1>11, PutByByte DEF n
<1> QED
  BY <1>12 DEF d, c, t

(* Taking bytes moves readPos over them.                                   *)
LEMMA RetrieveTakes ==
  ASSUME TypeOK, NEW len \in Nat, Retrieve(len)
  PROVE  /\ TypeOK' /\ len <= Len(Readable(State))
         /\ Readable(State)' = SubSeq(Readable(State), len + 1, Len(Readable(State)))
<1> DEFINE q == Readable(State)
           r == readPos + len
<1>1. /\ buffer \in Seq(Byte) /\ readPos \in Nat /\ writePos \in Nat
      /\ readPos <= writePos /\ writePos <= Len(buffer) /\ Len(buffer) \in Nat
  BY DEF TypeOK
<1>2. /\ len <= writePos - readPos /\ readPos' = r /\ buffer' = buffer
      /\ writePos' = writePos
  BY DEF Retrieve, ReadableBytes, State
<1>3. TypeOK'
  BY <1>1, <1>2 DEF TypeOK
<1>4. /\ q = SubSeq(buffer, readPos + 1, writePos)
      /\ q' = SubSeq(buffer, r + 1, writePos)
  BY <1>2 DEF Readable, State
<1>5. r \in Nat /\ r <= writePos /\ writePos - r = writePos - readPos - len
  BY <1>1, <1>2
<1>6. /\ q \in Seq(Byte) /\ Len(q) = writePos - readPos
      /\ \A k \in 1 .. writePos - readPos : q[k] = buffer[readPos + k]
  <2> HIDE DEF r
  <2> DEFINE t == SubSeq(buffer, readPos + 1, writePos)
  <2>1. /\ t \in Seq(Byte) /\ Len(t) = writePos - readPos
        /\ \A k \in 1 .. writePos - readPos : t[k] = buffer[readPos + k]
    BY <1>1, Between
  <2> HIDE DEF q, t
  <2>2. q = t
    BY <1>4 DEF t
  <2> QED
    BY <2>1, <2>2
<1> HIDE DEF q, r
<1>7. /\ q' \in Seq(Byte) /\ Len(q') = writePos - r
      /\ \A k \in 1 .. writePos - r : q'[k] = buffer[r + k]
  <2> DEFINE t == SubSeq(buffer, r + 1, writePos)
  <2>1. /\ t \in Seq(Byte) /\ Len(t) = writePos - r
        /\ \A k \in 1 .. writePos - r : t[k] = buffer[r + k]
    BY <1>1, <1>5, Between
  <2> HIDE DEF t
  <2>2. q' = t
    BY <1>4 DEF t
  <2> QED
    BY <2>1, <2>2
<1> DEFINE t == SubSeq(q, len + 1, Len(q))
<1>8. /\ t \in Seq(Byte) /\ Len(t) = Len(q) - len
      /\ \A k \in 1 .. Len(q) - len : t[k] = q[len + k]
  <2>1. len <= Len(q) /\ Len(q) \in Nat
    BY <1>1, <1>2, <1>6
  <2> QED
    BY <1>6, <2>1, Between
<1> HIDE DEF t
<1>9. ASSUME NEW k \in 1 .. Len(q') PROVE q'[k] = t[k]
  <2>1. /\ k \in 1 .. writePos - r /\ k \in 1 .. Len(q) - len
        /\ len + k \in 1 .. writePos - readPos
        /\ r + k = readPos + (len + k)
    BY <1>1, <1>2, <1>5, <1>6, <1>7 DEF r
  <2> QED
    BY <1>6, <1>7, <1>8, <2>1
<1>10. q' = t
  BY <1>5, <1>6, <1>7, <1>8, <1>9, SeqEqual
<1>11. len <= Len(q)
  BY <1>2, <1>6
<1> QED
  BY <1>3, <1>10, <1>11 DEF q, t

(* RetrieveAll takes all bytes.                                            *)
LEMMA RetrieveAllTakes ==
  ASSUME TypeOK, RetrieveAll
  PROVE  TypeOK' /\ Readable(State)' = <<>>
<1>1. Len(buffer) \in Nat
  BY DEF TypeOK
<1>2. /\ buffer' = Zeros(Len(buffer)) /\ readPos' = 0 /\ writePos' = 0
      /\ buffer' \in Seq(Byte) /\ Len(buffer') = Len(buffer)
  BY <1>1, ZerosAreBytes DEF RetrieveAll, Becomes
<1>3. TypeOK'
  BY <1>1, <1>2 DEF TypeOK
<1>4. Readable(State)' = SubSeq(buffer', 0 + 1, 0)
  BY <1>2 DEF Readable, State
<1> QED
  BY <1>3, <1>4, SubSeqEmpty
-----------------------------------------------------------------------------
LEMMA InitEmpty == Init => TypeOK /\ Readable(State) = <<>>
<1> SUFFICES ASSUME Init PROVE TypeOK /\ Readable(State) = <<>>
  OBVIOUS
<1>1. buffer \in Seq(Byte) /\ Len(buffer) = InitSize /\ readPos = 0 /\ writePos = 0
  BY SizeAssumption, ZerosAreBytes DEF Init
<1>2. TypeOK
  BY <1>1, SizeAssumption DEF TypeOK
<1>3. Readable(State) = SubSeq(buffer, 0 + 1, 0)
  BY <1>1 DEF Readable, State
<1> QED
  BY <1>2, <1>3, SubSeqEmpty

(* The functions that put bytes in.                                        *)
LEMMA PutStep ==
  ASSUME TypeOK, NEW s \in Chunks, Append_(s) \/ ReadFd(s) \/ Printf(s)
  PROVE  TypeOK' /\ Readable(State)' = Readable(State) \o s
<1>1. Good(State) /\ s \in Seq(Byte)
  BY StateGood, ChunksAreSeqs
<1>2. PICK c : IsPut(State, s, c) /\ Becomes(c)
  <2>1. CASE Append_(s)
    BY <1>1, <2>1, AppendedPuts DEF Append_
  <2>2. CASE ReadFd(s)
    BY <1>1, <2>2, ReceivedPuts DEF ReadFd
  <2>3. CASE Printf(s)
    BY <1>1, <2>3, PrintfPuts DEF Printf
  <2> QED
    BY <2>1, <2>2, <2>3
<1>3. State' = c
  BY <1>2 DEF State, Becomes, IsPut, Good
<1>4. Good(State)' /\ Readable(State)' = Readable(c)
  BY <1>2, <1>3 DEF IsPut, Good, Readable
<1> QED
  BY <1>2, <1>4, StateGood DEF IsPut, Good, TypeOK, State

LEMMA NextTypeOK == TypeOK /\ [Next]_vars => TypeOK'
<1> SUFFICES ASSUME TypeOK, [Next]_vars PROVE TypeOK'
  OBVIOUS
<1>1. ASSUME NEW s \in Chunks, Append_(s) \/ ReadFd(s) \/ Printf(s) PROVE TypeOK'
  BY <1>1, PutStep
<1>2. ASSUME NEW len \in 1 .. MaxSize, Retrieve(len) PROVE TypeOK'
  BY <1>2, RetrieveTakes, SizeAssumption
<1>3. CASE RetrieveAll
  BY <1>3, RetrieveAllTakes
<1>4. CASE UNCHANGED vars
  BY <1>4 DEF vars, TypeOK
<1> QED
  BY <1>1, <1>2, <1>3, <1>4 DEF Next

(* The positions stay in order and inside the array: HasWritten never      *)
(* passes the end, however the chunks fit, and Retrieve never passes       *)
(* writePos.                                                               *)
THEOREM PositionsInRange == Spec => []TypeOK
BY InitEmpty, NextTypeOK, PTL DEF Spec

(* Whether a chunk fits, makes the array compact or grow, or is read in    *)
(* two parts, the bytes come out as they were put in.                      *)
THEOREM BytesInOrder == Spec => ImplementsByteQueue
<1>1. Init => BQ!Init
  BY InitEmpty DEF BQ!Init
<1>2. TypeOK /\ [Next]_vars => [BQ!Next]_(Readable(State))
  <2> SUFFICES ASSUME TypeOK, [Next]_vars
               PROVE  BQ!Next \/ UNCHANGED Readable(State)
    OBVIOUS
  <2>1. ASSUME NEW s \in Chunks, Append_(s) \/ ReadFd(s) \/ Printf(s) PROVE BQ!Put(s)
    BY <2>1, PutStep DEF BQ!Put
  <2>2. ASSUME NEW len \in 1 .. MaxSize, Retrieve(len)
        PROVE  len \in 0 .. Len(Readable(State)) /\ BQ!Take(len)
    <3>1. Len(Readable(State)) \in Nat
      BY ReadableBytesAre, StateGood
    <3> QED
      BY <2>2, <3>1, RetrieveTakes, SizeAssumption DEF BQ!Take
  <2>3. ASSUME RetrieveAll
        PROVE  LET n == Len(Readable(State)) IN n \in 0 .. n /\ BQ!Take(n)
    <3> DEFINE q == Readable(State)
    <3>1. Len(q) \in Nat
      BY ReadableBytesAre, StateGood
    <3>2. q' = <<>>
      BY <2>3, RetrieveAllTakes
    <3> HIDE DEF q
    <3>3. SubSeq(q, Len(q) + 1, Len(q)) = <<>>
      BY <3>1, SubSeqEmpty
    <3> QED
      BY <3>1, <3>2, <3>3 DEF BQ!Take, q
  <2>4. CASE UNCHANGED vars
    BY <2>4 DEF vars, Readable, State
  <2> QED
    BY <2>1, <2>2, <2>3, <2>4 DEF Next, BQ!Next
<1> QED
  BY <1>1, <1>2, PositionsInRange, PTL DEF Spec, ImplementsByteQueue, BQ!Spec
=============================================================================
