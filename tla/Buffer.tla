------------------------------- MODULE Buffer -------------------------------
(***************************************************************************)
(* The buffer of buffer/buffer.cc: an array of bytes and two positions in  *)
(* it, of which the part from readPos to writePos is readable.  The array  *)
(* is compacted when that makes enough room, and else it grows.            *)
(*                                                                         *)
(* One thread at a time uses a buffer.  Positions are counted from 0, as   *)
(* in the code: the byte at position p is buffer[p + 1].                   *)
(***************************************************************************)
EXTENDS Integers, Sequences

CONSTANTS
  Byte,       \* the values of a byte; Zero is what bzero and resize put
  Zero,
  InitSize,   \* initBuffSize
  MaxChunk,   \* bound on the bytes put in at once
  MaxSize     \* bound on the size of the array

ASSUME BytesAssumption == Zero \in Byte
ASSUME SizeAssumption == InitSize \in Nat \ {0} /\ MaxChunk \in Nat /\ MaxSize \in Nat

VARIABLES buffer, readPos, writePos

vars == <<buffer, readPos, writePos>>

Chunks == UNION {[1 .. n -> Byte] : n \in 1 .. MaxChunk}

Zeros(n) == [p \in 1 .. n |-> Zero]

(* The three variables as one value, for the functions of the code.        *)
State == [buffer |-> buffer, readPos |-> readPos, writePos |-> writePos]

Becomes(b) == /\ buffer' = b.buffer
              /\ readPos' = b.readPos
              /\ writePos' = b.writePos

Init == /\ buffer = Zeros(InitSize)
        /\ readPos = 0
        /\ writePos = 0
-----------------------------------------------------------------------------
ReadableBytes(b) == b.writePos - b.readPos

WritableBytes(b) == Len(b.buffer) - b.writePos

PrependableBytes(b) == b.readPos

Readable(b) == SubSeq(b.buffer, b.readPos + 1, b.writePos)

Resize(b, size) == [b EXCEPT !.buffer = @ \o Zeros(size - Len(@))]

(* std::copy to the start of the array; what is behind stays.              *)
Compact(b) == [buffer |-> Readable(b) \o
                          SubSeq(b.buffer, ReadableBytes(b) + 1, Len(b.buffer)),
               readPos |-> 0,
               writePos |-> ReadableBytes(b)]

(* Mutant of MakeSpace: the positions are moved and the bytes are not.     *)
MakeSpaceInPlace(b, len) ==
  IF WritableBytes(b) + PrependableBytes(b) < len
    THEN Resize(b, b.writePos + len + 1)
    ELSE [b EXCEPT !.readPos = 0, !.writePos = ReadableBytes(b)]

(* Mutant of MakeSpace: the array grows by what is missing, not counting   *)
(* the bytes in front that stay.                                           *)
MakeSpaceShort(b, len) ==
  IF WritableBytes(b) + PrependableBytes(b) < len
    THEN Resize(b, Len(b.buffer) + len - WritableBytes(b) - PrependableBytes(b))
    ELSE Compact(b)

MakeSpace(b, len) == IF WritableBytes(b) + PrependableBytes(b) < len
                       THEN Resize(b, b.writePos + len + 1)
                       ELSE Compact(b)

EnsureWriteable(b, len) == IF WritableBytes(b) < len THEN MakeSpace(b, len) ELSE b

(* std::copy to BeginWrite, and HasWritten.  Bytes for which there is no   *)
(* room do not get into the array.                                         *)
Copied(b, s) ==
  [b EXCEPT !.buffer = [p \in DOMAIN @ |-> IF p - b.writePos \in DOMAIN s
                                             THEN s[p - b.writePos] ELSE @[p]],
            !.writePos = @ + Len(s)]

Appended(b, s) == Copied(EnsureWriteable(b, Len(s)), s)

(* readv fills the array and then a buffer on the stack, which is appended.*)
Received(b, s) ==
  LET fit == WritableBytes(b)
  IN  IF Len(s) <= fit
        THEN Copied(b, s)
        ELSE Appended(Copied(b, SubSeq(s, 1, fit)), SubSeq(s, fit + 1, Len(s)))
-----------------------------------------------------------------------------
Fits(b) == Len(b.buffer) <= MaxSize

Append_(s) == Fits(Appended(State, s)) /\ Becomes(Appended(State, s))

ReadFd(s) == Fits(Received(State, s)) /\ Becomes(Received(State, s))

(* snprintf to BeginWrite, and HasWritten with its result, as Log::write   *)
(* puts the time and the text of a line in.  A zero is put behind the text,*)
(* which has to fit: when it does not, snprintf returns its whole length,  *)
(* and HasWritten moves writePos past the array.                           *)
Printf(s) == /\ Len(s) < WritableBytes(State)
             /\ Becomes([Copied(State, Append(s, Zero)) EXCEPT !.writePos = @ - 1])

(* Retrieve, which RetrieveUntil calls with the distance to a line's end,  *)
(* and WriteFd, for which len is what write took.                          *)
Retrieve(len) == /\ len <= ReadableBytes(State)
                 /\ readPos' = readPos + len
                 /\ UNCHANGED <<buffer, writePos>>

RetrieveAll == Becomes([buffer |-> Zeros(Len(buffer)), readPos |-> 0, writePos |-> 0])

Next == \/ \E s \in Chunks : Append_(s) \/ ReadFd(s) \/ Printf(s)
        \/ \E len \in 1 .. MaxSize : Retrieve(len)
        \/ RetrieveAll

Spec == Init /\ [][Next]_vars
-----------------------------------------------------------------------------
TypeOK == /\ buffer \in Seq(Byte)
          /\ readPos \in Nat /\ writePos \in Nat
          /\ readPos <= writePos
          /\ writePos <= Len(buffer)

(* The buffer implements a queue of bytes: compacting, growing and reading *)
(* in two parts lose, repeat and reorder no byte.                          *)
BQ == INSTANCE ByteQueue WITH queue <- Readable(State), Chunk <- Chunks

ImplementsByteQueue == BQ!Spec
=============================================================================
