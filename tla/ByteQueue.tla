----------------------------- MODULE ByteQueue -----------------------------
(***************************************************************************)
(* What Buffer (buffer/buffer.cc) promises to the code that uses it: bytes *)
(* come out in the order in which they went in, and room is never short.   *)
(* Buffer.tla is shown to implement this specification.                    *)
(***************************************************************************)
EXTENDS Naturals, Sequences

CONSTANT Chunk   \* the sequences of bytes that may be put in at once

VARIABLE queue   \* the bytes that are in

Init == queue = <<>>

Put(s) == queue' = queue \o s

Take(n) == /\ n <= Len(queue)
           /\ queue' = SubSeq(queue, n + 1, Len(queue))

Next == \/ \E s \in Chunk : Put(s)
        \/ \E n \in 0 .. Len(queue) : Take(n)

Spec == Init /\ [][Next]_queue
=============================================================================
