------------------------------ MODULE ByteFile ------------------------------
(***************************************************************************)
(* Operators on the bytes of a stream, and on the RIFF chunks laid out in  *)
(* it.  A stream is a sequence of cells; a cell stands for one byte.  An   *)
(* audio byte is a model value, a byte of a metadata chunk is a record     *)
(* naming the chunk and its place in it, so a chunk that is overwritten or *)
(* cut can be told from a whole one.                                       *)
(***************************************************************************)
EXTENDS Integers, Sequences

\* The bytes of a chunk's id and size fields, ahead of its body.
ChunkHeaderSize == 8

\* The smaller and the larger of two numbers (u64::min, u64::max).
Least(a, b) == IF a <= b THEN a ELSE b
Greatest(a, b) == IF a >= b THEN a ELSE b

\* u64::saturating_sub.
SatSub(a, b) == IF a >= b THEN a - b ELSE 0

\* A RIFF body is followed by one pad byte when its length is odd.
PadOf(len) == len % 2

\* What write_named_chunk writes, and reports having written, for a body of
\* len bytes: the header, the body and the pad.
ChunkLen(len) == ChunkHeaderSize + len + PadOf(len)

\* The ids of the chunks the writer emits itself.
ReservedIds == {"RIFF", "fmt ", "data", "fact", "ds64"}

\* check_extra_chunk: a caller may supply the chunk c, a record with the
\* fields id and size, when its id is free and its size fits the field.
Suppliable(c, u32max) == c.id \notin ReservedIds /\ c.size <= u32max

\* n copies of the cell x.
Repeat(x, n) == [i \in 1 .. n |-> x]

\* The stream after write_all(w) at offset at (at most Len(s)): bytes already
\* there are overwritten, the rest extends the stream.
Put(s, at, w) ==
    [i \in 1 .. Greatest(Len(s), at + Len(w)) |->
        IF at < i /\ i <= at + Len(w) THEN w[i - at] ELSE s[i]]

\* A stream cut to its first n bytes.
Cut(s, n) == [i \in 1 .. n |-> s[i]]

\* The bytes of the chunk c.
ChunkCells(c) == [i \in 1 .. ChunkLen(c.size) |-> [chunk |-> c, at |-> i]]
=============================================================================
