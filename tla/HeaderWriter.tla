---------------------------- MODULE HeaderWriter ----------------------------
(***************************************************************************)
(* write_header (src/writer.rs), the only code that lays out a header.  It *)
(* writes one chunk after another and keeps a running position, from which *)
(* it takes the offsets that patch_sizes later seeks to; the position is   *)
(* computed from what each chunk should occupy, the file grows by what     *)
(* each chunk does occupy.  If the two ever differ, finalizing a file      *)
(* writes its sizes over something else.                                   *)
(*                                                                         *)
(* One action writes one chunk.  The file is the number of bytes emitted   *)
(* and the set of the fields in it, each with its place and with what was  *)
(* put there.                                                              *)
(***************************************************************************)
EXTENDS ByteFile

CONSTANTS
    U16Max,     \* u16::MAX, scaled down: the longest fmt extension
    U32Max,     \* u32::MAX, scaled down: the longest body of a chunk
    Fmts,       \* the fmt chunks a caller may ask for
    Facts,      \* the choices of Fact
    Leadings    \* the sequences of leading chunks

Absent == -1

(* A fmt chunk: its channel count, the length of its extension (Absent for *)
(* the bare 16-byte form) and what sample_format and is_extensible say of  *)
(* it.                                                                     *)
Fmt == [channels : Nat, extension : Nat \cup {Absent}, modelled : BOOLEAN,
        pcm : BOOLEAN, extensible : BOOLEAN]

(* The choice of Fact: Auto, None, Samples(count) or Body, a byte string   *)
(* of length len whose first four bytes, if it has them, are count.        *)
Fact == [kind : {"Auto", "None", "Samples", "Body"}, len : Nat, count : Nat]

ASSUME LimitsAssumption == U16Max \in Nat /\ U32Max \in Nat /\ U32Max >= 28

ASSUME InputsAssumption ==
    /\ \A f \in Fmts : f \in Fmt
    /\ \A f \in Facts : f \in Fact
    /\ \A l \in Leadings : l \in Seq([id : STRING, size : Nat])

VARIABLES
    req,            \* what the builder holds: fmt, fact, leading, container
    stage,          \* the next chunk to write, or "done" or "failed"
    written,        \* leading chunks written so far
    header_len,     \* the running position (pos in the code)
    offsets,        \* the offsets recorded: riff, data, count, or Absent
    emitted,        \* bytes written to the output
    fields          \* the fields in those bytes

vars == <<req, stage, written, header_len, offsets, emitted, fields>>

-----------------------------------------------------------------------------
(* What the count is to be.                                                *)

\* fact_body: what the body of a fact chunk holds, "nothing" for no chunk.
FactBody ==
    CASE req.fact.kind = "None"    -> "nothing"
      [] req.fact.kind = "Samples" -> "fixed"
      [] req.fact.kind = "Body"    -> "verbatim"
      [] req.fact.kind = "Auto"    ->
            IF ~req.fmt.modelled \/ (req.fmt.pcm /\ ~req.fmt.extensible)
            THEN "nothing" ELSE "counted"

\* Mutant: a streaming writer gets a fact chunk that is never patched.
FactToWriteAlways == FactBody

\* A counted body is a placeholder, so it needs a writer that comes back.
FactToWrite ==
    IF FactBody = "counted" /\ ~req.seekable THEN "nothing" ELSE FactBody

\* ds64_sample_count: the count patched into ds64: the caller's, or the
\* frames written, or nothing.
Ds64SampleCount ==
    CASE req.fact.kind = "None"    -> "nothing"
      [] req.fact.kind = "Samples" -> "fixed"
      [] req.fact.kind = "Body"    -> IF req.fact.len >= 4 THEN "fixed" ELSE "nothing"
      [] req.fact.kind = "Auto"    -> IF req.fmt.modelled THEN "counted" ELSE "nothing"

\* What the writer is told: to patch the frames written, or the caller's count.
Counting == IF req.rf64 THEN Ds64SampleCount = "counted" ELSE offsets.count # Absent
HasFixedCount == req.rf64 /\ Ds64SampleCount = "fixed"

-----------------------------------------------------------------------------
(* Writing.                                                                *)

(* A field is named within its chunk, and placed; value says what kind of  *)
(* value was put there and number which one.  A size not known yet is all  *)
(* ones.                                                                   *)
Field(chunk, name, at, width, value, number) ==
    [chunk |-> chunk, name |-> name, at |-> at, width |-> width, value |-> value,
     number |-> number]

IdField(id, at) == Field(id, "id", at, 4, "id", 0)

\* Mutant: a size not known yet is zero.
SizeFieldZero(id, at, value, size) ==
    Field(id, "size", at, 4, value,
          IF value = "size" THEN size ELSE IF value = "unset" THEN 0 ELSE U32Max)

SizeField(id, at, value, size) ==
    Field(id, "size", at, 4, value, IF value = "size" THEN size ELSE U32Max)

\* A chunk is its id, its size field and its contents, a set of fields placed
\* from the end of the chunk header; size is the body's length.
EmitChunk(id, value, size, contents) ==
    LET start == emitted
    IN  /\ fields' = fields
            \cup {IdField(id, start), SizeField(id, start + 4, value, size)}
            \cup {[f EXCEPT !.at = start + ChunkHeaderSize + f.at] : f \in contents}
        /\ emitted' = emitted + ChunkLen(size)

Fail == /\ stage' = "failed"
        /\ UNCHANGED <<req, written, header_len, offsets, emitted, fields>>

\* Builder::new and the check of every leading chunk, before any output.
Acceptable ==
    /\ req.fmt.channels # 0
    /\ \A i \in DOMAIN req.leading : Suppliable(req.leading[i], U32Max)

Check ==
    /\ stage = "check"
    /\ IF Acceptable
       THEN /\ stage' = "riff"
            /\ header_len' = 12
            /\ UNCHANGED <<req, written, offsets, emitted, fields>>
       ELSE Fail

\* The form id, the RIFF size and WAVE: 12 bytes, of which the last 4 count as
\* contents.
WriteRiffWave ==
    /\ stage = "riff"
    /\ EmitChunk("RIFF", IF req.rf64 THEN "marker" ELSE "unset", 4,
                 {Field("RIFF", "form", 0, 4, "id", 0)})
    /\ stage' = IF req.rf64 THEN "ds64" ELSE "fmt"
    /\ UNCHANGED <<req, written, header_len, offsets>>

\* Mutant: the table length of ds64 is forgotten.
Ds64BodySizeWithoutTable == 24

\* Three 64-bit sizes and an empty table, all zero, and where they are.
Ds64BodySize == 28

WriteDs64 ==
    /\ stage = "ds64"
    /\ offsets' = [riff |-> header_len + 8, data |-> header_len + 16,
                   count |-> header_len + 24]
    /\ EmitChunk("ds64", "size", Ds64BodySize,
                 {Field("ds64", "riffSize", 0, 8, "unset", 0),
                  Field("ds64", "dataSize", 8, 8, "unset", 0),
                  Field("ds64", "sampleCount", 16, 8, "zero", 0),
                  Field("ds64", "table", 24, 4, "zero", 0)})
    /\ header_len' = header_len + 8 + Ds64BodySize
    /\ stage' = "fmt"
    /\ UNCHANGED <<req, written>>

\* FmtChunk::body_size.
FmtBodySize == IF req.fmt.extension = Absent THEN 16 ELSE 18 + req.fmt.extension

\* Mutant: the pad byte of an odd extension is not reported.
FmtLenWithoutPad == 8 + FmtBodySize

FmtLen == ChunkLen(FmtBodySize)

WriteFmt ==
    /\ stage = "fmt"
    /\ IF req.fmt.extension <= U16Max
       THEN /\ EmitChunk("fmt ", "size", FmtBodySize, {})
            /\ header_len' = header_len + FmtLen
            /\ stage' = IF req.rf64 THEN "leading" ELSE "fact"
            /\ UNCHANGED <<req, written, offsets>>
       ELSE Fail

\* Mutant: the count is taken to be behind the chunk's id.
FactOffsetAtSize == header_len + 4

\* Where the count of a fact chunk is: behind the chunk's header.
FactOffset == header_len + 8

NoFact == FactToWrite = "nothing" /\ UNCHANGED <<header_len, offsets, emitted, fields>>

VerbatimFact ==
    /\ FactToWrite = "verbatim"
    /\ EmitChunk("fact", "size", req.fact.len, {})
    /\ header_len' = header_len + ChunkLen(req.fact.len)
    /\ UNCHANGED offsets

CountFact ==
    /\ FactToWrite \in {"counted", "fixed"}
    /\ LET counted == FactToWrite = "counted"
       IN  /\ EmitChunk("fact", "size", 4,
                        {IF counted THEN Field("fact", "dwSampleLength", 0, 4, "unset", U32Max)
                         ELSE Field("fact", "dwSampleLength", 0, 4, "fixed",
                                    req.fact.count)})
           /\ offsets' = IF counted THEN [offsets EXCEPT !.count = FactOffset]
                         ELSE offsets
    /\ header_len' = header_len + ChunkLen(4)

\* A count or a body that does not fit 32 bits is refused with RIFF and fmt
\* already written.
FactTooLarge ==
    \/ FactToWrite = "verbatim" /\ req.fact.len > U32Max
    \/ FactToWrite = "fixed" /\ req.fact.count > U32Max

\* RIFF only.
WriteFact ==
    /\ stage = "fact"
    /\ IF FactTooLarge
       THEN Fail
       ELSE /\ NoFact \/ VerbatimFact \/ CountFact
            /\ stage' = "leading"
            /\ UNCHANGED <<req, written>>

WriteLeading ==
    /\ stage = "leading"
    /\ written < Len(req.leading)
    /\ LET c == req.leading[written + 1]
       IN  /\ EmitChunk(c.id, "size", c.size, {})
           /\ header_len' = header_len + ChunkLen(c.size)
    /\ written' = written + 1
    /\ UNCHANGED <<req, stage, offsets>>

\* The data chunk's header; the data size of a RIFF file is its size field.
WriteDataHeader ==
    /\ stage = "leading"
    /\ written = Len(req.leading)
    /\ EmitChunk("data", IF req.rf64 THEN "marker" ELSE "unset", 0, {})
    /\ offsets' = IF req.rf64 THEN offsets
                  ELSE [offsets EXCEPT !.riff = 4, !.data = header_len + 4]
    /\ header_len' = header_len + 8
    /\ stage' = "done"
    /\ UNCHANGED <<req, written>>

-----------------------------------------------------------------------------

\* open, open_streaming and rf64().open; RF64 does not stream.
Requests ==
    {[fmt |-> f, fact |-> k, leading |-> l, rf64 |-> c.rf64, seekable |-> c.seekable] :
        f \in Fmts, k \in Facts, l \in Leadings,
        c \in {[rf64 |-> FALSE, seekable |-> TRUE], [rf64 |-> FALSE, seekable |-> FALSE],
               [rf64 |-> TRUE, seekable |-> TRUE]}}

Init ==
    /\ req \in Requests
    /\ stage = "check"
    /\ written = 0
    /\ header_len = 0
    /\ offsets = [riff |-> Absent, data |-> Absent, count |-> Absent]
    /\ emitted = 0
    /\ fields = {}

Next ==
    \/ Check
    \/ WriteRiffWave
    \/ WriteDs64
    \/ WriteFmt
    \/ WriteFact
    \/ WriteLeading
    \/ WriteDataHeader

Spec == Init /\ [][Next]_vars

-----------------------------------------------------------------------------
(* What has to hold.                                                       *)

\* The type of every variable.
TypeOK ==
    /\ req \in Requests
    /\ stage \in {"check", "riff", "ds64", "fmt", "fact", "leading", "done", "failed"}
    /\ written \in 0 .. Len(req.leading)
    /\ header_len \in Nat
    /\ offsets \in [{"riff", "data", "count"} -> Nat \cup {Absent}]
    /\ emitted \in Nat
    /\ \A f \in fields : f.at + f.width <= emitted

\* The running position is the number of bytes written, once any are: odd
\* extensions, odd bodies and their pad bytes included (write_header,
\* write_fmt_chunk).
PositionCountsBytes == emitted # 0 => header_len = emitted

\* The sizes that are not known before the file is finished.
LateSizes ==
    {f \in fields : IF req.rf64 THEN f.chunk = "ds64" /\ f.name \in {"riffSize", "dataSize"}
                    ELSE f.chunk \in {"RIFF", "data"} /\ f.name = "size"}

\* The counts that the caller did not settle.
LateCounts ==
    {f \in fields : f.name \in {"sampleCount", "dwSampleLength"} /\ f.value # "fixed"}

\* Every offset finalize will patch is that of the field it is meant for, and
\* every field left unset has one (Layout, SizeFields).
OffsetsHitTheirFields ==
    stage = "done" =>
        /\ {f \in fields : f.value = "unset"} \subseteq LateSizes \cup LateCounts
        /\ {f.at : f \in LateSizes} = {offsets.riff, offsets.data}
        /\ offsets.riff < offsets.data
        /\ offsets.count # Absent <=> LateCounts # {}
        /\ \A f \in LateCounts : f.at = offsets.count
=============================================================================
