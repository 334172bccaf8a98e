----------------------------- MODULE HeaderWalk -----------------------------
(***************************************************************************)
(* read_wav_header (src/header.rs): the walk over the chunks of a file     *)
(* somebody else wrote.  Nothing in the file can be trusted: chunks may    *)
(* be missing, repeated, in any order, cut off or longer than the file,    *)
(* and a data chunk whose length was never patched sends the walk into the *)
(* audio, where every eight bytes look like one more chunk.                *)
(*                                                                         *)
(* One action is one iteration of the loop, for one kind of chunk.  The    *)
(* file is not a variable: the walk never looks at a place twice, so the   *)
(* eight bytes at the next location, and the fields of a body that is      *)
(* parsed, are chosen when they are read.  That is every file at all.      *)
(***************************************************************************)
EXTENDS ByteFile, FiniteSets

CONSTANTS
    U32Max,         \* u32::MAX, scaled down: the marker and the placeholder
    U64Max,         \* u64::MAX, scaled down
    FileSizes,      \* the sizes of the files
    Declared,       \* the values of the 32-bit size field of the RIFF chunk
    Ids,            \* the chunk ids, NoId standing for bytes that are none
    Lengths,        \* the values of the 32-bit size field of a chunk
    Ds64Values,     \* the values of a 64-bit size in ds64
    Tables,         \* the tables of ds64, functions from ids to lengths
    CoreSize,       \* FmtChunk::CORE_SIZE, scaled down
    RiffSizeEnd,    \* where the fields of a ds64 body end: 8, 16 and 40,
    DataSizeEnd,    \* scaled down
    TableEnd

NoId == "none"      \* not printable, so not a FOURCC
Owned == {"fmt ", "fact", "data", "ds64"}

ASSUME IdsAssumption == Owned \cup {NoId} \subseteq Ids

ASSUME LengthsAssumption ==
    /\ U32Max \in Nat /\ U64Max \in Nat /\ U32Max <= U64Max
    /\ Lengths \cup Declared \subseteq 0 .. U32Max
    /\ Ds64Values \subseteq 0 .. U64Max
    /\ FileSizes \subseteq 12 .. U64Max - 1
    /\ \A t \in Tables : DOMAIN t \subseteq Ids /\ \A id \in DOMAIN t : t[id] \in 0 .. U64Max
    /\ CoreSize \in 1 .. U32Max
    /\ RiffSizeEnd <= DataSizeEnd /\ DataSizeEnd <= TableEnd

VARIABLES
    file,       \* the file's size, and what its first 12 bytes say
    status,     \* "walking", "stopped" after a break, "ok" or "error"
    next,       \* next_chunk_location
    scan_end,   \* where the walk ends
    ds64,       \* the sizes of the ds64 chunk, zero until it is reached
    fmt,        \* whether the fmt chunk was found
    fact,       \* whether the fact chunk was found
    audio,      \* data_offset and data_length, or NoAudio
    bodies      \* the bodies read into memory, and on which side of the audio

vars == <<file, status, next, scan_end, ds64, fmt, fact, audio, bodies>>

NoAudio == [at |-> 0, len |-> 0]
NoDs64 == [found |-> FALSE, riff |-> 0, data |-> 0, table |-> << >>]

\* u64::saturating_add.
SatAdd(a, b) == Least(a + b, U64Max)

FoundData == audio # NoAudio

-----------------------------------------------------------------------------
(* The loop.                                                               *)

\* The container is RIFF, or RF64 and BW64, which are treated alike; any
\* other file is refused before the walk.
Init ==
    /\ file \in [size : FileSizes, rf64 : BOOLEAN, declared : Declared]
    /\ status = "walking"
    /\ next = 12
    /\ scan_end = file.size
    /\ ds64 = NoDs64
    /\ fmt = FALSE
    /\ fact = FALSE
    /\ audio = NoAudio
    /\ bodies = {}

MoreToScan == SatAdd(next, ChunkHeaderSize) <= scan_end

\* A chunk header is there to be read; after the audio it has to have an id.
AtChunk(id) ==
    /\ status = "walking"
    /\ MoreToScan
    /\ FoundData => id # NoId

\* Ds64::size_for.
SizeFor(id, len) ==
    IF len # U32Max THEN len
    ELSE IF id = "data" THEN ds64.data
    ELSE IF id \in DOMAIN ds64.table THEN ds64.table[id]
    ELSE len

BodyLen(id, len) == IF file.rf64 THEN SizeFor(id, len) ELSE len

BodyEnd(n) == SatAdd(SatAdd(next, ChunkHeaderSize), n)

\* Mutant: the sum wraps around.
AdvanceWrapping(n) == next' = (next + ChunkHeaderSize + n + PadOf(n)) % (U64Max + 1)

Advance(n) == next' = SatAdd(BodyEnd(n), PadOf(n))

\* read_exact of a body of n bytes.
ReadBody(id, n) ==
    bodies' = bodies \cup {[id |-> id, at |-> next + ChunkHeaderSize, len |-> n,
                            after |-> FoundData]}

\* Ds64::parse: the fields a body of len bytes is too short for are zero.
ParseDs64(len) ==
    {[found |-> TRUE, riff |-> r, data |-> d, table |-> t] :
        r \in IF len < RiffSizeEnd THEN {0} ELSE Ds64Values,
        d \in IF len < DataSizeEnd THEN {0} ELSE Ds64Values,
        t \in IF len < TableEnd THEN {<< >>} ELSE Tables}

\* Mutant: a second ds64 is read like the first.
Ds64EveryTime(len) == file.rf64 /\ SatAdd(next, ChunkHeaderSize + len) <= file.size

\* The first ds64 of an RF64 file that holds it; the others are passed over.
HonorsDs64(len) ==
    /\ file.rf64
    /\ ~ds64.found
    /\ SatAdd(next, ChunkHeaderSize + len) <= file.size

\* The length of ds64 itself is always taken at face value.  Its fields, where
\* they are read, are sizes.
Ds64ChunkHolding(len, sizes) ==
    /\ AtChunk("ds64")
    /\ IF HonorsDs64(len)
       THEN ds64' = sizes /\ ReadBody("ds64", len)
       ELSE UNCHANGED <<ds64, bodies>>
    /\ next' = SatAdd(next, ChunkHeaderSize + len + PadOf(len))
    /\ UNCHANGED <<file, status, scan_end, fmt, fact, audio>>

Ds64Chunk(len) == \E sizes \in ParseDs64(len) : Ds64ChunkHolding(len, sizes)

FactChunk(len) ==
    /\ AtChunk("fact")
    /\ LET n == BodyLen("fact", len)
       IN  /\ IF ~fact /\ BodyEnd(n) <= file.size
              THEN fact' = TRUE /\ ReadBody("fact", n)
              ELSE UNCHANGED <<fact, bodies>>
           /\ Advance(n)
    /\ UNCHANGED <<file, status, scan_end, ds64, fmt, audio>>

\* Mutant: the length of a fmt body is not compared with the file's.
TakesFmtUnbounded(len) == ~fmt /\ len >= CoreSize

TakesFmt(len) == ~fmt /\ len >= CoreSize /\ BodyEnd(BodyLen("fmt ", len)) <= file.size

\* A body too short once the table of ds64 has its say, or no channels.
RejectFmt(len) ==
    /\ AtChunk("fmt ")
    /\ TakesFmt(len)
    /\ ReadBody("fmt ", BodyLen("fmt ", len))
    /\ status' = "error"
    /\ UNCHANGED <<file, next, scan_end, ds64, fmt, fact, audio>>

FmtChunk(len) ==
    /\ AtChunk("fmt ")
    /\ LET n == BodyLen("fmt ", len)
       IN  /\ IF TakesFmt(len)
              THEN n >= CoreSize /\ fmt' = TRUE /\ ReadBody("fmt ", n)
              ELSE UNCHANGED <<fmt, bodies>>
           /\ Advance(n)
    /\ UNCHANGED <<file, status, scan_end, ds64, fact, audio>>

\* The first data chunk of a plain RIFF file whose length is the placeholder:
\* the audio runs to the end of the file.
UnsizedData(len) == ~file.rf64 /\ len = U32Max

OpenEndedData(len) ==
    /\ AtChunk("data")
    /\ ~FoundData
    /\ UnsizedData(len)
    /\ audio' = [at |-> next + ChunkHeaderSize, len |-> len]
    /\ status' = "stopped"
    /\ UNCHANGED <<file, next, scan_end, ds64, fmt, fact, bodies>>

\* Mutant: the walk after the audio is bounded by the file alone.
ScanEndOfFile == file.size

\* Mutant: a RIFF size that points past the end of the file is believed.
ScanEndUnchecked ==
    IF file.rf64 \/ file.declared # U32Max THEN SatAdd(file.declared, 8) ELSE scan_end

\* Where the walk ends once the audio is found: with the RIFF chunk, unless
\* its size is the placeholder or points past the end of the file.
ScanEndAfterData ==
    LET riff_size == IF file.rf64 /\ file.declared = U32Max THEN ds64.riff ELSE file.declared
        riff_end  == SatAdd(riff_size, 8)
    IN  IF (file.rf64 \/ file.declared # U32Max) /\ riff_end <= file.size
        THEN riff_end ELSE scan_end

\* Mutant: the last data chunk counts.
DataChunkEveryTime(len) ==
    /\ AtChunk("data")
    /\ ~UnsizedData(len)
    /\ LET n == BodyLen("data", len)
       IN  /\ audio' = [at |-> next + ChunkHeaderSize, len |-> n]
           /\ scan_end' = ScanEndAfterData
           /\ Advance(n)
    /\ UNCHANGED <<file, status, ds64, fmt, fact, bodies>>

DataChunk(len) ==
    /\ AtChunk("data")
    /\ LET n == BodyLen("data", len)
       IN  /\ IF FoundData
              THEN UNCHANGED <<audio, scan_end>>
              ELSE /\ ~UnsizedData(len)
                   /\ audio' = [at |-> next + ChunkHeaderSize, len |-> n]
                   /\ scan_end' = ScanEndAfterData
           /\ Advance(n)
    /\ UNCHANGED <<file, status, ds64, fmt, fact, bodies>>

\* Any other chunk is captured if it is whole.
OtherChunk(id, len) ==
    /\ id \notin Owned
    /\ AtChunk(id)
    /\ LET n == BodyLen(id, len)
       IN  /\ BodyEnd(n) <= file.size
           /\ ReadBody(id, n)
           /\ Advance(n)
    /\ UNCHANGED <<file, status, scan_end, ds64, fmt, fact, audio>>

\* The two other breaks: a chunk that is cut off, and audio taken for a chunk.
CutOffChunk(id, len) ==
    /\ id \notin Owned
    /\ AtChunk(id)
    /\ BodyEnd(BodyLen(id, len)) > file.size
    /\ status' = "stopped"
    /\ UNCHANGED <<file, next, scan_end, ds64, fmt, fact, audio, bodies>>

WalkedIntoAudio ==
    /\ status = "walking"
    /\ MoreToScan
    /\ FoundData
    /\ status' = "stopped"
    /\ UNCHANGED <<file, next, scan_end, ds64, fmt, fact, audio, bodies>>

Result ==
    /\ status = "stopped" \/ (status = "walking" /\ ~MoreToScan)
    /\ status' = IF FoundData /\ fmt THEN "ok" ELSE "error"
    /\ UNCHANGED <<file, next, scan_end, ds64, fmt, fact, audio, bodies>>

Iteration(len) ==
    \/ Ds64Chunk(len)
    \/ FactChunk(len)
    \/ FmtChunk(len)
    \/ RejectFmt(len)
    \/ OpenEndedData(len)
    \/ DataChunk(len)
    \/ \E id \in Ids : OtherChunk(id, len) \/ CutOffChunk(id, len)

Next == (\E len \in Lengths : Iteration(len)) \/ WalkedIntoAudio \/ Result

\* One thread runs the loop and nothing blocks it, so it keeps going.
Spec == Init /\ [][Next]_vars /\ WF_vars(Next)

-----------------------------------------------------------------------------
(* What the result says.                                                   *)

\* chunks_before and chunks_after.
Captured == {b \in bodies : b.id \notin Owned}

\* length_is_unknown.
LengthIsUnknown == audio.len = U32Max /\ ~ds64.found

-----------------------------------------------------------------------------
(* What has to hold.                                                       *)

\* The type of every variable.
TypeOK ==
    /\ file \in [size : FileSizes, rf64 : BOOLEAN, declared : Declared]
    /\ status \in {"walking", "stopped", "ok", "error"}
    /\ next \in 12 .. U64Max
    /\ scan_end \in 0 .. file.size
    /\ ds64 # NoDs64 => ds64.found /\ file.rf64 /\ ds64.table \in Tables \cup {<< >>}
    /\ fmt \in BOOLEAN /\ fact \in BOOLEAN
    /\ audio \in [at : 0 .. file.size, len : 0 .. U64Max]
    /\ bodies \subseteq [id : Ids \ {"data"}, at : Nat, len : Nat, after : BOOLEAN]

Overlap(x, y) == x.at < y.at + y.len /\ y.at < x.at + x.len

\* What is read into memory is inside the file and no byte of it is read
\* twice, so a header cannot make the reader allocate more than the file's
\* size, whatever lengths it declares (the bounds on fmt, fact, ds64 and
\* captured chunks).
ReadsAreBoundedByTheFile ==
    /\ \A b \in bodies : b.at + b.len <= file.size
    /\ \A b, c \in bodies : b # c => ~Overlap(b, c)

\* No byte of the audio, as the data chunk declares it, is handed out or
\* parsed as something else, and a chunk is on the side of the audio it is
\* listed on (chunks_before, chunks_after).
AudioIsNotMetadata ==
    FoundData =>
        \A b \in bodies : IF b.after THEN b.at >= audio.at + audio.len
                          ELSE b.at + b.len <= audio.at

\* The chunks the reader consumes are not handed back, second ones included,
\* in either container: a caller who passes the rest to a writer does not
\* write them twice.  At most one of each is read at all.
OwnedChunksAreConsumed ==
    /\ \A id \in Owned : Cardinality({b \in bodies : b.id = id}) <= 1
    /\ ~file.rf64 => \A b \in bodies : b.id # "ds64"
    /\ fmt => \E b \in bodies : b.id = "fmt " /\ b.len >= CoreSize

\* Where the RIFF chunk ends, as far as the file says and holds it.
RiffEnd ==
    (IF file.rf64 /\ file.declared = U32Max THEN ds64.riff ELSE file.declared) + 8

RiffIsSized == (file.rf64 \/ file.declared # U32Max) /\ RiffEnd <= file.size

\* After the audio, a chunk begins inside the RIFF chunk, when the file holds
\* all of that: what was appended to the file behind it is not looked at.  A
\* ds64 behind the audio does not move that end either.
TrailingChunksAreInsideRiff ==
    RiffIsSized => \A b \in bodies : b.after => b.at <= RiffEnd

\* Where the audio is, and the sizes that frame every chunk, are settled by
\* the first chunk that states them: no later one moves them (the comments on
\* a second ds64 and a second data chunk).
FirstChunkDecides ==
    [][/\ FoundData => audio' = audio
       /\ ds64.found => ds64' = ds64]_vars

\* The walk ends, with a result or an error, on every file.
WalkEnds == <>(status \in {"ok", "error"})
=============================================================================
