------------------------------ MODULE WavWriter ------------------------------
(***************************************************************************)
(* WavWriter (src/writer.rs): the object that writes a WAV file.  The      *)
(* header has been written when this specification starts (see             *)
(* HeaderWriter); from then on the caller writes audio, moves the cursor,  *)
(* trims, appends metadata chunks, refreshes the size fields and finishes, *)
(* in any order and any number of times.                                   *)
(*                                                                         *)
(* One action is one call of a public method, run to its end on an output  *)
(* that does not fail.  A call the code refuses leaves everything as it    *)
(* was, and so does a trim that has nothing to cut off: neither is an      *)
(* action, both are guards that do not hold.                               *)
(*                                                                         *)
(* The output is modelled as it is on disk: the bytes after the header, a  *)
(* stream position, and the values of the header's size fields.  What the  *)
(* writer believes (data_bytes, data_pos, trailing_bytes) is kept apart    *)
(* from it; that the two agree is what has to be shown.                    *)
(***************************************************************************)
EXTENDS ByteFile, FiniteSets

CONSTANTS
    U32Max,     \* u32::MAX, scaled down
    Zero,       \* the byte 0
    Bytes,      \* the audio bytes a caller writes
    Writes,     \* the strings of them passed to one write call
    Chunks,     \* the metadata chunks passed to write_chunk: [id, size]
    Configs,    \* the writers a caller may open, see Config
    MaxFrame,   \* bound: the largest frame index passed to a seek or trim
    MaxData,    \* bound: the longest audio written, in bytes
    MaxTail     \* bound: the most bytes of trailing chunks written

(* One way of opening a writer, as write_header leaves it behind.          *)
(*   rf64         the container is RF64, not plain RIFF                    *)
(*   seekable     size fields are patched; otherwise the writer streams    *)
(*   can_seek     the output implements Seek and Truncate                  *)
(*   header_len   bytes written up to and including the data chunk header  *)
(*   frame_bytes  FmtChunk::frame_bytes, zero if a frame has no size       *)
(*   sample_bytes bytes of one sample, zero for a format without a model   *)
(*   counting     the sample count is to be patched (fact_offset, ds64)    *)
(*   count_offset where it is in the header, zero where there is none      *)
(*   fixed        the count the caller supplied for ds64, or NoCount       *)
NoCount == -1

Config ==
    [rf64 : BOOLEAN, seekable : BOOLEAN, can_seek : BOOLEAN,
     header_len : Nat, frame_bytes : Nat, sample_bytes : Nat,
     counting : BOOLEAN, count_offset : Nat, fixed : Nat \cup {NoCount}]

ASSUME U32MaxAssumption == U32Max \in Nat \ {0}

\* A byte of audio is told from filling and from the bytes of chunks.
ASSUME BytesAssumption ==
    /\ Zero \notin Bytes
    /\ \A x \in Bytes \cup {Zero} : x \notin [chunk : Chunks, at : Nat]

ASSUME WritesAssumption == Writes \subseteq Seq(Bytes)

ASSUME ChunksAssumption == Chunks \subseteq [id : STRING, size : Nat]

\* The smallest header is 12 + 24 + 8 bytes; open() and rf64().open() ask for
\* a seekable output; RF64 has no streaming form.  Each leading chunk fits its
\* own size field, but nothing bounds their total: a header alone may be longer
\* than a RIFF file can be.
ASSUME ConfigsAssumption ==
    /\ Configs \subseteq Config
    /\ \A c \in Configs :
        /\ c.header_len >= 44
        /\ c.rf64 => c.seekable
        /\ c.seekable => c.can_seek

ASSUME BoundsAssumption == MaxFrame \in Nat /\ MaxData \in Nat /\ MaxTail \in Nat

VARIABLES
    cfg,            \* the format and layout fixed when the writer was opened
    phase,          \* "open", or how the writer was consumed: "finalized",
                    \* "released" (not patched) or "lost" (finalize failed)
    data_bytes,     \* furthest extent of the audio, in bytes
    data_pos,       \* the write cursor within the audio
    trailing_bytes, \* bytes written after the audio
    pos,            \* position of the output stream, from the file's start
    body,           \* the bytes of the file after the header
    hdr             \* the size fields as they are on disk: riff, data, count

file == <<pos, body, hdr>>
vars == <<cfg, phase, data_bytes, data_pos, trailing_bytes, pos, body, hdr>>

-----------------------------------------------------------------------------
(* Opening: every size field holds its placeholder.                        *)

Placeholder(c) == IF c.rf64 THEN 0 ELSE U32Max

Init ==
    /\ cfg \in Configs
    /\ phase = "open"
    /\ data_bytes = 0
    /\ data_pos = 0
    /\ trailing_bytes = 0
    /\ pos = cfg.header_len
    /\ body = << >>
    /\ hdr = [riff |-> Placeholder(cfg), data |-> Placeholder(cfg),
              count |-> Placeholder(cfg)]

-----------------------------------------------------------------------------
(* Guards and queries.                                                     *)

\* Only here must the real lengths fit 32-bit fields.
Limited == cfg.seekable /\ ~cfg.rf64

EnsureDataOpen == trailing_bytes = 0

FitsExtent(extent) ==
    Limited =>
        SatSub(cfg.header_len + extent + trailing_bytes, 8) <= U32Max

\* Mutant: the capacity check forgets what is already in front of the cursor.
CapacityFromCursorOnly(additional) == Limited => data_pos + additional <= U32Max

FitsCapacity(additional) == FitsExtent(Greatest(data_bytes, data_pos + additional))

\* Whole frames in a number of bytes, zero if frames have no size.
FramesAt(bytes) == IF cfg.frame_bytes = 0 THEN 0 ELSE bytes \div cfg.frame_bytes

Position == FramesAt(data_pos)

\* Defined where the code answers Some(..): Limited and a frame size.
HasLimit == Limited /\ cfg.frame_bytes # 0

\* Mutant: the room left is counted from the end of the audio.
RemainingFromExtent ==
    IF trailing_bytes # 0 THEN 0
    ELSE FramesAt(SatSub(SatSub(U32Max + 8, cfg.header_len), data_bytes))

RemainingFrames ==
    IF trailing_bytes # 0 THEN 0
    ELSE LET ceiling == SatSub(U32Max + 8, cfg.header_len + trailing_bytes)
         IN  FramesAt(SatSub(ceiling, data_pos))

-----------------------------------------------------------------------------
(* Writing audio.                                                          *)

\* write_all at the stream's position.
Emit(cells) ==
    /\ body' = Put(body, pos - cfg.header_len, cells)
    /\ pos' = pos + Len(cells)

Advance(n) ==
    /\ data_pos' = data_pos + n
    /\ data_bytes' = Greatest(data_bytes, data_pos + n)

WriteAudio(w) ==
    /\ phase = "open"
    /\ EnsureDataOpen
    /\ FitsCapacity(Len(w))
    /\ data_pos + Len(w) <= MaxData
    /\ Emit(w)
    /\ Advance(Len(w))
    /\ UNCHANGED <<cfg, phase, trailing_bytes, hdr>>

WriteRawInterleaved == \E w \in Writes : WriteAudio(w)

\* The buffer has any number of frames and channels: its channel count is not
\* compared with the file's.
WriteFloatBuffer ==
    /\ cfg.sample_bytes # 0
    /\ \E w \in Writes :
        /\ \E frames, channels \in 1 .. MaxFrame :
            Len(w) = frames * channels * cfg.sample_bytes
        /\ WriteAudio(w)

-----------------------------------------------------------------------------
(* Moving the cursor.                                                      *)

SeekBack(offset) ==
    /\ offset <= data_bytes
    /\ pos' = cfg.header_len + offset
    /\ data_pos' = offset
    /\ UNCHANGED <<cfg, phase, data_bytes, trailing_bytes, body, hdr>>

\* Mutant: the gap is filled from the cursor instead of the furthest extent.
SeekForwardFromCursor(offset) ==
    /\ offset > data_bytes
    /\ FitsExtent(offset)
    /\ offset <= MaxData
    /\ Emit(Repeat(Zero, offset - data_bytes))
    /\ Advance(offset - data_bytes)
    /\ UNCHANGED <<cfg, phase, trailing_bytes, hdr>>

\* The gap is filled from the furthest extent, whatever the cursor was.
SeekForward(offset) ==
    /\ offset > data_bytes
    /\ FitsExtent(offset)
    /\ offset <= MaxData
    /\ body' = Put(body, data_bytes, Repeat(Zero, offset - data_bytes))
    /\ pos' = cfg.header_len + offset
    /\ data_pos' = offset
    /\ data_bytes' = offset
    /\ UNCHANGED <<cfg, phase, trailing_bytes, hdr>>

SeekToFrame(frame) ==
    /\ phase = "open"
    /\ cfg.can_seek
    /\ EnsureDataOpen
    /\ cfg.frame_bytes # 0
    /\ LET offset == cfg.frame_bytes * frame
       IN  SeekBack(offset) \/ SeekForward(offset)

-----------------------------------------------------------------------------
(* Trimming.                                                               *)

\* Mutant: the stream is shortened under the cursor, which stays behind.
TruncateWithoutSeek(frame) ==
    /\ phase = "open" /\ cfg.seekable /\ EnsureDataOpen /\ cfg.frame_bytes # 0
    /\ LET offset == cfg.frame_bytes * frame
       IN  /\ offset < data_bytes
           /\ body' = Cut(body, offset)
           /\ data_bytes' = offset
           /\ data_pos' = Least(data_pos, offset)
    /\ UNCHANGED <<cfg, phase, trailing_bytes, pos, hdr>>

\* A frame at or past the end has nothing behind it: the call returns at once.
TruncateToFrame(frame) ==
    /\ phase = "open"
    /\ cfg.can_seek
    /\ EnsureDataOpen
    /\ cfg.seekable
    /\ cfg.frame_bytes # 0
    /\ LET offset == cfg.frame_bytes * frame
       IN  /\ offset < data_bytes
           /\ body' = Cut(body, offset)
           /\ data_bytes' = offset
           /\ data_pos' = Least(data_pos, offset)
           /\ pos' = cfg.header_len + Least(data_pos, offset)
    /\ UNCHANGED <<cfg, phase, trailing_bytes, hdr>>

Truncate == TruncateToFrame(Position)

-----------------------------------------------------------------------------
(* Trailing chunks.  The chunk goes wherever the stream is: nothing moves  *)
(* it to the end of the audio, and nothing compares the new length with    *)
(* the 32-bit limit.                                                       *)

\* Mutant: the audio is never padded.
NoPadBeforeTail == 0

PadBeforeTail == IF trailing_bytes = 0 THEN PadOf(data_bytes) ELSE 0

\* Mutant: the pad byte is written and not counted.
WriteChunkPadUncounted(c) ==
    /\ phase = "open"
    /\ trailing_bytes + ChunkLen(c.size) <= MaxTail
    /\ Emit(Repeat(Zero, PadBeforeTail) \o ChunkCells(c))
    /\ trailing_bytes' = trailing_bytes + ChunkLen(c.size)
    /\ UNCHANGED <<cfg, phase, data_bytes, data_pos, hdr>>

WriteChunk(c) ==
    /\ phase = "open"
    /\ Suppliable(c, U32Max)
    /\ trailing_bytes + PadBeforeTail + ChunkLen(c.size) <= MaxTail
    /\ Emit(Repeat(Zero, PadBeforeTail) \o ChunkCells(c))
    /\ trailing_bytes' = trailing_bytes + PadBeforeTail + ChunkLen(c.size)
    /\ UNCHANGED <<cfg, phase, data_bytes, data_pos, hdr>>

-----------------------------------------------------------------------------
(* The size fields.                                                        *)

\* Mutant: the trailing chunks are left out of the RIFF size.
RiffSizeWithoutTail == cfg.header_len + data_bytes - 8

\* Mutant: the header is left out of the RIFF size.
RiffSizeWithoutHeader == data_bytes + trailing_bytes - 8

\* Mutant: the id and size of the RIFF chunk are counted into its size.
RiffSizeWithOwnHeader == cfg.header_len + data_bytes + trailing_bytes

RiffSize == cfg.header_len + data_bytes + trailing_bytes - 8

\* The conversions of patch_sizes, made before anything is written.
SizesFit == cfg.rf64 \/ (RiffSize <= U32Max /\ data_bytes <= U32Max)

PatchedCount ==
    IF cfg.counting
    THEN IF cfg.rf64 THEN FramesAt(data_bytes)
         ELSE Least(FramesAt(data_bytes), U32Max)
    ELSE IF cfg.rf64 /\ cfg.fixed # NoCount THEN cfg.fixed ELSE hdr.count

PatchSizes ==
    /\ SizesFit
    /\ hdr' = [riff |-> RiffSize, data |-> data_bytes, count |-> PatchedCount]

\* Refresh the header and come back; a streaming writer only flushes.
UpdateHeader ==
    /\ phase = "open"
    /\ cfg.can_seek
    /\ cfg.seekable
    /\ PatchSizes
    /\ UNCHANGED <<cfg, phase, data_bytes, data_pos, trailing_bytes, pos, body>>

FinalizeStreaming ==
    /\ ~cfg.seekable
    /\ phase' = "released"
    /\ UNCHANGED <<pos, hdr>>

\* Patch, and leave the stream at the end of the file.
FinalizePatched ==
    /\ cfg.seekable
    /\ PatchSizes
    /\ phase' = "finalized"
    /\ pos' = cfg.header_len + Len(body)

\* The sizes do not fit: the call fails, and the writer is gone with it.
FinalizeTooLarge ==
    /\ cfg.seekable
    /\ ~SizesFit
    /\ phase' = "lost"
    /\ UNCHANGED <<pos, hdr>>

Finalize ==
    /\ phase = "open"
    /\ cfg.can_seek
    /\ FinalizeStreaming \/ FinalizePatched \/ FinalizeTooLarge
    /\ UNCHANGED <<cfg, data_bytes, data_pos, trailing_bytes, body>>

IntoInner ==
    /\ phase = "open"
    /\ phase' = "released"
    /\ UNCHANGED <<cfg, data_bytes, data_pos, trailing_bytes, file>>

-----------------------------------------------------------------------------
(* The two specifications.  In Spec the caller is free.  In                *)
(* DisciplinedSpec it starts the trailing chunks only with the cursor at   *)
(* the end of the audio.                                                   *)

AudioStep ==
    \/ WriteRawInterleaved
    \/ WriteFloatBuffer
    \/ \E frame \in 0 .. MaxFrame : SeekToFrame(frame)
    \/ \E frame \in 0 .. MaxFrame : TruncateToFrame(frame)
    \/ Truncate

HeaderStep == UpdateHeader \/ Finalize \/ IntoInner

WriteChunkAtEnd(c) == data_pos = data_bytes /\ WriteChunk(c)

Next == AudioStep \/ HeaderStep \/ (\E c \in Chunks : WriteChunk(c))

DisciplinedNext ==
    AudioStep \/ HeaderStep \/ (\E c \in Chunks : WriteChunkAtEnd(c))

Spec == Init /\ [][Next]_vars
DisciplinedSpec == Init /\ [][DisciplinedNext]_vars

-----------------------------------------------------------------------------
(* What has to hold.                                                       *)

\* The type of every variable, the position and cursor included.
TypeOK ==
    /\ cfg \in Configs
    /\ phase \in {"open", "finalized", "released", "lost"}
    /\ data_bytes \in Nat
    /\ data_pos \in Nat
    /\ trailing_bytes \in Nat
    /\ pos \in Nat
    /\ body \in Seq(Bytes \cup {Zero} \cup [chunk : Chunks, at : Nat])
    /\ hdr \in [riff : Nat, data : Nat, count : Nat]

\* While audio can be written, the file holds exactly the audio and the stream
\* stands where data_pos says: the two are moved separately by every write,
\* seek and trim, and a write goes to the stream while the bookkeeping goes to
\* data_pos (advance, seek_to_frame, truncate_to_frame).
StreamAtCursor ==
    phase = "open" /\ trailing_bytes = 0 =>
        /\ pos = cfg.header_len + data_pos
        /\ data_pos <= data_bytes
        /\ Len(body) = data_bytes

\* However the audio was produced, by writes at any cursor and by forward
\* seeks, a seekable RIFF file's sizes fit their fields as long as no chunk
\* trails it: finalize cannot fail on a file of audio alone (check_capacity).
\* It can on one without any audio, where nothing was ever checked, but only
\* if the leading chunks have made the header alone too long (write_header).
AudioAloneAlwaysFits ==
    Limited /\ trailing_bytes = 0 =>
        SizesFit \/ (data_bytes = 0 /\ cfg.header_len - 8 > U32Max)

\* remaining_frames and check_capacity compute the limit in different ways;
\* they agree: whole frames can be written exactly as long as there are any
\* remaining, from wherever the cursor is.
RemainingFramesIsExact ==
    HasLimit /\ phase = "open" =>
        \A frames \in 0 .. MaxFrame :
            frames > 0 =>
                (frames <= RemainingFrames
                    <=> EnsureDataOpen /\ FitsCapacity(frames * cfg.frame_bytes))

\* data_bytes and trailing_bytes account for every byte of the file, so the
\* sizes computed from them describe it, and after the first chunk the stream
\* stays at the end of the file (write_chunk, patch_sizes).
FileIsExactlyDescribed ==
    /\ Len(body) = data_bytes + trailing_bytes
    /\ trailing_bytes # 0 /\ phase = "open" => pos = cfg.header_len + Len(body)

\* The chunks after the audio are found by a reader that steps from the padded
\* end of the audio from chunk to chunk: each chunk is whole and begins where
\* the previous one, pad included, ends.
TailIsWalkable ==
    LET Starts == {i \in 1 .. Len(body) : body[i] \in [chunk : Chunks, at : {1}]}
        first  == data_bytes + PadOf(data_bytes) + 1
    IN  trailing_bytes # 0 =>
            /\ first \in Starts
            /\ \A i \in Starts :
                LET c == body[i].chunk
                    n == ChunkLen(c.size)
                IN  /\ i + n \in Starts \cup {Len(body) + 1}
                    /\ \A k \in 1 .. n : body[i + k - 1] = [chunk |-> c, at |-> k]

\* A finalized file's header describes the file: the RIFF size runs to its
\* last byte, the data size is the audio's, and a counted number of frames is
\* that of the audio.
FinalizedSizesAreExact ==
    phase = "finalized" =>
        /\ hdr.riff + 8 = cfg.header_len + Len(body)
        /\ hdr.data = data_bytes
        /\ cfg.counting => hdr.count = FramesAt(data_bytes)

\* The sizes on disk are placeholders or lie inside the file, so a process
\* killed here leaves a file whose declared audio is all there.
HeaderCovered ==
    \/ ~cfg.rf64 /\ hdr.riff = U32Max /\ hdr.data = U32Max
    \/ /\ hdr.data <= Len(body)
       /\ hdr.riff + 8 <= cfg.header_len + Len(body)

\* Writing, seeking, chunks and refreshing the header never make the header
\* claim more than the file holds: only shortening the file does, until the
\* next refresh (update_header, truncate_to_frame).
HeaderStaysCovered ==
    [][HeaderCovered /\ ~HeaderCovered' => Len(body') < Len(body)]_vars

\* The writer implements the track of AudioTrack: what is on disk between the
\* header and data_bytes is the audio recorded, and what follows is the tail.
Track == INSTANCE AudioTrack WITH
    audio   <- Cut(body, data_bytes),
    cursor  <- data_pos,
    tail    <- SubSeq(body, data_bytes + 1, Len(body)),
    open    <- (phase = "open"),
    Offsets <- 0 .. MaxData

ImplementsTrack == Track!TrackSpec

-----------------------------------------------------------------------------
(* What the documentation says and the code does not do.                   *)

\* "Write a metadata chunk after the audio data" (write_chunk): a chunk never
\* replaces audio that was there.
ChunksFollowTheAudio ==
    trailing_bytes # 0 => Len(body) = data_bytes + trailing_bytes

\* "The eager capacity check keeps writes under 4 GB, so these conversions
\* only fail if the caller bypassed the writer" (patch_sizes): a writer driven
\* through its methods can be finalized.
FinalizeSucceeds == phase # "lost"
=============================================================================
