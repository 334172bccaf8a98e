----------------------------- MODULE WavRecovery -----------------------------
(***************************************************************************)
(* WavWriter with outputs that fail and processes that are killed.  Where  *)
(* WavWriter takes a method call as one step, here a call is a list of     *)
(* steps, one per call to the output: each takes effect or fails, and the  *)
(* first failure ends the call where it stands, as `?` does in the code.   *)
(* What the writer notes down for a step (data_pos, data_bytes,            *)
(* trailing_bytes) is noted when the step has succeeded.                   *)
(*                                                                         *)
(* A killed process is one that takes no further step, so every state is   *)
(* one a kill can leave behind.  A failing write may have written any part *)
(* of its bytes; a size field is written whole or not at all.              *)
(*                                                                         *)
(* The output is not buffered.  A BufWriter hands on what it holds in the  *)
(* order it was written, so a kill finds the file as it was a few steps    *)
(* earlier: again one of these states.                                     *)
(*                                                                         *)
(* The caller is careful: it starts chunks at the end of the audio, and    *)
(* when a call has failed it writes nothing before a seek, or a trim that  *)
(* shortens the file, has succeeded.  A trim with nothing to cut off       *)
(* succeeds too, without a call to the output, and is no way back.  The    *)
(* code demands none of this.                                              *)
(***************************************************************************)
EXTENDS WavWriter

CONSTANT
    MaxTorn     \* bound: the most bytes a failing write gets out

ASSUME MaxTornAssumption == MaxTorn \in Nat

VARIABLES
    doing,      \* the call in progress, Idle if none
    io,         \* the steps it has still to take
    adrift,     \* a call has failed since the stream was last put somewhere,
                \* by a seek or a trim that shortened the file
    failed,     \* history: some call has failed
    settled,    \* history: the writer when the call in progress began
    track,      \* history: the audio as the successful calls made it
    dirty,      \* history: where a failed write has overwritten audio
    promised,   \* history: audio described by the last successful refresh,
                \* as far as no trim has discarded it since
    trimmed     \* history: a trim has been made since the last refresh

belief == <<data_bytes, data_pos, trailing_bytes>>
history == <<track, dirty, promised, trimmed>>
iovars == <<vars, doing, io, adrift, failed, settled, history>>

Idle == "nothing"
Consuming == {"finalize", "into_inner"}

IOInit ==
    /\ Init
    /\ doing = Idle
    /\ io = << >>
    /\ adrift = FALSE
    /\ failed = FALSE
    /\ settled = << >>
    /\ track = << >>
    /\ dirty = {}
    /\ promised = 0
    /\ trimmed = FALSE

-----------------------------------------------------------------------------
(* The steps.  A seek names the cursor the writer then believes in.        *)

Flush == [op |-> "flush"]
StreamPosition == [op |-> "stream_position"]
Refuse == [op |-> "refuse"]
Seek(to, cursor) == [op |-> "seek", to |-> to, cursor |-> cursor]
Audio(cells) == [op |-> "audio", cells |-> cells]
Behind(cells) == [op |-> "tail", cells |-> cells]
Field(name, value) == [op |-> "field", name |-> name, value |-> value]
Shorten(len) == [op |-> "shorten", len |-> len]

\* Where the size fields are: in ds64, the first chunk of an RF64 file, or in
\* the RIFF and data chunk headers; the count where write_header noted it.
FieldAt(name) ==
    CASE name = "riff"  -> IF cfg.rf64 THEN 20 ELSE 4
      [] name = "data"  -> IF cfg.rf64 THEN 28 ELSE cfg.header_len - 4
      [] name = "count" -> cfg.count_offset

FieldWidth == IF cfg.rf64 THEN 8 ELSE 4

-----------------------------------------------------------------------------
(* The steps of each call.                                                 *)

\* Mutant: a seek to where the writer believes it is moves nothing.
SeekStepsUnlessThere(offset) ==
    IF offset = data_pos THEN <<StreamPosition>>
    ELSE <<Seek(cfg.header_len + offset, offset)>>

SeekSteps(offset) == <<Seek(cfg.header_len + offset, offset)>>

\* Mutant: the filling goes to the end of the file, not of the audio.
FillStepsAtEnd(offset) ==
    <<Seek(cfg.header_len + Len(body), data_bytes),
      Audio(Repeat(Zero, offset - data_bytes))>>

FillSteps(offset) ==
    <<Seek(cfg.header_len + data_bytes, data_bytes),
      Audio(Repeat(Zero, offset - data_bytes))>>

TrimSteps(offset) ==
    <<Flush, Shorten(offset),
      Seek(cfg.header_len + Least(data_pos, offset), Least(data_pos, offset))>>

ChunkSteps(c) ==
    IF PadBeforeTail = 1 THEN <<Behind(<<Zero>>), Behind(ChunkCells(c))>>
    ELSE <<Behind(ChunkCells(c))>>

Patch(name, value) == <<Seek(FieldAt(name), data_pos), Field(name, value)>>

PatchesCount == cfg.counting \/ (cfg.rf64 /\ cfg.fixed # NoCount)

\* Mutant: the data size is patched ahead of the RIFF size around it.
PatchStepsInnerFirst ==
    Patch("data", data_bytes) \o Patch("riff", RiffSize)
        \o (IF PatchesCount THEN Patch("count", PatchedCount) ELSE << >>)

\* From the outermost size to the innermost.
PatchSteps ==
    IF ~SizesFit THEN <<Refuse>>
    ELSE Patch("riff", RiffSize) \o Patch("data", data_bytes)
            \o (IF PatchesCount THEN Patch("count", PatchedCount) ELSE << >>)

\* Mutant: the stream is left in the header.
UpdateStepsWithoutReturn ==
    IF cfg.seekable THEN <<Flush, StreamPosition>> \o PatchSteps ELSE <<Flush>>

UpdateSteps ==
    IF cfg.seekable
    THEN <<Flush, StreamPosition>> \o PatchSteps \o <<Seek(pos, data_pos)>>
    ELSE <<Flush>>

FinalizeSteps ==
    IF cfg.seekable
    THEN <<Flush>> \o PatchSteps \o <<Seek(cfg.header_len + Len(body), data_pos)>>
    ELSE <<Flush>>

-----------------------------------------------------------------------------
(* Starting a call.  The checks come before the first step, as in the code.*)

Start(call, steps) ==
    /\ phase = "open"
    /\ doing = Idle
    /\ doing' = call
    /\ io' = steps
    /\ settled' = [phase |-> phase, data_bytes |-> data_bytes,
                   data_pos |-> data_pos, trailing_bytes |-> trailing_bytes,
                   pos |-> pos, body |-> body, hdr |-> hdr]
    /\ UNCHANGED <<vars, adrift, failed, history>>

StartWrite ==
    \E w \in Writes :
        /\ ~adrift
        /\ EnsureDataOpen
        /\ FitsCapacity(Len(w))
        /\ data_pos + Len(w) <= MaxData
        /\ Start("write", <<Audio(w)>>)

StartSeek ==
    \E frame \in 0 .. MaxFrame :
        LET offset == cfg.frame_bytes * frame
        IN  /\ cfg.can_seek
            /\ EnsureDataOpen
            /\ cfg.frame_bytes # 0
            /\ \/ offset <= data_bytes /\ Start("seek", SeekSteps(offset))
               \/ /\ offset > data_bytes
                  /\ FitsExtent(offset)
                  /\ offset <= MaxData
                  /\ Start("seek", FillSteps(offset))

\* A trim at or past the end of the audio succeeds on the spot: it flushes
\* nothing, and it leaves the stream where it found it.
StartTrim ==
    \E frame \in (0 .. MaxFrame) \cup {Position} :
        LET offset == cfg.frame_bytes * frame
        IN  /\ cfg.can_seek
            /\ EnsureDataOpen
            /\ cfg.seekable
            /\ cfg.frame_bytes # 0
            /\ \/ offset < data_bytes /\ Start("trim", TrimSteps(offset))
               \/ /\ offset >= data_bytes
                  /\ phase = "open" /\ doing = Idle
                  /\ UNCHANGED iovars

StartChunk ==
    \E c \in Chunks :
        /\ ~adrift
        /\ data_pos = data_bytes
        /\ Suppliable(c, U32Max)
        /\ trailing_bytes + PadBeforeTail + ChunkLen(c.size) <= MaxTail
        /\ Start("chunk", ChunkSteps(c))

StartUpdate == cfg.can_seek /\ Start("update", UpdateSteps)
StartFinalize == cfg.can_seek /\ Start("finalize", FinalizeSteps)
StartIntoInner == Start("into_inner", <<Flush>>)

-----------------------------------------------------------------------------
(* Taking a step.                                                          *)

\* The next step is taken; after the last one the call has succeeded.
Take(op) ==
    /\ doing # Idle
    /\ Head(io).op = op
    /\ io' = SubSeq(io, 2, Len(io))
    /\ LET done == Len(io) = 1
       IN  /\ doing' = IF done THEN Idle ELSE doing
           /\ settled' = IF done THEN << >> ELSE settled
           /\ adrift' = (adrift /\ ~(done /\ doing \in {"seek", "trim"}))
           /\ phase' = IF ~done \/ doing \notin Consuming THEN phase
                       ELSE IF doing = "finalize" /\ cfg.seekable THEN "finalized"
                       ELSE "released"
    /\ UNCHANGED <<cfg, failed>>

\* A successful refresh has described the audio as it is.
Describe ==
    LET refreshed == Len(io) = 1 /\ doing \in {"update", "finalize"} /\ cfg.seekable
    IN  /\ promised' = IF refreshed THEN data_bytes ELSE promised
        /\ trimmed' = (trimmed /\ ~refreshed)

TakeFlush ==
    /\ Take("flush") \/ Take("stream_position")
    /\ UNCHANGED <<belief, file, history>>

TakeSeek ==
    /\ Take("seek")
    /\ pos' = Head(io).to
    /\ data_pos' = Head(io).cursor
    /\ Describe
    /\ UNCHANGED <<data_bytes, trailing_bytes, body, hdr, track, dirty>>

TakeAudio ==
    /\ Take("audio")
    /\ Emit(Head(io).cells)
    /\ Advance(Len(Head(io).cells))
    /\ track' = Put(track, data_pos, Head(io).cells)
    /\ dirty' = dirty \ (data_pos + 1 .. data_pos + Len(Head(io).cells))
    /\ UNCHANGED <<trailing_bytes, hdr, promised, trimmed>>

TakeTail ==
    /\ Take("tail")
    /\ Emit(Head(io).cells)
    /\ trailing_bytes' = trailing_bytes + Len(Head(io).cells)
    /\ UNCHANGED <<data_bytes, data_pos, hdr, history>>

TakeField ==
    /\ Take("field")
    /\ hdr' = [hdr EXCEPT ![Head(io).name] = Head(io).value]
    /\ pos' = pos + FieldWidth
    /\ UNCHANGED <<belief, body, history>>

TakeShorten ==
    /\ Take("shorten")
    /\ LET len == Head(io).len
       IN  /\ body' = Cut(body, len)
           /\ data_bytes' = len
           /\ data_pos' = Least(data_pos, len)
           /\ track' = Cut(track, len)
           /\ dirty' = dirty \cap (1 .. len)
           /\ promised' = Least(promised, len)
    /\ trimmed' = TRUE
    /\ UNCHANGED <<trailing_bytes, pos, hdr>>

\* The next step fails, a write with a part of it written, and so does the
\* call.  finalize and into_inner take the writer with them.
Fail ==
    /\ doing # Idle
    /\ IF Head(io).op \in {"audio", "tail"}
       THEN \E k \in 0 .. Least(MaxTorn, Len(Head(io).cells) - 1) :
                /\ Emit(SubSeq(Head(io).cells, 1, k))
                /\ dirty' = IF Head(io).op = "tail" THEN dirty
                            ELSE dirty \cup
                                 ((data_pos + 1 .. data_pos + k) \cap (1 .. data_bytes))
       ELSE UNCHANGED <<pos, body, dirty>>
    /\ doing' = Idle
    /\ io' = << >>
    /\ settled' = << >>
    /\ adrift' = TRUE
    /\ failed' = TRUE
    /\ phase' = IF doing \in Consuming THEN "lost" ELSE phase
    /\ UNCHANGED <<cfg, belief, hdr, track, promised, trimmed>>

IONext ==
    \/ StartWrite \/ StartSeek \/ StartTrim \/ StartChunk
    \/ StartUpdate \/ StartFinalize \/ StartIntoInner
    \/ TakeFlush \/ TakeSeek \/ TakeAudio \/ TakeTail \/ TakeField \/ TakeShorten
    \/ Fail

IOSpec == IOInit /\ [][IONext]_iovars

-----------------------------------------------------------------------------
(* What has to hold.                                                       *)

\* A failed call may leave the stream anywhere, in the header included.  After
\* the next seek that succeeds, or trim that shortens the file, and in calls
\* that do not fail, it is again where the writer believes (seek_to_frame,
\* truncate_to_frame), so what is written then lands there.  A trim with nothing
\* to cut off succeeds as well and puts nothing right: after it the stream may
\* still be in the header.
SeekPutsTheStreamRight ==
    phase = "open" /\ ~adrift /\ doing \in {Idle, "write"} =>
        pos = cfg.header_len + data_pos + trailing_bytes

\* Whenever the process is killed, between two patches and after failed calls
\* too, the sizes on disk are placeholders or nest: the counted frames lie in
\* the data size, that in the RIFF size, and that in the file; and the audio
\* the last refresh described is described still.  A file of exactly the largest
\* size has the placeholder for its RIFF size, and the data still lies in it.  A
\* trim shortens the file under its sizes, until the next refresh (patch_sizes,
\* update_header).
KilledFilesAreConsistent ==
    LET riff_set  == hdr.riff # Placeholder(cfg)
        data_set  == hdr.data # Placeholder(cfg)
        count_set == hdr.count # Placeholder(cfg)
    IN  ~trimmed =>
            /\ riff_set => hdr.riff + 8 <= cfg.header_len + Len(body)
            /\ data_set => cfg.header_len + hdr.data <= hdr.riff + 8
            /\ cfg.counting /\ count_set => data_set /\ hdr.count <= FramesAt(hdr.data)
            /\ promised # 0 => data_set /\ promised <= hdr.data

\* The file's audio is what the successful calls made of it, whatever failed
\* in between and was retried, except where a failed write has overwritten it.
\* What failed writes left behind the end of the audio never becomes audio,
\* not even when a seek extends the audio over it.
AudioIsWhatSucceeded ==
    \A i \in (1 .. data_bytes) \ dirty : i <= Len(body) /\ body[i] = track[i]

\* As long as no call fails, the calls do what the actions of WavWriter do in
\* one step.
Before(field, now) == IF doing = Idle THEN now ELSE settled[field]

Calls == INSTANCE WavWriter WITH
    phase          <- Before("phase", phase),
    data_bytes     <- Before("data_bytes", data_bytes),
    data_pos       <- Before("data_pos", data_pos),
    trailing_bytes <- Before("trailing_bytes", trailing_bytes),
    pos            <- Before("pos", pos),
    body           <- Before("body", body),
    hdr            <- Before("hdr", hdr)

ImplementsCalls == Calls!Init /\ [][failed' \/ Calls!Next]_(Calls!vars)
=============================================================================
