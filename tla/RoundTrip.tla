------------------------------ MODULE RoundTrip ------------------------------
(***************************************************************************)
(* A file written by this crate and read back by it.  The header is        *)
(* HeaderWriter's, field by field; the writer records audio behind it,     *)
(* attaches chunks and patches sizes, one write at a time, and is finished *)
(* or killed in any state; then HeaderWalk's loop walks what is in the     *)
(* file.  Neither side knows the other: they agree on a layout, or not.    *)
(* What was read is then written out again, as the documentation says to   *)
(* rewrite a file, and the copy is read back too.                          *)
(*                                                                         *)
(* HeaderWalk is used as it is, its actions applied to the chunk header    *)
(* that the file has at next.  What the writer does to its counters and    *)
(* its stream is the subject of WavWriter, what failed calls do to them    *)
(* that of WavRecovery: here the caller ends the audio before the first    *)
(* chunk and no call fails.  A frame has one byte.                         *)
(***************************************************************************)
EXTENDS HeaderWriter, FiniteSets

CONSTANTS
    U64Max,     \* u64::MAX, scaled down
    Attachable, \* the chunks passed to write_chunk
    Looks,      \* the chunk headers that audio may look like
    MaxAudio,   \* bound: the bytes of audio recorded
    MaxAttached \* bound: the chunks attached behind them

VARIABLES
    recorded,   \* bytes of audio written
    tail,       \* the chunks behind the audio: [id, size, at]
    patches,    \* the sizes that a refresh has still to write
    closing,    \* whether that refresh is finalize's
    patched,    \* the fields written by refreshes: offset to number
    promised,   \* history: the audio described by the last whole refresh
    life,       \* "writing", "finalized", "released" or "killed"
    source      \* what the file is a copy of, or NoSource

VARIABLES file, status, next, scan_end, ds64, fmt, fact, audio, bodies

Walk == INSTANCE HeaderWalk WITH
    FileSizes <- {}, Declared <- {}, Ids <- {}, Lengths <- {}, Ds64Values <- {},
    Tables <- {}, CoreSize <- 16, RiffSizeEnd <- 8, DataSizeEnd <- 16, TableEnd <- 40

\* A chunk that is attached has a FOURCC for its id.  The writer takes any four
\* bytes; what is none ends the walk like audio does.
ASSUME RoundTripAssumption ==
    /\ U64Max \in Nat /\ U64Max > U32Max
    /\ \A c \in Attachable : c.id \in STRING \ {Walk!NoId} /\ c.size \in Nat
    /\ Looks \subseteq [id : STRING, len : 0 .. U32Max]
    /\ MaxAudio \in Nat /\ MaxAttached \in Nat

writing == <<recorded, tail, patches, closing, patched, promised, life, source>>
reading == <<file, status, next, scan_end, ds64, fmt, fact, audio, bodies>>
allvars == <<vars, writing, reading>>

NoSource == [fact |-> Absent, before |-> << >>, after |-> << >>, len |-> Absent]
Copying == source # NoSource

NoFile == [size |-> 0, rf64 |-> FALSE, declared |-> 0]

-----------------------------------------------------------------------------
(* The file.                                                               *)

AudioEnd == header_len + recorded

FileEnd ==
    IF stage # "done" THEN emitted
    ELSE IF tail = << >> THEN AudioEnd
    ELSE tail[Len(tail)].at + ChunkLen(tail[Len(tail)].size)

\* The number in a field: the last one patched into it, or the first.
NumberIn(f) == IF f.at \in DOMAIN patched THEN patched[f.at] ELSE f.number

Named(chunk, name) == CHOOSE f \in fields : f.chunk = chunk /\ f.name = name

\* The chunk headers there may be at a place.  In the audio, and where no chunk
\* begins, that is anything.
HeadersAt(at) ==
    LET Written  == {[id |-> f.chunk, len |-> NumberIn(f)] :
                        f \in {g \in fields : g.name = "size" /\ g.at = at + 4}}
        Attached == {[id |-> c.id, len |-> c.size] : c \in {tail[i] : i \in
                        {j \in DOMAIN tail : tail[j].at = at}}}
    IN  IF Written \cup Attached # {} THEN Written \cup Attached ELSE Looks

-----------------------------------------------------------------------------
(* Writing.                                                                *)

Writing == life = "writing" /\ stage = "done" /\ patches = << >>

WriteHeader == life = "writing" /\ Next /\ UNCHANGED <<writing, reading>>

\* check_extent: the sizes of a RIFF file that is patched have to fit.
FitsCapacity(n) ==
    req.seekable /\ ~req.rf64 => SatSub(AudioEnd + n, 8) <= U32Max

\* write_raw_interleaved, write_float_buffer.
Record(n) ==
    /\ Writing
    /\ tail = << >>
    /\ FitsCapacity(n)
    /\ recorded' = recorded + n
    /\ UNCHANGED <<vars, tail, patches, closing, patched, promised, life, source, reading>>

\* write_chunk: the audio is padded by the first chunk.
Attach(c) ==
    /\ Writing
    /\ Suppliable(c, U32Max)
    /\ LET at == IF tail = << >> THEN AudioEnd + PadOf(recorded) ELSE FileEnd
       IN  tail' = Append(tail, [id |-> c.id, size |-> c.size, at |-> at])
    /\ UNCHANGED <<vars, recorded, patches, closing, patched, promised, life, source,
                   reading>>

Patch(at, number) == [at |-> at, number |-> number]

\* patch_sizes: the outermost size first.
PatchList ==
    <<Patch(offsets.riff, FileEnd - 8), Patch(offsets.data, recorded)>>
        \o (IF Counting THEN <<Patch(offsets.count, recorded)>>
            ELSE IF HasFixedCount THEN <<Patch(offsets.count, req.fact.count)>> ELSE << >>)

\* update_header and finalize of a seekable writer.
Refresh(last) ==
    /\ Writing
    /\ req.seekable
    /\ req.rf64 \/ FileEnd - 8 <= U32Max
    /\ patches' = PatchList
    /\ closing' = last
    /\ UNCHANGED <<vars, recorded, tail, patched, promised, life, source, reading>>

WritePatch ==
    /\ life = "writing"
    /\ patches # << >>
    /\ LET p == Head(patches)
       IN  patched' = [x \in DOMAIN patched \cup {p.at} |->
                            IF x = p.at THEN p.number ELSE patched[x]]
    /\ patches' = Tail(patches)
    /\ LET whole == Len(patches) = 1
       IN  /\ promised' = IF whole THEN recorded ELSE promised
           /\ life' = IF whole /\ closing THEN "finalized" ELSE life
    /\ UNCHANGED <<vars, recorded, tail, closing, source, reading>>

\* into_inner, and finalize of a streaming writer: nothing is patched.
Release ==
    /\ Writing
    /\ life' = "released"
    /\ UNCHANGED <<vars, recorded, tail, patches, closing, patched, promised, source,
                   reading>>

-----------------------------------------------------------------------------
(* Reading.                                                                *)

Closed == life = "finalized" \/ (life = "released" /\ ~req.seekable)

\* read_wav_header up to its loop.  A file that is being written was left
\* behind by a process that was killed.  No file is as long as a u64 can say.
Open ==
    /\ status = "unread"
    /\ FileEnd < U64Max
    /\ life' = IF life = "writing" THEN "killed" ELSE life
    /\ file' = [size |-> FileEnd, rf64 |-> req.rf64,
                declared |-> IF emitted = 0 THEN 0 ELSE NumberIn(Named("RIFF", "size"))]
    /\ status' = IF FileEnd < 12 THEN "error" ELSE "walking"
    /\ next' = 12
    /\ scan_end' = FileEnd
    /\ UNCHANGED <<vars, recorded, tail, patches, closing, patched, promised, source,
                   ds64, fmt, fact, audio, bodies>>

Ds64Here == [found |-> TRUE, riff |-> NumberIn(Named("ds64", "riffSize")),
             data |-> NumberIn(Named("ds64", "dataSize")), table |-> << >>]

\* One iteration.  A fmt chunk of this crate is never rejected.
WalkOver(h) ==
    \/ h.id = "ds64" /\ Walk!Ds64ChunkHolding(h.len, Ds64Here)
    \/ h.id = "fact" /\ Walk!FactChunk(h.len)
    \/ h.id = "fmt " /\ Walk!FmtChunk(h.len)
    \/ h.id = "data" /\ (Walk!OpenEndedData(h.len) \/ Walk!DataChunk(h.len))
    \/ h.id \notin Walk!Owned /\ (Walk!OtherChunk(h.id, h.len) \/ Walk!CutOffChunk(h.id, h.len))
    \/ h.id = Walk!NoId /\ Walk!WalkedIntoAudio

Read ==
    /\ (\E h \in HeadersAt(next) : WalkOver(h)) \/ Walk!Result
    /\ UNCHANGED <<vars, writing>>

Done == status \in {"ok", "error"}

\* Things with places, in the order of their places.
InOrder(S) ==
    [i \in 1 .. Cardinality(S) |->
        CHOOSE x \in S : Cardinality({y \in S : y.at < x.at}) = i - 1]

\* chunks_before or chunks_after, as the walk came upon them.
Handed(after) ==
    LET found == InOrder({b \in Walk!Captured : b.after = after})
    IN  [i \in DOMAIN found |-> [id |-> found[i].id, size |-> found[i].len]]

FactRead ==
    IF fact THEN (CHOOSE b \in bodies : b.id = "fact").len ELSE Absent

\* What a caller has in hand after read_raw_all.
WhatWasRead ==
    [fact |-> FactRead, before |-> Handed(FALSE), after |-> Handed(TRUE),
     len |-> Least(audio.len, SatSub(file.size, audio.at))]

-----------------------------------------------------------------------------
(* Rewriting: the same fmt chunk, the fact body verbatim or none, the      *)
(* chunks on the side they were found on.                                  *)

Reopen ==
    /\ stage' = "check" /\ written' = 0 /\ header_len' = 0
    /\ offsets' = [riff |-> Absent, data |-> Absent, count |-> Absent]
    /\ emitted' = 0 /\ fields' = {}
    /\ recorded' = 0 /\ tail' = << >> /\ patches' = << >> /\ closing' = FALSE
    /\ patched' = << >> /\ promised' = 0 /\ life' = "writing"
    /\ file' = NoFile /\ status' = "unread" /\ next' = 0 /\ scan_end' = 0
    /\ ds64' = Walk!NoDs64 /\ fmt' = FALSE /\ fact' = FALSE
    /\ audio' = Walk!NoAudio /\ bodies' = {}

\* Killed between the patch of the RIFF size and that of the data size.  What
\* the audio looks like may then be handed out: such a file is not copied.
Torn == life = "killed" /\ patches # << >> /\ Len(patches) = Len(PatchList) - 1

\* Mutant: every chunk goes ahead of the audio.
CopyFlattened ==
    /\ status = "ok" /\ ~Copying /\ ~Torn
    /\ source' = WhatWasRead
    /\ req' = [req EXCEPT !.leading = Handed(FALSE) \o Handed(TRUE),
                          !.fact = [kind |-> "None", len |-> 0, count |-> 0]]
    /\ Reopen

Copy ==
    /\ status = "ok" /\ ~Copying /\ ~Torn
    /\ source' = WhatWasRead
    /\ req' = [req EXCEPT !.leading = Handed(FALSE),
                          !.fact = IF fact
                                   THEN [kind |-> "Body", len |-> FactRead, count |-> 0]
                                   ELSE [kind |-> "None", len |-> 0, count |-> 0]]
    /\ Reopen

-----------------------------------------------------------------------------

RoundTripInit ==
    /\ Init
    /\ recorded = 0 /\ tail = << >> /\ patches = << >> /\ closing = FALSE
    /\ patched = << >> /\ promised = 0 /\ life = "writing" /\ source = NoSource
    /\ file = NoFile /\ status = "unread" /\ next = 0 /\ scan_end = 0
    /\ ds64 = Walk!NoDs64 /\ fmt = FALSE /\ fact = FALSE
    /\ audio = Walk!NoAudio /\ bodies = {}

\* Any caller; it may be killed in any state.
FreeCaller ==
    \/ \E n \in 1 .. MaxAudio - recorded : Record(n)
    \/ Len(tail) < MaxAttached /\ \E c \in Attachable : Attach(c)
    \/ \E last \in BOOLEAN : Refresh(last)
    \/ Release
    \/ Open

\* A caller that writes what it has read, in order, and finishes.
CopyingCaller ==
    LET k == Len(tail)
    IN  \/ recorded < source.len /\ Record(source.len - recorded)
        \/ recorded = source.len /\ k < Len(source.after) /\ Attach(source.after[k + 1])
        \/ recorded = source.len /\ k = Len(source.after)
            /\ (Refresh(TRUE) \/ (~req.seekable /\ Release))
        \/ Closed /\ Open

RoundTripNext ==
    \/ WriteHeader
    \/ ~Copying /\ FreeCaller
    \/ Copying /\ CopyingCaller
    \/ WritePatch
    \/ Read
    \/ Copy

RoundTripSpec == RoundTripInit /\ [][RoundTripNext]_allvars

-----------------------------------------------------------------------------
(* What has to hold.                                                       *)

Counts == {f \in fields : f.name \in {"sampleCount", "dwSampleLength"}}

\* A file that was finished is read as it was written: the audio where it is
\* and as long as it is (a stream's runs to the end of the file), every chunk
\* on its side of the audio and in its order.  A count of frames is not left at
\* its placeholder, and blocks of a format without frames are not counted
\* (write_header, ds64_sample_count, patch_sizes, read_wav_header).
FinishedFilesReadBack ==
    Done /\ stage = "done" /\ Closed /\ (req.seekable \/ tail = << >>) =>
        /\ status = "ok"
        /\ audio.at = header_len
        /\ IF req.seekable THEN ~Walk!LengthIsUnknown /\ audio.len = recorded
           ELSE Walk!LengthIsUnknown
        /\ Handed(FALSE) = req.leading
        /\ Handed(TRUE) = [i \in DOMAIN tail |-> [id |-> tail[i].id, size |-> tail[i].size]]
        /\ \A f \in Counts :
                /\ f.value = "unset" => NumberIn(f) = recorded
                /\ ~req.fmt.modelled => NumberIn(f) \in {0, req.fact.count}

\* A file left behind by a kill is one that can be read once its header is
\* whole, and no file before that: the audio begins where it does, its leading
\* chunks are there, and it reaches at least as far as the last refresh said; a
\* RIFF file whose data size was never patched runs to its end ("an interrupted file
\* stays readable", README, and update_header).
KilledFilesStayReadable ==
    /\ Done /\ stage # "done" => status = "error"
    /\ Done /\ stage = "done" /\ life = "killed" =>
        /\ status = "ok"
        /\ audio.at = header_len
        /\ Handed(FALSE) = req.leading
        /\ promised <= audio.len
        /\ audio.len <= recorded \/ Walk!LengthIsUnknown
        /\ ~req.rf64 /\ offsets.data \notin DOMAIN patched => Walk!LengthIsUnknown

\* Whatever was patched when the writer was killed, the chunks handed out are
\* chunks that were attached, from the first on: audio beyond a stale data size
\* is not taken for chunks.  Not so between the two patches of a refresh, where
\* the RIFF size covers audio that the data size does not (patch_sizes, and
\* the two guards of read_wav_header).
ChunksHandedOutWereAttached ==
    Done /\ stage = "done" /\ ~Torn =>
        LET after == Handed(TRUE)
        IN  /\ Len(after) <= Len(tail)
            /\ \A i \in DOMAIN after :
                    after[i] = [id |-> tail[i].id, size |-> tail[i].size]

\* A copy made as the README says, of any file that can be read, finished or
\* left behind by a kill (but not between those two patches), is accepted by the
\* writer and reads as the original did: the same audio, the same fact body, the
\* same chunks on the same sides.
CopiesReadTheSame ==
    Copying =>
        /\ stage # "failed"
        /\ Done => status = "ok" /\ WhatWasRead = source

-----------------------------------------------------------------------------
(* What the documentation says and the code does not do.                   *)

\* "every non-audio chunk round-trips verbatim (leading or trailing)" (README):
\* the chunks attached to a stream come back as chunks.
StreamedChunksComeBack ==
    Done /\ stage = "done" /\ Closed => Len(Handed(TRUE)) = Len(tail)
=============================================================================
