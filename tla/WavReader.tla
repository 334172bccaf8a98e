----------------------------- MODULE WavReader ------------------------------
(***************************************************************************)
(* WavReader (src/reader.rs): the object that reads the audio of a file    *)
(* whose header has been parsed (see HeaderWalk).  It counts frames, the   *)
(* stream counts bytes, and the two are moved separately: frames_pos when  *)
(* a call succeeds, the stream byte by byte as the call goes, whether the  *)
(* call succeeds or not.  The header declares a length, the file has one,  *)
(* and either may be the shorter.                                          *)
(*                                                                         *)
(* One action is one call of a public method, on a stream that may fail.   *)
(* The stream's position is counted from the start of the audio; the bytes *)
(* themselves are told apart by where they are.                            *)
(***************************************************************************)
EXTENDS ByteFile

CONSTANTS
    Files,      \* the files a reader may be opened on, see File
    MaxAsk      \* bound: the most frames asked for, and the furthest seek

(* A file as its header leaves it.                                         *)
(*   declared      the length of the audio the header declares             *)
(*   unknown       length_is_unknown: declared is the placeholder          *)
(*   frame_bytes   FmtChunk::frame_bytes, zero if frames have no size      *)
(*   sample_bytes  bytes of a sample, zero for a format without a model    *)
(*   present       bytes from the start of the audio to the file's end,    *)
(*                 chunks behind the audio included                        *)
File ==
    [declared : Nat, unknown : BOOLEAN, frame_bytes : Nat, sample_bytes : Nat,
     present : Nat]

\* A frame of a modelled format is its channels' samples.
ASSUME FilesAssumption ==
    /\ Files \subseteq File
    /\ \A f \in Files :
        f.sample_bytes # 0 => f.frame_bytes # 0 /\ f.frame_bytes % f.sample_bytes = 0

ASSUME BoundAssumption == MaxAsk \in Nat

VARIABLES
    file,       \* the file that is read
    frames_pos, \* frames read so far, as position() answers
    stream,     \* the position of the stream
    in_step,    \* whether no read has failed since the last seek
    last        \* the last read, as its caller saw it, see Read

vars == <<file, frames_pos, stream, in_step, last>>

(* A read: the method, whether it returned Ok, an UnexpectedEof or another *)
(* error, the frames it was asked for and those it returned, the position  *)
(* before it, where in the stream it began, and whether it was in step.    *)
Methods == {"read_into_float", "read_all_to_float", "read_raw_interleaved", "read_raw_all"}
Read == [method : Methods \cup {"none"}, outcome : {"ok", "eof", "failed"},
         asked : Nat, frames : Nat, position : Nat, from : Nat, in_step : BOOLEAN]

\* More than any file has: what the two read_..all methods ask for.
Everything == file.present + 1

-----------------------------------------------------------------------------

\* WavReader::new: the stream is moved to the start of the audio.
Init ==
    /\ file \in Files
    /\ frames_pos = 0
    /\ stream = 0
    /\ in_step = TRUE
    /\ last = [method |-> "none", outcome |-> "ok", asked |-> 0, frames |-> 0,
               position |-> 0, from |-> 0, in_step |-> TRUE]

Frames(bytes) == IF file.frame_bytes = 0 THEN 0 ELSE bytes \div file.frame_bytes

TotalFrames == Frames(file.declared)

\* Mutant: the position is taken never to pass the declared length.
RemainingUnsaturated == TotalFrames

Remaining == SatSub(TotalFrames, frames_pos)

\* The bytes ahead of the stream's position.
Ahead == SatSub(file.present, stream)

Returned(method, outcome, asked, frames) ==
    last' = [method |-> method, outcome |-> outcome, asked |-> asked, frames |-> frames,
             position |-> frames_pos, from |-> stream, in_step |-> in_step]

-----------------------------------------------------------------------------
(* Reading samples: one read_exact per sample.  When the file ends inside  *)
(* a sample, the stream is left before or behind the bytes that are there: *)
(* read_exact does not say.                                                *)

\* All the frames wanted are there, or the file ends at, or in the first
\* sample of, a frame.
FloatsRead(method, asked, want) ==
    /\ LET frames == Least(want, Frames(Ahead))
           end    == stream + frames * file.frame_bytes
       IN  /\ frames < want => file.present < end + file.sample_bytes
           /\ frames_pos' = frames_pos + frames
           /\ stream' \in IF frames < want THEN {end, Greatest(file.present, end)} ELSE {end}
           /\ Returned(method, "ok", asked, frames)
    /\ UNCHANGED <<file, in_step>>

\* The file ends behind the first sample of a frame: the call fails, with the
\* whole frames before it already consumed.
FloatsCutOff(method, asked, want) ==
    /\ LET left == Ahead % file.frame_bytes
       IN  /\ Frames(Ahead) < want
           /\ left >= file.sample_bytes
           /\ stream' \in {file.present - (left % file.sample_bytes), file.present}
    /\ Returned(method, "eof", asked, 0)
    /\ in_step' = FALSE
    /\ UNCHANGED <<file, frames_pos>>

\* The stream reports any other error, with bytes before it consumed.
FloatsFail(method, asked, want) ==
    /\ \E n \in 0 .. Least(want * file.frame_bytes, Ahead) :
        /\ n < want * file.frame_bytes
        /\ stream' = stream + n
    /\ Returned(method, "failed", asked, 0)
    /\ in_step' = FALSE
    /\ UNCHANGED <<file, frames_pos>>

ReadFloats(method, asked, want) ==
    /\ file.sample_bytes # 0
    /\ \/ FloatsRead(method, asked, want)
       \/ FloatsCutOff(method, asked, want)
       \/ FloatsFail(method, asked, want)

\* Mutant: the target's size is not limited by the declared length.
ReadIntoFloatWhateverRemains(frames) == ReadFloats("read_into_float", frames, frames)

ReadIntoFloat(frames) ==
    ReadFloats("read_into_float", frames, Least(frames, Remaining))

ReadAllToFloat == ReadFloats("read_all_to_float", Everything, Remaining)

-----------------------------------------------------------------------------
(* Reading bytes.                                                          *)

\* Up to limit bytes; only whole frames are kept and counted.
BytesRead(method, asked, limit) ==
    /\ LET n      == Least(limit, Ahead)
           frames == Frames(n)
       IN  /\ stream' = stream + n
           /\ frames_pos' = frames_pos + frames
           /\ Returned(method, "ok", asked, frames)
    /\ UNCHANGED <<file, in_step>>

BytesFail(method, asked, limit) ==
    /\ \E n \in 0 .. Least(limit, Ahead) :
        /\ n < limit
        /\ stream' = stream + n
    /\ Returned(method, "failed", asked, 0)
    /\ in_step' = FALSE
    /\ UNCHANGED <<file, frames_pos>>

ReadBytes(method, asked, limit) ==
    /\ file.frame_bytes # 0
    /\ BytesRead(method, asked, limit) \/ BytesFail(method, asked, limit)

ReadRawInterleaved(frames) ==
    ReadBytes("read_raw_interleaved", frames,
              Least(frames, Remaining) * file.frame_bytes)

\* Mutant: the declared length is the limit even when it is the placeholder.
RawLimitDeclared == Remaining * file.frame_bytes

\* An unknown length is no limit: the file is.
RawLimit == IF file.unknown THEN Everything ELSE Remaining * file.frame_bytes

ReadRawAll == ReadBytes("read_raw_all", Everything, RawLimit)

-----------------------------------------------------------------------------

\* Mutant: the stream goes to the frame asked for, the position is clamped.
SeekUnclamped(frame) ==
    /\ file.frame_bytes # 0
    /\ stream' = frame * file.frame_bytes
    /\ frames_pos' = Least(frame, TotalFrames)
    /\ in_step' = TRUE
    /\ UNCHANGED <<file, last>>

SeekToFrame(frame) ==
    /\ file.frame_bytes # 0
    /\ stream' = Least(frame, TotalFrames) * file.frame_bytes
    /\ frames_pos' = Least(frame, TotalFrames)
    /\ in_step' = TRUE
    /\ UNCHANGED <<file, last>>

Next ==
    \/ \E frames \in 0 .. MaxAsk : ReadIntoFloat(frames)
    \/ ReadAllToFloat
    \/ \E frames \in 0 .. MaxAsk : ReadRawInterleaved(frames)
    \/ ReadRawAll
    \/ \E frame \in 0 .. MaxAsk : SeekToFrame(frame)

Spec == Init /\ [][Next]_vars

-----------------------------------------------------------------------------
(* What has to hold.                                                       *)

\* The type of every variable; a position is within the file unless its
\* length is unknown.
TypeOK ==
    /\ file \in Files
    /\ frames_pos \in Nat
    /\ ~file.unknown => frames_pos <= TotalFrames
    /\ stream \in Nat
    /\ in_step \in BOOLEAN
    /\ last \in Read

\* Where the audio ends: where the header or the file says, whichever is
\* first, and an unknown length says nothing.
EndOfAudio == IF file.unknown THEN file.present ELSE Least(file.present, file.declared)

\* As long as no read failed since the last seek, a read returns the frames at
\* position(): whatever mix of float and raw reads, partial frames dropped,
\* clamped seeks and reads past the end came before it.
ReadsReturnTheFramesAtPosition ==
    last.in_step /\ last.frames # 0 => last.from = last.position * file.frame_bytes

\* No read returns a byte behind the declared audio, where the trailing chunks
\* are.
NoReadReturnsMetadata ==
    last.in_step /\ last.frames # 0 =>
        last.from + last.frames * file.frame_bytes <= EndOfAudio

\* A caller that reads until it gets fewer frames than it asked for has read
\* every whole frame: a short read means the end.  (With an unknown length
\* only read_raw_all goes past the placeholder.)
ShortReadsMeanTheEnd ==
    last.in_step /\ last.outcome = "ok" /\ last.frames < last.asked
        /\ (~file.unknown \/ last.method = "read_raw_all") =>
            (last.position + last.frames + 1) * file.frame_bytes > EndOfAudio

-----------------------------------------------------------------------------
(* What the comments say and the code does not do.                         *)

\* "Drop any partial frame at the very end." (read_all_to_float): a file that
\* ends inside a frame is read to its last whole frame, not refused.
PartialFrameIsDropped ==
    last.method = "read_all_to_float" /\ last.in_step => last.outcome # "eof"
=============================================================================
