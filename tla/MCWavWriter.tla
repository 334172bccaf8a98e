---------------------------- MODULE MCWavWriter ----------------------------
(***************************************************************************)
(* A small instance of WavWriter: u32::MAX is 55, so that a file with a 58 *)
(* or 60 byte header reaches its size limit after a few bytes of audio and *)
(* a file with a 44 byte header after a few chunks.                        *)
(***************************************************************************)
EXTENDS WavWriter

CONSTANTS a, b, zero

MCU32Max == 55
MCBytes == {a, b}

\* A byte of either value, two that differ, and a frame of the widest format.
MCWrites == {<<a>>, <<b>>, <<b, a>>, <<a, a, b, b>>}

\* An empty chunk and one with an odd body.
MCChunks == {[id |-> "LIST", size |-> 0], [id |-> "note", size |-> 1]}

\* 8-bit PCM on a seekable output: 44 bytes of header, a limit of 19 bytes.
Pcm8 == [rf64 |-> FALSE, seekable |-> TRUE, can_seek |-> TRUE,
         header_len |-> 44, frame_bytes |-> 1, sample_bytes |-> 1,
         counting |-> FALSE, count_offset |-> 0, fixed |-> NoCount]

\* 16-bit PCM behind a 14 byte leading chunk: a limit of 5 bytes, 2 frames.
Pcm16 == [Pcm8 EXCEPT !.header_len = 58, !.frame_bytes = 2,
                      !.sample_bytes = 2]

\* 32-bit float with its fact chunk: a limit of 5 bytes, one frame and a byte.
Float32 == [Pcm8 EXCEPT !.header_len = 58, !.frame_bytes = 4,
                        !.sample_bytes = 4, !.counting = TRUE,
                        !.count_offset = 46]

\* ADPCM, 3 bytes a block, with a fact chunk the caller filled in: a limit of
\* 3 bytes, one block, and no float path.
Adpcm == [Pcm8 EXCEPT !.header_len = 60, !.frame_bytes = 3, !.sample_bytes = 0]

\* A format whose frames have no size.
Unframed == [Adpcm EXCEPT !.frame_bytes = 0]

\* The same 16-bit PCM as RF64, counted or with the caller's count.
Rf64Counted == [Pcm16 EXCEPT !.header_len = 80, !.rf64 = TRUE, !.counting = TRUE,
                             !.count_offset = 36]
Rf64Fixed == [Rf64Counted EXCEPT !.counting = FALSE, !.fixed = 7]

\* Streaming, to a pipe and to an output that happens to seek.
Pipe == [Pcm16 EXCEPT !.header_len = 44, !.seekable = FALSE, !.can_seek = FALSE]
SeekingStream == [Pipe EXCEPT !.can_seek = TRUE]

MCConfigs ==
    {Pcm8, Pcm16, Float32, Adpcm, Unframed, Rf64Counted, Rf64Fixed, Pipe,
     SeekingStream}

\* 8-bit PCM behind two leading chunks of ten bytes: each fits its size field,
\* and the header, a byte longer than a RIFF file may be, does not.
LongHeader == [Pcm8 EXCEPT !.header_len = 64]

MCAllConfigs == MCConfigs \cup {LongHeader}
=============================================================================
