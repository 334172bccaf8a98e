--------------------------- MODULE MCWavRecovery ---------------------------
(***************************************************************************)
(* A small instance of WavRecovery: one frame of two bytes and one byte    *)
(* more, and one chunk of odd size behind them.                            *)
(***************************************************************************)
EXTENDS WavRecovery

CONSTANTS a, b, zero

MCU32Max == 62
MCBytes == {a, b}
MCWrites == {<<a>>, <<b, b>>}
MCChunks == {[id |-> "LIST", size |-> 1]}

\* G.711 stereo with its fact chunk.  Two bytes of audio and the chunk fill a
\* RIFF file to the last byte; three and the chunk are more than it may have.
Riff == [rf64 |-> FALSE, seekable |-> TRUE, can_seek |-> TRUE,
         header_len |-> 58, frame_bytes |-> 2, sample_bytes |-> 1,
         counting |-> TRUE, count_offset |-> 46, fixed |-> NoCount]

\* The same as RF64, where every size starts at zero.
Rf64 == [Riff EXCEPT !.header_len = 80, !.rf64 = TRUE, !.count_offset = 36]

\* A streaming writer on an output that happens to seek.
Stream == [Riff EXCEPT !.header_len = 46, !.seekable = FALSE, !.counting = FALSE,
                       !.count_offset = 0]

MCConfigs == {Riff, Rf64, Stream}
=============================================================================
