---------------------------- MODULE MCWavReader -----------------------------
(***************************************************************************)
(* A small instance of WavReader: two channels of 16-bit audio, blocks of  *)
(* 3 bytes and a format without frames.  The audio is declared to end      *)
(* inside and between frames, and the file ends before it, in the first    *)
(* and in the second sample of a frame, at a frame, and behind the audio.  *)
(* The placeholder is 7, with more and with less than that present.        *)
(***************************************************************************)
EXTENDS WavReader

MCMaxAsk == 3

FilesOf(frame, sample) ==
    {[declared |-> d, unknown |-> FALSE, frame_bytes |-> frame,
      sample_bytes |-> sample, present |-> p] : d \in {6, 8}, p \in {0, 5, 7, 8, 13}}
    \cup
    {[declared |-> 7, unknown |-> TRUE, frame_bytes |-> frame,
      sample_bytes |-> sample, present |-> p] : p \in {5, 13}}

MCFiles == FilesOf(4, 2) \cup FilesOf(3, 0) \cup FilesOf(0, 0)
=============================================================================
