----------------------------- MODULE AudioTrack -----------------------------
(***************************************************************************)
(* What WavWriter promises, without files, offsets or header fields: a     *)
(* track of audio bytes with a cursor, and after it a tail of metadata     *)
(* chunks.                                                                 *)
(*                                                                         *)
(*   - audio is written at the cursor, overwriting what is there and       *)
(*     growing the track when it runs past the end;                        *)
(*   - the cursor moves anywhere inside the track; moving past the end     *)
(*     extends the track with zero bytes first;                            *)
(*   - the track can be trimmed, which drops its end and nothing else;     *)
(*   - the first chunk freezes the track: from then on only the tail       *)
(*     grows, by whole chunks, after a pad byte if the track is odd;       *)
(*   - a closed track never changes again.                                 *)
(***************************************************************************)
EXTENDS ByteFile

CONSTANTS
    Zero,       \* the zero byte, used for filling and padding
    Writes,     \* the byte strings a caller may write as audio
    Chunks,     \* the metadata chunks a caller may add
    Offsets     \* the offsets the cursor may be moved to

VARIABLES
    audio,      \* the audio bytes, in order
    cursor,     \* the offset in audio where the next write lands
    tail,       \* the bytes after the audio: pad and chunks
    open        \* whether the track is still being written

track == <<audio, cursor, tail, open>>

TrackInit ==
    /\ audio = << >>
    /\ cursor = 0
    /\ tail = << >>
    /\ open = TRUE

Recording == open /\ tail = << >>

Record(w) ==
    /\ Recording
    /\ audio' = Put(audio, cursor, w)
    /\ cursor' = cursor + Len(w)
    /\ UNCHANGED <<tail, open>>

MoveTo(offset) ==
    /\ Recording
    /\ offset <= Len(audio)
    /\ cursor' = offset
    /\ UNCHANGED <<audio, tail, open>>

ExtendTo(offset) ==
    /\ Recording
    /\ offset > Len(audio)
    /\ audio' = audio \o Repeat(Zero, offset - Len(audio))
    /\ cursor' = offset
    /\ UNCHANGED <<tail, open>>

TrimTo(offset) ==
    /\ Recording
    /\ offset < Len(audio)
    /\ audio' = Cut(audio, offset)
    /\ cursor' = Least(cursor, offset)
    /\ UNCHANGED <<tail, open>>

Annotate(c) ==
    /\ open
    /\ LET pad == IF tail = << >> THEN Repeat(Zero, PadOf(Len(audio))) ELSE << >>
       IN  tail' = tail \o pad \o ChunkCells(c)
    /\ UNCHANGED <<audio, cursor, open>>

Close ==
    /\ open
    /\ open' = FALSE
    /\ UNCHANGED <<audio, cursor, tail>>

TrackNext ==
    \/ \E w \in Writes : Record(w)
    \/ \E offset \in Offsets : MoveTo(offset) \/ ExtendTo(offset) \/ TrimTo(offset)
    \/ \E c \in Chunks : Annotate(c)
    \/ Close

TrackSpec == TrackInit /\ [][TrackNext]_track
=============================================================================
