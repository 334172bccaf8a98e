--------------------------- MODULE WavWriterProofs ---------------------------
(***************************************************************************)
(* The safety properties of WavWriter, for every choice of its constants,  *)
(* and what its file holds: chunks after the audio that can be walked      *)
(* (TailWalkable), and the track of AudioTrack (WriterImplementsTrack).    *)
(*                                                                         *)
(* The inductive invariant is Inv.  StreamAtCursor says that the file and  *)
(* the writer's counters agree, but only while audio can be written; to    *)
(* keep it, and the type of body, a step needs to know two more things:    *)
(* the stream never stands before the audio or beyond the end of the file  *)
(* (StreamInBody), or a write would leave a hole; and the audio already    *)
(* written, if there is any, fits the size fields together with the header *)
(* (DataFits), or a write in front of the end could be accepted while the  *)
(* end is past the limit.                                                  *)
(***************************************************************************)
EXTENDS WavWriter, TLAPS

-----------------------------------------------------------------------------
(* What the operators of ByteFile yield: types, lengths, and which bytes   *)
(* are where.                                                              *)

\* A sequence given by its values at 1 .. n is one of length n.
LEMMA SeqByValues ==
    ASSUME NEW S, NEW n \in Nat, NEW f \in [1 .. n -> S]
    PROVE  f \in Seq(S) /\ Len(f) = n
OBVIOUS

\* A sequence over a set is one over any larger set.
LEMMA SeqMonotone ==
    ASSUME NEW S, NEW T, S \subseteq T, NEW s \in Seq(S)
    PROVE  s \in Seq(T)
OBVIOUS

\* Sequences are told apart by their lengths and values.
LEMMA SameSequence ==
    ASSUME NEW S, NEW s \in Seq(S), NEW t \in Seq(S), Len(s) = Len(t),
           \A i \in 1 .. Len(s) : s[i] = t[i]
    PROVE  s = t
OBVIOUS

\* Overwriting or extending inside the stream gives a stream of the same kind
\* whose length is the furthest byte written or already there.
LEMMA PutType ==
    ASSUME NEW S, NEW s \in Seq(S), NEW w \in Seq(S), NEW at \in 0 .. Len(s)
    PROVE  /\ Put(s, at, w) \in Seq(S)
           /\ Len(Put(s, at, w)) = Greatest(Len(s), at + Len(w))
<1> DEFINE n == Greatest(Len(s), at + Len(w))
<1>1. n \in Nat
  BY DEF Greatest
<1>2. Put(s, at, w) = [i \in 1 .. n |->
                        IF at < i /\ i <= at + Len(w) THEN w[i - at] ELSE s[i]]
  BY DEF Put
<1>3. ASSUME NEW i \in 1 .. n
      PROVE  (IF at < i /\ i <= at + Len(w) THEN w[i - at] ELSE s[i]) \in S
  BY <1>3 DEF Greatest
<1>4. Put(s, at, w) \in [1 .. n -> S]
  BY <1>2, <1>3
<1> QED
  BY <1>1, <1>4, SeqByValues

\* Writing at the end appends.
LEMMA PutAtEnd ==
    ASSUME NEW S, NEW s \in Seq(S), NEW w \in Seq(S)
    PROVE  Put(s, Len(s), w) = s \o w
<1>1. Greatest(Len(s), Len(s) + Len(w)) = Len(s) + Len(w)
  BY DEF Greatest
<1>2. Put(s, Len(s), w) \in Seq(S) /\ Len(Put(s, Len(s), w)) = Len(s) + Len(w)
  BY <1>1, PutType
<1>3. s \o w \in Seq(S) /\ Len(s \o w) = Len(s) + Len(w)
  OBVIOUS
<1>4. ASSUME NEW i \in 1 .. Len(s) + Len(w)
      PROVE  Put(s, Len(s), w)[i] = (s \o w)[i]
  <2>1. Put(s, Len(s), w)[i]
            = IF Len(s) < i /\ i <= Len(s) + Len(w) THEN w[i - Len(s)] ELSE s[i]
    BY <1>1 DEF Put
  <2>2. CASE i <= Len(s)
    BY <2>1, <2>2
  <2>3. CASE ~(i <= Len(s))
    <3>1. (s \o w)[i] = w[i - Len(s)]
      BY <2>3
    <3> QED
      BY <2>1, <2>3, <3>1
  <2> QED
    BY <2>2, <2>3
<1> DEFINE l == Put(s, Len(s), w)
           r == s \o w
<1> HIDE DEF l, r
<1>5. l \in Seq(S) /\ r \in Seq(S) /\ Len(l) = Len(r)
  BY <1>2, <1>3 DEF l, r
<1>6. ASSUME NEW i \in 1 .. Len(l) PROVE l[i] = r[i]
  BY <1>2, <1>4 DEF l, r
<1>7. l = r
  BY <1>5, <1>6, SameSequence
<1> QED
  BY <1>7 DEF l, r

\* The first n bytes of a stream are a stream of length n.
LEMMA CutType ==
    ASSUME NEW S, NEW s \in Seq(S), NEW n \in 0 .. Len(s)
    PROVE  Cut(s, n) \in Seq(S) /\ Len(Cut(s, n)) = n
<1>1. Cut(s, n) \in [1 .. n -> S]
  BY DEF Cut
<1> QED
  BY <1>1, SeqByValues

\* A fill of n bytes is a stream of length n.
LEMMA RepeatType ==
    ASSUME NEW S, NEW x \in S, NEW n \in Nat
    PROVE  Repeat(x, n) \in Seq(S) /\ Len(Repeat(x, n)) = n
<1>1. Repeat(x, n) \in [1 .. n -> S]
  BY DEF Repeat
<1> QED
  BY <1>1, SeqByValues

\* A chunk takes at least its header, and an even number of bytes.
LEMMA ChunkLenType ==
    ASSUME NEW len \in Nat
    PROVE  /\ ChunkLen(len) \in Nat
           /\ ChunkLen(len) >= 8
           /\ ChunkLen(len) % 2 = 0
BY DEF ChunkLen, ChunkHeaderSize, PadOf

\* The bytes of a chunk are as many as write_named_chunk reports.
LEMMA ChunkCellsType ==
    ASSUME NEW C, NEW c \in C, c.size \in Nat
    PROVE  /\ ChunkCells(c) \in Seq([chunk : C, at : Nat])
           /\ Len(ChunkCells(c)) = ChunkLen(c.size)
<1>1. ChunkLen(c.size) \in Nat
  BY ChunkLenType
<1>2. ChunkCells(c) \in [1 .. ChunkLen(c.size) -> [chunk : C, at : Nat]]
  BY <1>1 DEF ChunkCells
<1> QED
  BY <1>1, <1>2, SeqByValues

\* Whole frames in a number of bytes, without the division.
LEMMA WholeFrames ==
    ASSUME NEW bytes \in Nat, NEW width \in Nat \ {0}, NEW frames \in Nat
    PROVE  /\ bytes \div width \in Nat
           /\ bytes \div width <= bytes
           /\ frames <= bytes \div width <=> frames * width <= bytes
<1> DEFINE q == bytes \div width
<1>1. /\ q \in Nat
      /\ q * width <= bytes
      /\ bytes < (q + 1) * width
  OBVIOUS
<1> HIDE DEF q
<1>2. q <= q * width
  BY <1>1
<1>3. ASSUME frames <= q PROVE frames * width <= bytes
  <2>1. frames * width <= q * width
    BY <1>1, <1>3
  <2> QED
    BY <2>1, <1>1
<1>4. ASSUME frames > q PROVE frames * width > bytes
  <2>1. (q + 1) * width <= frames * width
    BY <1>1, <1>4
  <2> QED
    BY <2>1, <1>1
<1> QED
  BY <1>1, <1>2, <1>3, <1>4 DEF q

-----------------------------------------------------------------------------
(* The parts of the inductive invariant.                                   *)

Cell == Bytes \cup {Zero} \cup [chunk : Chunks, at : Nat]

StreamInBody ==
    phase = "open" => pos - cfg.header_len \in 0 .. Len(body)

DataFits == Limited /\ data_bytes # 0 => cfg.header_len + data_bytes - 8 <= U32Max

Inv == TypeOK /\ StreamAtCursor /\ StreamInBody /\ DataFits

\* The part of the constants' assumptions every step needs.
LEMMA ConfigFacts ==
    ASSUME NEW c \in Configs
    PROVE  /\ c.rf64 \in BOOLEAN
           /\ c.seekable \in BOOLEAN
           /\ c.can_seek \in BOOLEAN
           /\ c.counting \in BOOLEAN
           /\ c.count_offset \in Nat
           /\ c.header_len \in Nat
           /\ c.header_len >= 44
           /\ c.frame_bytes \in Nat
           /\ c.sample_bytes \in Nat
           /\ c.fixed \in Nat \cup {NoCount}
           /\ c.rf64 => c.seekable
           /\ c.seekable => c.can_seek
<1>1. c \in Config
  BY ConfigsAssumption
<1>2. /\ c.rf64 \in BOOLEAN
      /\ c.seekable \in BOOLEAN
      /\ c.can_seek \in BOOLEAN
      /\ c.counting \in BOOLEAN
      /\ c.count_offset \in Nat
      /\ c.header_len \in Nat
      /\ c.frame_bytes \in Nat
      /\ c.sample_bytes \in Nat
      /\ c.fixed \in Nat \cup {NoCount}
  BY <1>1 DEF Config
<1> QED
  BY <1>2, ConfigsAssumption

\* Writing cells at the stream's position, anywhere in the file or at its end.
LEMMA EmitKeepsType ==
    ASSUME TypeOK, pos - cfg.header_len \in 0 .. Len(body),
           NEW cells \in Seq(Cell), Emit(cells)
    PROVE  /\ body' \in Seq(Cell)
           /\ Len(body') = Greatest(Len(body), pos - cfg.header_len + Len(cells))
           /\ pos' = pos + Len(cells)
           /\ pos' \in Nat
           /\ pos' - cfg.header_len \in 0 .. Len(body')
<1>1. body \in Seq(Cell) /\ pos \in Nat /\ cfg.header_len \in Nat /\ Len(cells) \in Nat
  BY ConfigFacts DEF TypeOK, Cell
<1>2. /\ body' \in Seq(Cell)
      /\ Len(body') = Greatest(Len(body), pos - cfg.header_len + Len(cells))
  BY <1>1, PutType DEF Emit
<1>3. pos' = pos + Len(cells)
  BY DEF Emit
<1>4. pos - cfg.header_len \in Nat /\ Len(body) \in Nat
  BY <1>1
<1> DEFINE at == pos - cfg.header_len
<1>5. pos' - cfg.header_len = at + Len(cells)
  BY <1>1, <1>3
<1>6. at + Len(cells) \in 0 .. Greatest(Len(body), at + Len(cells))
  <2> SUFFICES ASSUME NEW n \in Nat, NEW k \in Nat, NEW l \in Nat
               PROVE  n + k \in 0 .. Greatest(l, n + k)
    BY <1>1, <1>4
  <2> QED
    BY DEF Greatest
<1>7. pos' \in Nat
  BY <1>1, <1>3
<1> QED
  BY <1>2, <1>3, <1>5, <1>6, <1>7

\* The cells of audio, filling and chunks.
LEMMA CellFacts ==
    /\ \A w \in Writes : w \in Seq(Cell)
    /\ \A n \in Nat : Repeat(Zero, n) \in Seq(Cell) /\ Len(Repeat(Zero, n)) = n
    /\ \A c \in Chunks :
        /\ c.size \in Nat
        /\ ChunkLen(c.size) \in Nat
        /\ ChunkLen(c.size) >= 8
        /\ ChunkCells(c) \in Seq(Cell)
        /\ Len(ChunkCells(c)) = ChunkLen(c.size)
<1>1. \A w \in Writes : w \in Seq(Cell)
  BY WritesAssumption DEF Cell
<1>2. \A n \in Nat : Repeat(Zero, n) \in Seq(Cell) /\ Len(Repeat(Zero, n)) = n
  BY RepeatType DEF Cell
<1>3. ASSUME NEW c \in Chunks
      PROVE  /\ c.size \in Nat
             /\ ChunkLen(c.size) \in Nat
             /\ ChunkLen(c.size) >= 8
             /\ ChunkCells(c) \in Seq(Cell)
             /\ Len(ChunkCells(c)) = ChunkLen(c.size)
  <2>1. c.size \in Nat
    BY ChunksAssumption
  <2>2. ChunkCells(c) \in Seq([chunk : Chunks, at : Nat])
    BY <2>1, ChunkCellsType
  <2>3. Len(ChunkCells(c)) = ChunkLen(c.size)
    BY <2>1, ChunkCellsType
  <2>4. ChunkCells(c) \in Seq(Cell)
    <3>1. [chunk : Chunks, at : Nat] \subseteq Cell
      BY DEF Cell
    <3> QED
      BY <2>2, <3>1, SeqMonotone
  <2> QED
    BY <2>1, <2>3, <2>4, ChunkLenType
<1> QED
  BY <1>1, <1>2, <1>3

-----------------------------------------------------------------------------
(* Init establishes Inv, every action preserves it.                        *)

LEMMA InitInv == Init => Inv
<1> SUFFICES ASSUME Init PROVE Inv
  OBVIOUS
<1> USE ConfigFacts, U32MaxAssumption DEF Init
<1>1. body \in Seq(Cell) /\ Len(body) = 0
  OBVIOUS
<1>2. Placeholder(cfg) \in Nat
  BY DEF Placeholder
<1>3. TypeOK
  BY <1>1, <1>2 DEF TypeOK, Cell
<1>4. StreamAtCursor /\ StreamInBody
  BY <1>1 DEF StreamAtCursor, StreamInBody
<1>5. DataFits
  BY DEF DataFits, Limited
<1> QED
  BY <1>3, <1>4, <1>5 DEF Inv

LEMMA WriteAudioInv ==
    ASSUME Inv, NEW w \in Writes, WriteAudio(w)
    PROVE  Inv'
<1> DEFINE n == Len(w)
<1>1. w \in Seq(Cell) /\ n \in Nat
  BY CellFacts
<1>2. /\ data_bytes \in Nat /\ data_pos \in Nat /\ trailing_bytes = 0
      /\ pos = cfg.header_len + data_pos
      /\ data_pos <= data_bytes /\ Len(body) = data_bytes
      /\ pos - cfg.header_len \in 0 .. Len(body)
      /\ cfg.header_len \in Nat /\ cfg.header_len >= 44
  BY ConfigFacts DEF Inv, TypeOK, StreamAtCursor, StreamInBody, WriteAudio, EnsureDataOpen
<1>3. /\ body' \in Seq(Cell)
      /\ Len(body') = Greatest(data_bytes, data_pos + n)
      /\ pos' = pos + n
      /\ pos' \in Nat
      /\ pos' - cfg.header_len \in 0 .. Len(body')
  <2>1. TypeOK /\ Emit(w)
    BY DEF Inv, WriteAudio
  <2>2. /\ body' \in Seq(Cell)
        /\ Len(body') = Greatest(Len(body), pos - cfg.header_len + n)
        /\ pos' = pos + n
        /\ pos' \in Nat
        /\ pos' - cfg.header_len \in 0 .. Len(body')
    BY <1>1, <1>2, <2>1, EmitKeepsType
  <2>3. pos - cfg.header_len = data_pos
    BY <1>2
  <2> QED
    BY <1>2, <2>2, <2>3
<1>4. /\ data_pos' = data_pos + n
      /\ data_bytes' = Greatest(data_bytes, data_pos + n)
      /\ UNCHANGED <<cfg, phase, trailing_bytes, hdr>>
  BY DEF WriteAudio, Advance
<1> HIDE DEF n
<1>5. TypeOK'
  BY <1>1, <1>2, <1>3, <1>4 DEF Inv, TypeOK, Cell, Greatest
<1>6. StreamAtCursor'
  <2>1. /\ pos' = cfg'.header_len + data_pos'
        /\ data_pos' <= data_bytes'
        /\ Len(body') = data_bytes'
    <3>1. cfg' = cfg
      BY <1>4
    <3>2. Len(body') = data_bytes'
      BY <1>3, <1>4
    <3>3. data_pos' <= data_bytes'
      BY <1>1, <1>2, <1>4 DEF Greatest
    <3>4. pos' = cfg.header_len + data_pos'
      <4>1. /\ pos = cfg.header_len + data_pos
            /\ cfg.header_len \in Nat /\ data_pos \in Nat /\ n \in Nat
        BY <1>1, <1>2
      <4>2. pos' = pos + n /\ data_pos' = data_pos + n
        BY <1>3, <1>4
      <4> QED
        BY <4>1, <4>2
    <3> QED
      BY <3>1, <3>2, <3>3, <3>4
  <2> QED
    BY <2>1 DEF StreamAtCursor
<1>7. StreamInBody'
  BY <1>3, <1>4 DEF StreamInBody
<1>8. DataFits'
  <2>1. Limited => SatSub(cfg.header_len + data_bytes' + trailing_bytes, 8) <= U32Max
    BY <1>4 DEF WriteAudio, FitsCapacity, FitsExtent, n
  <2>2. data_bytes' \in Nat
    BY <1>5 DEF TypeOK
  <2> QED
    BY <1>2, <1>4, <2>1, <2>2, U32MaxAssumption DEF DataFits, Limited, SatSub
<1> QED
  BY <1>5, <1>6, <1>7, <1>8 DEF Inv

LEMMA SeekToFrameInv ==
    ASSUME Inv, NEW frame \in 0 .. MaxFrame, SeekToFrame(frame)
    PROVE  Inv'
<1> DEFINE offset == cfg.frame_bytes * frame
<1>1. /\ cfg.header_len \in Nat /\ cfg.header_len >= 44 /\ cfg.frame_bytes \in Nat
      /\ data_bytes \in Nat /\ trailing_bytes = 0 /\ phase = "open"
      /\ Len(body) = data_bytes /\ body \in Seq(Cell)
  BY ConfigFacts DEF Inv, TypeOK, StreamAtCursor, SeekToFrame, EnsureDataOpen, Cell
<1>2. offset \in Nat
  BY <1>1, BoundsAssumption
<1>3. CASE SeekBack(offset)
  <2> HIDE DEF offset
  <2>1. TypeOK'
    BY <1>1, <1>2, <1>3 DEF Inv, TypeOK, SeekBack
  <2>2. StreamAtCursor' /\ StreamInBody'
    BY <1>1, <1>2, <1>3 DEF SeekBack, StreamAtCursor, StreamInBody
  <2>3. DataFits'
    BY <1>3 DEF Inv, DataFits, Limited, SeekBack
  <2> QED
    BY <2>1, <2>2, <2>3 DEF Inv
<1>4. CASE SeekForward(offset)
  <2> HIDE DEF offset
  <2> DEFINE fill == Repeat(Zero, offset - data_bytes)
  <2>1. offset > data_bytes /\ offset - data_bytes \in Nat
    BY <1>1, <1>2, <1>4 DEF SeekForward
  <2>2. fill \in Seq(Cell) /\ Len(fill) = offset - data_bytes
    BY <2>1, CellFacts
  <2>3. body' \in Seq(Cell) /\ Len(body') = offset
    <3> HIDE DEF fill
    <3>1. /\ Put(body, data_bytes, fill) \in Seq(Cell)
          /\ Len(Put(body, data_bytes, fill)) = Greatest(Len(body), data_bytes + Len(fill))
      <4>1. data_bytes \in 0 .. Len(body)
        BY <1>1
      <4> QED
        BY <1>1, <2>2, <4>1, PutType
    <3> QED
      BY <1>1, <1>2, <1>4, <2>1, <2>2, <3>1 DEF SeekForward, Greatest, fill
  <2>4. TypeOK'
    BY <1>1, <1>2, <1>4, <2>3 DEF Inv, TypeOK, SeekForward, Cell
  <2>5. StreamAtCursor' /\ StreamInBody'
    BY <1>1, <1>2, <1>4, <2>3 DEF SeekForward, StreamAtCursor, StreamInBody
  <2>6. DataFits'
    BY <1>1, <1>2, <1>4 DEF DataFits, Limited, SeekForward, FitsExtent, SatSub
  <2> QED
    BY <2>4, <2>5, <2>6 DEF Inv
<1> QED
  BY <1>3, <1>4 DEF SeekToFrame

LEMMA TruncateToFrameInv ==
    ASSUME Inv, NEW frame \in Nat, TruncateToFrame(frame)
    PROVE  Inv'
<1> DEFINE offset == cfg.frame_bytes * frame
<1>1. /\ cfg.header_len \in Nat /\ cfg.header_len >= 44 /\ cfg.frame_bytes \in Nat
      /\ data_bytes \in Nat /\ data_pos \in Nat /\ trailing_bytes = 0
      /\ Len(body) = data_bytes /\ body \in Seq(Cell)
  BY ConfigFacts DEF Inv, TypeOK, StreamAtCursor, TruncateToFrame, EnsureDataOpen, Cell
<1>2. offset \in Nat /\ offset < data_bytes
  BY <1>1 DEF TruncateToFrame
<1>3. /\ body' = Cut(body, offset)
      /\ data_bytes' = offset
      /\ data_pos' = Least(data_pos, offset)
      /\ pos' = cfg.header_len + Least(data_pos, offset)
      /\ UNCHANGED <<cfg, phase, trailing_bytes, hdr>>
  BY DEF TruncateToFrame
<1> HIDE DEF offset
<1>4. body' \in Seq(Cell) /\ Len(body') = offset
  BY <1>1, <1>2, <1>3, CutType
<1>5. TypeOK'
  BY <1>1, <1>2, <1>3, <1>4 DEF Inv, TypeOK, Cell, Least
<1>6. StreamAtCursor' /\ StreamInBody'
  BY <1>1, <1>2, <1>3, <1>4 DEF StreamAtCursor, StreamInBody, Least
<1>7. DataFits'
  BY <1>1, <1>2, <1>3, ConfigFacts, U32MaxAssumption DEF Inv, TypeOK, DataFits, Limited
<1> QED
  BY <1>5, <1>6, <1>7 DEF Inv

\* The cursor's own frame is a frame.
LEMMA PositionType ==
    ASSUME TypeOK
    PROVE  Position \in Nat
<1>1. data_pos \in Nat /\ cfg.frame_bytes \in Nat
  BY ConfigFacts DEF TypeOK
<1> QED
  BY <1>1, WholeFrames DEF Position, FramesAt

LEMMA WriteChunkInv ==
    ASSUME Inv, NEW c \in Chunks, WriteChunk(c)
    PROVE  Inv'
<1> DEFINE cells == Repeat(Zero, PadBeforeTail) \o ChunkCells(c)
<1>1. data_bytes \in Nat /\ trailing_bytes \in Nat /\ phase = "open"
  BY DEF Inv, TypeOK, WriteChunk
<1>2. PadBeforeTail \in Nat
  BY <1>1 DEF PadBeforeTail, PadOf
<1>3. cells \in Seq(Cell)
  BY <1>2, CellFacts
<1>4. ChunkLen(c.size) \in Nat /\ ChunkLen(c.size) >= 8
  BY CellFacts
<1>5. /\ body' \in Seq(Cell)
      /\ pos' \in Nat
      /\ pos' - cfg.header_len \in 0 .. Len(body')
  <2>1. Emit(cells) /\ pos - cfg.header_len \in 0 .. Len(body)
    BY <1>1 DEF WriteChunk, Inv, StreamInBody
  <2> QED
    BY <1>3, <2>1, EmitKeepsType DEF Inv
<1>6. trailing_bytes' = trailing_bytes + PadBeforeTail + ChunkLen(c.size)
  BY DEF WriteChunk
<1>7. UNCHANGED <<cfg, phase, data_bytes, data_pos, hdr>>
  BY DEF WriteChunk
<1> HIDE DEF cells
<1>8. TypeOK'
  BY <1>1, <1>2, <1>4, <1>5, <1>6, <1>7 DEF Inv, TypeOK, Cell
<1>9. StreamAtCursor' /\ StreamInBody'
  BY <1>1, <1>2, <1>4, <1>5, <1>6, <1>7 DEF StreamAtCursor, StreamInBody
<1>10. DataFits'
  BY <1>7 DEF Inv, DataFits, Limited
<1> QED
  BY <1>8, <1>9, <1>10 DEF Inv

\* Every value patch_sizes writes is a number.
LEMMA PatchSizesType ==
    ASSUME Inv, PatchSizes
    PROVE  hdr' \in [riff : Nat, data : Nat, count : Nat]
<1>1. /\ data_bytes \in Nat /\ trailing_bytes \in Nat /\ cfg \in Configs
      /\ hdr.count \in Nat
  BY DEF Inv, TypeOK
<1>2. RiffSize \in Nat
  BY <1>1, ConfigFacts DEF RiffSize
<1>3. FramesAt(data_bytes) \in Nat
  BY <1>1, ConfigFacts, WholeFrames DEF FramesAt
<1>4. PatchedCount \in Nat
  BY <1>1, <1>3, ConfigFacts, U32MaxAssumption DEF PatchedCount, Least
<1> QED
  BY <1>1, <1>2, <1>4 DEF PatchSizes

LEMMA UpdateHeaderInv ==
    ASSUME Inv, UpdateHeader
    PROVE  Inv'
<1>1. hdr' \in [riff : Nat, data : Nat, count : Nat]
  BY PatchSizesType DEF UpdateHeader
<1>2. UNCHANGED <<cfg, phase, data_bytes, data_pos, trailing_bytes, pos, body>>
  BY DEF UpdateHeader
<1> QED
  BY <1>1, <1>2 DEF Inv, TypeOK, StreamAtCursor, StreamInBody, DataFits, Limited

LEMMA FinalizeInv ==
    ASSUME Inv, Finalize
    PROVE  Inv'
<1>1. UNCHANGED <<cfg, data_bytes, data_pos, trailing_bytes, body>>
  BY DEF Finalize
<1>2. /\ phase' \in {"released", "finalized", "lost"}
      /\ pos' \in Nat
      /\ hdr' \in [riff : Nat, data : Nat, count : Nat]
  <2>1. /\ pos \in Nat /\ hdr \in [riff : Nat, data : Nat, count : Nat]
        /\ cfg.header_len \in Nat /\ Len(body) \in Nat
    BY ConfigFacts DEF Inv, TypeOK
  <2>2. CASE FinalizeStreaming
    BY <2>1, <2>2 DEF FinalizeStreaming
  <2>3. CASE FinalizePatched
    BY <2>1, <2>3, PatchSizesType DEF FinalizePatched
  <2>4. CASE FinalizeTooLarge
    BY <2>1, <2>4 DEF FinalizeTooLarge
  <2> QED
    BY <2>2, <2>3, <2>4 DEF Finalize
<1> QED
  BY <1>1, <1>2 DEF Inv, TypeOK, StreamAtCursor, StreamInBody, DataFits, Limited

LEMMA IntoInnerInv ==
    ASSUME Inv, IntoInner
    PROVE  Inv'
BY DEF Inv, TypeOK, StreamAtCursor, StreamInBody, DataFits, Limited, IntoInner, file

LEMMA NextInv ==
    ASSUME Inv, [Next]_vars
    PROVE  Inv'
<1>1. CASE WriteRawInterleaved
  BY <1>1, WriteAudioInv DEF WriteRawInterleaved
<1>2. CASE WriteFloatBuffer
  BY <1>2, WriteAudioInv DEF WriteFloatBuffer
<1>3. CASE \E frame \in 0 .. MaxFrame : SeekToFrame(frame)
  BY <1>3, SeekToFrameInv
<1>4. CASE \E frame \in 0 .. MaxFrame : TruncateToFrame(frame)
  BY <1>4, TruncateToFrameInv, BoundsAssumption
<1>5. CASE Truncate
  BY <1>5, PositionType, TruncateToFrameInv DEF Truncate, Inv
<1>6. CASE \E c \in Chunks : WriteChunk(c)
  BY <1>6, WriteChunkInv
<1>7. CASE UpdateHeader
  BY <1>7, UpdateHeaderInv
<1>8. CASE Finalize
  BY <1>8, FinalizeInv
<1>9. CASE IntoInner
  BY <1>9, IntoInnerInv
<1>10. CASE UNCHANGED vars
  BY <1>10 DEF vars, Inv, TypeOK, StreamAtCursor, StreamInBody, DataFits, Limited
<1> QED
  BY <1>1, <1>2, <1>3, <1>4, <1>5, <1>6, <1>7, <1>8, <1>9, <1>10
     DEF Next, AudioStep, HeaderStep

\* Inv holds whatever the caller does.
THEOREM Invariance == Spec => []Inv
<1>1. Init => Inv
  BY InitInv
<1>2. Inv /\ [Next]_vars => Inv'
  BY NextInv
<1> QED
  BY <1>1, <1>2, PTL DEF Spec

-----------------------------------------------------------------------------
(* The properties that follow for every caller.                            *)

\* Every variable keeps its type.
THEOREM TypeCorrect == Spec => []TypeOK
<1>1. Inv => TypeOK
  BY DEF Inv
<1> QED
  BY <1>1, Invariance, PTL

\* While audio can be written, the stream stands at the cursor and the file
\* holds exactly the audio.
THEOREM StreamFollowsCursor == Spec => []StreamAtCursor
<1>1. Inv => StreamAtCursor
  BY DEF Inv
<1> QED
  BY <1>1, Invariance, PTL

\* A seekable RIFF file without trailing chunks can always be finalized, unless
\* its header alone is too long, and then no audio was ever accepted.
THEOREM AudioAloneFits == Spec => []AudioAloneAlwaysFits
<1>1. Inv => AudioAloneAlwaysFits
  <2>1. ASSUME Inv
        PROVE  cfg.header_len \in Nat /\ cfg.header_len >= 44 /\ data_bytes \in Nat
    BY <2>1, ConfigFacts DEF Inv, TypeOK
  <2> QED
    BY <2>1, U32MaxAssumption
       DEF Inv, DataFits, AudioAloneAlwaysFits, SizesFit, RiffSize
<1> QED
  BY <1>1, Invariance, PTL

\* What remaining_frames reports and what check_capacity accepts agree, for
\* every frame size, header length and limit.
THEOREM RemainingFramesExact == Spec => []RemainingFramesIsExact
<1>1. Inv => RemainingFramesIsExact
  <2> SUFFICES ASSUME Inv, HasLimit, phase = "open",
                      NEW frames \in 0 .. MaxFrame, frames > 0
               PROVE  frames <= RemainingFrames
                        <=> EnsureDataOpen /\ FitsCapacity(frames * cfg.frame_bytes)
    BY DEF RemainingFramesIsExact
  <2> DEFINE width == cfg.frame_bytes
             room  == U32Max + 8 - cfg.header_len - data_pos
  <2>1. /\ cfg.header_len \in Nat /\ cfg.header_len >= 44
        /\ width \in Nat \ {0} /\ frames \in Nat
        /\ data_bytes \in Nat /\ data_pos \in Nat
        /\ trailing_bytes \in Nat /\ U32Max \in Nat /\ Limited
    BY ConfigFacts, BoundsAssumption, U32MaxAssumption
       DEF Inv, TypeOK, HasLimit, Limited
  <2>2. CASE trailing_bytes # 0
    BY <2>1, <2>2 DEF RemainingFrames, EnsureDataOpen
  <2>3. CASE trailing_bytes = 0 /\ ~(cfg.header_len <= U32Max + 8)
    <3>1. data_pos = 0 /\ data_bytes = 0
      BY <2>1, <2>3 DEF Inv, StreamAtCursor, DataFits
    <3>2. RemainingFrames = 0
      <4>1. SatSub(SatSub(U32Max + 8, cfg.header_len + trailing_bytes), data_pos) = 0
        BY <2>1, <2>3, <3>1 DEF SatSub
      <4>2. 0 \div width = 0
        BY <2>1
      <4> QED
        BY <2>1, <2>3, <4>1, <4>2 DEF RemainingFrames, FramesAt
    <3> DEFINE bytes == frames * width
    <3>3. bytes \in Nat
      BY <2>1
    <3>4. ~FitsCapacity(bytes)
      <4> HIDE DEF bytes
      <4> QED
        BY <2>1, <2>3, <3>1, <3>3 DEF FitsCapacity, FitsExtent, SatSub, Greatest
    <3> QED
      BY <2>1, <3>2, <3>4
  <2>4. CASE trailing_bytes = 0 /\ cfg.header_len <= U32Max + 8
    <3>1. /\ data_pos <= data_bytes
          /\ cfg.header_len + data_bytes - 8 <= U32Max
      BY <2>1, <2>4 DEF Inv, StreamAtCursor, DataFits
    <3>2. room \in Nat
      BY <2>1, <3>1
    <3>3. RemainingFrames = room \div width
      <4>1. SatSub(SatSub(U32Max + 8, cfg.header_len + trailing_bytes), data_pos) = room
        BY <2>1, <2>4, <3>2 DEF SatSub
      <4> QED
        BY <2>1, <2>4, <4>1 DEF RemainingFrames, FramesAt
    <3>4. frames * width \in Nat
      BY <2>1
    <3> DEFINE bytes == frames * width
    <3>5. FitsCapacity(bytes) <=> bytes <= room
      <4> HIDE DEF bytes
      <4>1. bytes \in Nat
        BY <3>4 DEF bytes
      <4> QED
        BY <2>1, <2>4, <3>1, <4>1 DEF FitsCapacity, FitsExtent, SatSub, Greatest
    <3>6. frames <= room \div width <=> bytes <= room
      BY <2>1, <3>2, WholeFrames
    <3> QED
      BY <2>4, <3>3, <3>5, <3>6 DEF EnsureDataOpen
  <2> QED
    BY <2>2, <2>3, <2>4
<1> QED
  BY <1>1, Invariance, PTL

-----------------------------------------------------------------------------
(* The properties of a caller that writes chunks with the cursor at the    *)
(* end of the audio.  The disciplined writer takes fewer steps than the    *)
(* free one, so Inv is its invariant too; DInv adds what discipline buys.  *)

DInv == Inv /\ FileIsExactlyDescribed /\ FinalizedSizesAreExact

LEMMA DisciplinedIsFree == [DisciplinedNext]_vars => [Next]_vars
BY DEF DisciplinedNext, Next, WriteChunkAtEnd

\* Stated for constants, to be used of primed variables.
LEMMA AddZero ==
    ASSUME NEW m \in Nat, NEW n \in Nat, n = 0
    PROVE  m + n = m
OBVIOUS

\* Audio steps happen only while the file is open and nothing trails the audio.
LEMMA AudioStepKeepsTail ==
    ASSUME Inv, AudioStep
    PROVE  /\ phase = "open" /\ phase' = "open"
           /\ trailing_bytes = 0 /\ trailing_bytes' = 0
           /\ cfg' = cfg /\ hdr' = hdr
<1>1. CASE WriteRawInterleaved
  BY <1>1 DEF WriteRawInterleaved, WriteAudio, EnsureDataOpen
<1>2. CASE WriteFloatBuffer
  BY <1>2 DEF WriteFloatBuffer, WriteAudio, EnsureDataOpen
<1>3. CASE \E frame \in 0 .. MaxFrame : SeekToFrame(frame)
  BY <1>3 DEF SeekToFrame, SeekBack, SeekForward, EnsureDataOpen
<1>4. CASE \E frame \in 0 .. MaxFrame : TruncateToFrame(frame)
  BY <1>4 DEF TruncateToFrame, EnsureDataOpen
<1>5. CASE Truncate
  BY <1>5 DEF Truncate, TruncateToFrame, EnsureDataOpen
<1> QED
  BY <1>1, <1>2, <1>3, <1>4, <1>5 DEF AudioStep

\* With the discipline, a chunk is written at the end of the file.
LEMMA ChunkGoesToTheEnd ==
    ASSUME DInv, NEW c \in Chunks, WriteChunkAtEnd(c)
    PROVE  pos = cfg.header_len + Len(body)
<1>1. data_bytes \in Nat /\ phase = "open" /\ Len(body) = data_bytes + trailing_bytes
  BY DEF DInv, Inv, TypeOK, FileIsExactlyDescribed, WriteChunkAtEnd, WriteChunk
<1>2. CASE trailing_bytes = 0
  BY <1>1, <1>2 DEF DInv, Inv, StreamAtCursor, WriteChunkAtEnd
<1>3. CASE trailing_bytes # 0
  BY <1>1, <1>3 DEF DInv, FileIsExactlyDescribed
<1> QED
  BY <1>2, <1>3

\* A chunk written at the end of the audio, or after another chunk, extends
\* the file by exactly the bytes that are counted.
LEMMA WriteChunkAtEndExtends ==
    ASSUME DInv, NEW c \in Chunks, WriteChunkAtEnd(c)
    PROVE  /\ Len(body') = data_bytes' + trailing_bytes'
           /\ pos' = cfg'.header_len + Len(body')
           /\ Len(body') >= Len(body)
<1> DEFINE cells == Repeat(Zero, PadBeforeTail) \o ChunkCells(c)
           n == PadBeforeTail + ChunkLen(c.size)
<1>1. /\ data_bytes \in Nat /\ trailing_bytes \in Nat /\ phase = "open"
      /\ pos \in Nat /\ cfg.header_len \in Nat /\ Len(body) \in Nat
      /\ Len(body) = data_bytes + trailing_bytes
  BY ConfigFacts
     DEF DInv, Inv, TypeOK, FileIsExactlyDescribed, WriteChunkAtEnd, WriteChunk
<1>2. PadBeforeTail \in Nat
  BY <1>1 DEF PadBeforeTail, PadOf
<1>3. cells \in Seq(Cell) /\ Len(cells) = n
  <2>1. Repeat(Zero, PadBeforeTail) \in Seq(Cell)
    BY <1>2, CellFacts
  <2>2. Len(Repeat(Zero, PadBeforeTail)) = PadBeforeTail
    BY <1>2, CellFacts
  <2>3. ChunkCells(c) \in Seq(Cell) /\ Len(ChunkCells(c)) = ChunkLen(c.size)
    BY CellFacts
  <2> QED
    BY <2>1, <2>2, <2>3
<1>4. n \in Nat
  <2>1. ChunkLen(c.size) \in Nat
    BY CellFacts
  <2> QED
    BY <1>2, <2>1
<1>5. pos = cfg.header_len + Len(body)
  BY ChunkGoesToTheEnd
<1>6. /\ Len(body') = Greatest(Len(body), pos - cfg.header_len + Len(cells))
      /\ pos' = pos + Len(cells)
  <2>1. TypeOK /\ Emit(cells) /\ pos - cfg.header_len \in 0 .. Len(body)
    BY <1>1 DEF DInv, Inv, StreamInBody, WriteChunkAtEnd, WriteChunk
  <2> HIDE DEF cells
  <2> QED
    BY <1>3, <2>1, EmitKeepsType
<1>7. /\ trailing_bytes' = trailing_bytes + n
      /\ data_bytes' = data_bytes /\ cfg' = cfg
  BY <1>1, <1>2, <1>4, CellFacts DEF WriteChunkAtEnd, WriteChunk
<1> HIDE DEF cells, n
<1>8. Len(body') = Len(body) + n
  BY <1>1, <1>3, <1>4, <1>5, <1>6 DEF Greatest
<1>9. pos' = cfg.header_len + Len(body) + n
  BY <1>3, <1>5, <1>6
<1> QED
  BY <1>1, <1>4, <1>7, <1>8, <1>9

\* What a patch leaves in the header, and that no conversion changes it.
LEMMA PatchSizesExact ==
    ASSUME DInv, PatchSizes
    PROVE  /\ hdr'.riff + 8 = cfg.header_len + Len(body)
           /\ hdr'.data = data_bytes
           /\ cfg.counting => hdr'.count = FramesAt(data_bytes)
           /\ data_bytes <= Len(body)
<1>1. /\ data_bytes \in Nat /\ trailing_bytes \in Nat /\ cfg.header_len \in Nat
      /\ cfg.rf64 \in BOOLEAN /\ cfg.frame_bytes \in Nat
      /\ Len(body) = data_bytes + trailing_bytes
  BY ConfigFacts DEF DInv, Inv, TypeOK, FileIsExactlyDescribed
<1>2. hdr' = [riff |-> RiffSize, data |-> data_bytes, count |-> PatchedCount]
  BY DEF PatchSizes
<1>3. FramesAt(data_bytes) \in Nat /\ FramesAt(data_bytes) <= data_bytes
  BY <1>1, WholeFrames DEF FramesAt
<1>4. ASSUME cfg.counting PROVE PatchedCount = FramesAt(data_bytes)
  <2>1. cfg.rf64 \/ data_bytes <= U32Max
    BY DEF PatchSizes, SizesFit
  <2>2. cfg.rf64 \/ FramesAt(data_bytes) <= U32Max
    BY <1>1, <1>3, <2>1, U32MaxAssumption
  <2> QED
    BY <1>4, <2>2 DEF PatchedCount, Least
<1> QED
  BY <1>1, <1>2, <1>4 DEF RiffSize

LEMMA DisciplinedNextInv ==
    ASSUME DInv, [DisciplinedNext]_vars
    PROVE  DInv'
<1>1. Inv'
  BY DisciplinedIsFree, NextInv DEF DInv
<1>2. CASE AudioStep
  <2>1. /\ phase = "open" /\ phase' = "open" /\ trailing_bytes' = 0
    BY <1>2, AudioStepKeepsTail DEF DInv
  <2>2. Len(body') = data_bytes'
    BY <1>1, <2>1 DEF Inv, StreamAtCursor
  <2>3. FileIsExactlyDescribed'
    <3>1. data_bytes' \in Nat /\ trailing_bytes' \in Nat
      BY <1>1 DEF Inv, TypeOK
    <3>2. data_bytes' + trailing_bytes' = data_bytes'
      BY <2>1, <3>1, AddZero
    <3> QED
      BY <2>1, <2>2, <3>2 DEF FileIsExactlyDescribed
  <2>4. FinalizedSizesAreExact'
    BY <2>1 DEF FinalizedSizesAreExact
  <2> QED
    BY <1>1, <2>3, <2>4 DEF DInv
<1>3. CASE \E c \in Chunks : WriteChunkAtEnd(c)
  <2>1. PICK c \in Chunks : WriteChunkAtEnd(c)
    BY <1>3
  <2>2. phase' = "open"
    BY <2>1 DEF WriteChunkAtEnd, WriteChunk
  <2>3. FileIsExactlyDescribed'
    BY <2>1, WriteChunkAtEndExtends DEF FileIsExactlyDescribed
  <2> QED
    BY <1>1, <2>2, <2>3 DEF DInv, FinalizedSizesAreExact
<1>4. CASE UpdateHeader
  <2>1. /\ phase' = "open"
        /\ UNCHANGED <<cfg, phase, data_bytes, trailing_bytes, pos, body>>
    BY <1>4 DEF UpdateHeader
  <2> QED
    BY <1>1, <2>1 DEF DInv, FileIsExactlyDescribed, FinalizedSizesAreExact
<1>5. CASE Finalize
  <2>1. /\ UNCHANGED <<cfg, data_bytes, trailing_bytes, body>>
        /\ phase' # "open"
    BY <1>5 DEF Finalize, FinalizeStreaming, FinalizePatched, FinalizeTooLarge
  <2>2. FileIsExactlyDescribed'
    BY <2>1 DEF DInv, FileIsExactlyDescribed
  <2>3. FinalizedSizesAreExact'
    <3>1. CASE FinalizePatched
      BY <2>1, <3>1, PatchSizesExact
         DEF FinalizePatched, FinalizedSizesAreExact, FramesAt
    <3>2. CASE FinalizeStreaming \/ FinalizeTooLarge
      BY <3>2 DEF FinalizeStreaming, FinalizeTooLarge, FinalizedSizesAreExact
    <3> QED
      BY <1>5, <3>1, <3>2 DEF Finalize
  <2> QED
    BY <1>1, <2>2, <2>3 DEF DInv
<1>6. CASE IntoInner
  <2>1. /\ UNCHANGED <<cfg, data_bytes, trailing_bytes, body>>
        /\ phase' = "released"
    BY <1>6 DEF IntoInner, file
  <2> QED
    BY <1>1, <2>1 DEF DInv, FileIsExactlyDescribed, FinalizedSizesAreExact
<1>7. CASE UNCHANGED vars
  <2>1. UNCHANGED <<cfg, phase, data_bytes, trailing_bytes, pos, body, hdr>>
    BY <1>7 DEF vars
  <2>2. FileIsExactlyDescribed'
    BY <2>1 DEF DInv, FileIsExactlyDescribed
  <2>3. FinalizedSizesAreExact'
    BY <2>1 DEF DInv, FinalizedSizesAreExact, FramesAt
  <2> QED
    BY <1>1, <2>2, <2>3 DEF DInv
<1> QED
  BY <1>2, <1>3, <1>4, <1>5, <1>6, <1>7 DEF DisciplinedNext, HeaderStep

THEOREM DisciplinedInvariance == DisciplinedSpec => []DInv
<1>1. Init => DInv
  <2> SUFFICES ASSUME Init PROVE DInv
    OBVIOUS
  <2>1. Inv
    BY InitInv
  <2> QED
    BY <2>1 DEF DInv, Init, FileIsExactlyDescribed, FinalizedSizesAreExact
<1>2. DInv /\ [DisciplinedNext]_vars => DInv'
  BY DisciplinedNextInv
<1> QED
  BY <1>1, <1>2, PTL DEF DisciplinedSpec

\* The writer's counters account for every byte of the file.
THEOREM FileExactlyDescribed == DisciplinedSpec => []FileIsExactlyDescribed
<1>1. DInv => FileIsExactlyDescribed
  BY DEF DInv
<1> QED
  BY <1>1, DisciplinedInvariance, PTL

\* The header of a finalized file describes the file.
THEOREM FinalizedSizesExact == DisciplinedSpec => []FinalizedSizesAreExact
<1>1. DInv => FinalizedSizesAreExact
  BY DEF DInv
<1> QED
  BY <1>1, DisciplinedInvariance, PTL

\* Only shortening the file can make its header claim more than it holds.
THEOREM OnlyTrimsUncover == DisciplinedSpec => HeaderStaysCovered
<1>1. ASSUME DInv, DInv', [DisciplinedNext]_vars
      PROVE  [HeaderCovered /\ ~HeaderCovered' => Len(body') < Len(body)]_vars
  <2> SUFFICES ASSUME HeaderCovered, Len(body') >= Len(body)
               PROVE  HeaderCovered'
    <3>1. Len(body) \in Nat /\ Len(body') \in Nat
      BY <1>1 DEF DInv, Inv, TypeOK
    <3> QED
      BY <3>1
  <2>1. /\ cfg' = cfg /\ cfg.header_len \in Nat /\ cfg.header_len >= 44
        /\ Len(body) \in Nat /\ Len(body') \in Nat
        /\ hdr.data \in Nat /\ hdr.riff \in Nat
    <3>1. cfg' = cfg
      BY <1>1 DEF DisciplinedNext, AudioStep, HeaderStep, WriteChunkAtEnd,
           WriteRawInterleaved, WriteFloatBuffer, WriteAudio, SeekToFrame,
           SeekBack, SeekForward, Truncate, TruncateToFrame, WriteChunk,
           UpdateHeader, Finalize, IntoInner, vars
    <3> QED
      BY <1>1, <3>1, ConfigFacts DEF DInv, Inv, TypeOK
  <2>2. CASE hdr' = hdr
    <3>1. hdr.data <= Len(body) => hdr.data <= Len(body')
      BY <2>1
    <3>2. hdr.riff + 8 <= cfg.header_len + Len(body)
            => hdr.riff + 8 <= cfg.header_len + Len(body')
      BY <2>1
    <3> QED
      BY <2>1, <2>2, <3>1, <3>2 DEF HeaderCovered
  <2>3. CASE PatchSizes /\ body' = body
    BY <1>1, <2>1, <2>3, PatchSizesExact DEF HeaderCovered
  <2>4. hdr' = hdr \/ (PatchSizes /\ body' = body)
    <3>1. CASE AudioStep
      BY <1>1, <3>1, AudioStepKeepsTail DEF DInv
    <3>2. CASE \E c \in Chunks : WriteChunkAtEnd(c)
      BY <3>2 DEF WriteChunkAtEnd, WriteChunk
    <3>3. CASE HeaderStep
      BY <3>3 DEF HeaderStep, UpdateHeader, Finalize, FinalizeStreaming,
           FinalizePatched, FinalizeTooLarge, IntoInner, file
    <3>4. CASE UNCHANGED vars
      BY <3>4 DEF vars
    <3> QED
      BY <1>1, <3>1, <3>2, <3>3, <3>4 DEF DisciplinedNext
  <2> QED
    BY <2>2, <2>3, <2>4
<1> QED
  BY <1>1, DisciplinedInvariance, PTL DEF DisciplinedSpec, HeaderStaysCovered

-----------------------------------------------------------------------------
(***************************************************************************)
(* The chunks after the audio can be walked.                               *)
(*                                                                         *)
(* A file that only grows at its end keeps the chunks it has; what has to  *)
(* be shown is that a chunk that is added begins where the walk gets to,   *)
(* and that nothing else in the file looks like the first byte of a chunk. *)
(* While nothing trails the audio the file is audio and filling (TailInv), *)
(* which is no chunk's.                                                    *)
(***************************************************************************)
AudioCells == Bytes \cup {Zero}

\* Where a chunk begins in the file b.
StartsOf(b) == {i \in 1 .. Len(b) : b[i] \in [chunk : Chunks, at : {1}]}

\* The walk over b from its byte number first.
Walkable(b, first) ==
    /\ first \in StartsOf(b)
    /\ \A i \in StartsOf(b) :
        /\ i + ChunkLen(b[i].chunk.size) \in StartsOf(b) \cup {Len(b) + 1}
        /\ \A k \in 1 .. ChunkLen(b[i].chunk.size) :
                b[i + k - 1] = [chunk |-> b[i].chunk, at |-> k]

\* e is b with the chunk c appended behind p bytes of filling.
Appended(e, b, p, c) ==
    /\ e \in Seq(Cell)
    /\ Len(e) = Len(b) + p + ChunkLen(c.size)
    /\ \A i \in 1 .. Len(b) : e[i] = b[i]
    /\ p = 1 => e[Len(b) + 1] = Zero
    /\ \A k \in 1 .. ChunkLen(c.size) : e[Len(b) + p + k] = [chunk |-> c, at |-> k]

LEMMA ChunkAppended ==
    ASSUME NEW b \in Seq(Cell), NEW c \in Chunks, NEW p \in {0, 1}
    PROVE  Appended(b \o (Repeat(Zero, p) \o ChunkCells(c)), b, p, c)
<1> DEFINE fill == Repeat(Zero, p)
           cells == ChunkCells(c)
           both == fill \o cells
           e == b \o both
           n == ChunkLen(c.size)
<1>0. p \in Nat
  OBVIOUS
<1>1. fill \in Seq(Cell) /\ Len(fill) = p
  BY <1>0, CellFacts
<1>2. cells \in Seq(Cell) /\ Len(cells) = n /\ n \in Nat
  BY CellFacts
<1>3. p = 1 => fill[1] = Zero
  BY DEF Repeat
<1>4. \A k \in 1 .. n : cells[k] = [chunk |-> c, at |-> k]
  BY DEF ChunkCells
<1> HIDE DEF fill, cells, n
<1>5. /\ both \in Seq(Cell)
      /\ Len(both) = p + n
      /\ \A i \in 1 .. p : both[i] = fill[i]
      /\ \A j \in 1 .. n : both[p + j] = cells[j]
  <2>1. both \in Seq(Cell) /\ Len(both) = p + n
    BY <1>1, <1>2
  <2>2. ASSUME NEW i \in 1 .. p PROVE both[i] = fill[i]
    BY <1>1, <1>2
  <2>3. ASSUME NEW j \in 1 .. n PROVE both[p + j] = cells[j]
    <3>1. \A k \in 1 .. Len(cells) : both[Len(fill) + k] = cells[k]
      BY <1>1, <1>2
    <3> QED
      BY <1>1, <1>2, <3>1
  <2> QED
    BY <2>1, <2>2, <2>3
<1> HIDE DEF both
<1>6. /\ e \in Seq(Cell)
      /\ Len(e) = Len(b) + (p + n)
      /\ \A i \in 1 .. Len(b) : e[i] = b[i]
      /\ \A j \in 1 .. p + n : e[Len(b) + j] = both[j]
  <2>1. /\ e \in Seq(Cell)
        /\ Len(e) = Len(b) + Len(both)
        /\ \A i \in 1 .. Len(b) : e[i] = b[i]
        /\ \A j \in 1 .. Len(both) : e[Len(b) + j] = both[j]
    BY <1>5
  <2> QED
    BY <1>5, <2>1
<1> HIDE DEF e
<1>7. Len(b) \in Nat
  OBVIOUS
<1>8. p = 1 => e[Len(b) + 1] = Zero
  <2> SUFFICES ASSUME p = 1 PROVE e[Len(b) + 1] = Zero
    OBVIOUS
  <2>1. 1 \in 1 .. p /\ 1 \in 1 .. p + n
    BY <1>2
  <2>2. both[1] = Zero
    BY <1>3, <1>5, <2>1
  <2> QED
    BY <1>6, <2>1, <2>2
<1>9. ASSUME NEW k \in 1 .. n PROVE e[Len(b) + p + k] = [chunk |-> c, at |-> k]
  <2>1. p + k \in 1 .. p + n /\ Len(b) + (p + k) = Len(b) + p + k
    BY <1>0, <1>2, <1>7
  <2>2. e[Len(b) + (p + k)] = both[p + k]
    BY <1>6, <2>1
  <2>3. both[p + k] = cells[k]
    BY <1>5
  <2> QED
    BY <1>4, <2>1, <2>2, <2>3
<1>10. Len(e) = Len(b) + p + n
  BY <1>0, <1>2, <1>6, <1>7
<1> QED
  BY <1>6, <1>8, <1>9, <1>10 DEF Appended, n, e, both, fill, cells

\* It begins there, and nothing else does.
LEMMA StartsAppended ==
    ASSUME NEW b \in Seq(Cell), NEW c \in Chunks, NEW p \in {0, 1},
           NEW e, Appended(e, b, p, c)
    PROVE  StartsOf(e) = StartsOf(b) \cup {Len(b) + p + 1}
<1> DEFINE n == ChunkLen(c.size)
<1>1. /\ Len(e) = Len(b) + p + n
      /\ \A i \in 1 .. Len(b) : e[i] = b[i]
      /\ p = 1 => e[Len(b) + 1] = Zero
      /\ \A k \in 1 .. n : e[Len(b) + p + k] = [chunk |-> c, at |-> k]
  BY DEF Appended
<1>2. n \in Nat /\ n >= 8
  BY CellFacts
<1> HIDE DEF n
<1>3. Len(b) + p + 1 \in StartsOf(e)
  <2>1. e[Len(b) + p + 1] = [chunk |-> c, at |-> 1]
    BY <1>1, <1>2
  <2>2. Len(b) + p + 1 \in 1 .. Len(e)
    BY <1>1, <1>2
  <2> QED
    BY <2>1, <2>2 DEF StartsOf
<1>4. StartsOf(b) \subseteq StartsOf(e)
  <2> SUFFICES ASSUME NEW i \in StartsOf(b) PROVE i \in StartsOf(e)
    OBVIOUS
  <2>1. i \in 1 .. Len(b) /\ b[i] \in [chunk : Chunks, at : {1}]
    BY DEF StartsOf
  <2>2. i \in 1 .. Len(e) /\ e[i] = b[i]
    BY <1>1, <1>2, <2>1
  <2> QED
    BY <2>1, <2>2 DEF StartsOf
<1>5. ASSUME NEW i \in StartsOf(e) PROVE i \in StartsOf(b) \cup {Len(b) + p + 1}
  <2>1. i \in 1 .. Len(e) /\ e[i] \in [chunk : Chunks, at : {1}]
    BY DEF StartsOf
  <2>2. CASE i \in 1 .. Len(b)
    BY <1>1, <2>1, <2>2 DEF StartsOf
  <2>3. CASE p = 1 /\ i = Len(b) + 1
    <3>1. Zero \notin [chunk : Chunks, at : Nat]
      BY BytesAssumption
    <3>2. [chunk : Chunks, at : {1}] \subseteq [chunk : Chunks, at : Nat]
      OBVIOUS
    <3> QED
      BY <1>1, <2>1, <2>3, <3>1, <3>2
  <2>4. CASE \E k \in 1 .. n : i = Len(b) + p + k
    <3>1. PICK k \in 1 .. n : i = Len(b) + p + k
      BY <2>4
    <3>2. [chunk |-> c, at |-> k] \in [chunk : Chunks, at : {1}]
      BY <1>1, <2>1, <3>1
    <3>3. [chunk |-> c, at |-> k].at = 1
      BY <3>2
    <3> QED
      BY <3>1, <3>3
  <2>5. i \in 1 .. Len(b) \/ (p = 1 /\ i = Len(b) + 1)
            \/ i - (Len(b) + p) \in 1 .. n
    BY <1>1, <1>2, <2>1
  <2>6. i = Len(b) + p + (i - (Len(b) + p))
    BY <2>1
  <2> QED
    BY <2>2, <2>3, <2>4, <2>5, <2>6
<1> QED
  BY <1>3, <1>4, <1>5

\* Appending the first chunk, or another one where the walk has ended, leaves a
\* file that can be walked.
LEMMA WalkAppended ==
    ASSUME NEW b \in Seq(Cell), NEW c \in Chunks, NEW p \in {0, 1},
           NEW e, Appended(e, b, p, c),
           NEW first,
           \/ StartsOf(b) = {} /\ first = Len(b) + p + 1
           \/ Walkable(b, first) /\ p = 0
    PROVE  Walkable(e, first)
<1> DEFINE n == ChunkLen(c.size)
           new == Len(b) + p + 1
<1>1. /\ Len(e) = Len(b) + p + n
      /\ \A i \in 1 .. Len(b) : e[i] = b[i]
      /\ \A k \in 1 .. n : e[Len(b) + p + k] = [chunk |-> c, at |-> k]
  BY DEF Appended
<1>2. n \in Nat /\ n >= 8
  BY CellFacts
<1>3. StartsOf(e) = StartsOf(b) \cup {new}
  BY StartsAppended
<1>4. first \in StartsOf(e)
  BY <1>3 DEF Walkable
<1>5. e[new] = [chunk |-> c, at |-> 1] /\ e[new].chunk = c
  <2>1. e[new] = [chunk |-> c, at |-> 1]
    BY <1>1, <1>2
  <2> QED
    BY <2>1
<1>6. /\ new + n = Len(e) + 1
      /\ \A k \in 1 .. n : e[new + k - 1] = [chunk |-> c, at |-> k]
  <2>1. new + n = Len(e) + 1
    BY <1>1, <1>2
  <2>2. ASSUME NEW k \in 1 .. n PROVE e[new + k - 1] = [chunk |-> c, at |-> k]
    <3>1. new + k - 1 = Len(b) + p + k
      BY <1>2
    <3> QED
      BY <1>1, <3>1
  <2> QED
    BY <2>1, <2>2
<1>7. ASSUME NEW i \in StartsOf(b)
      PROVE  /\ i + ChunkLen(e[i].chunk.size) \in StartsOf(e) \cup {Len(e) + 1}
             /\ \A k \in 1 .. ChunkLen(e[i].chunk.size) :
                    e[i + k - 1] = [chunk |-> e[i].chunk, at |-> k]
  <2> DEFINE m == ChunkLen(b[i].chunk.size)
  <2>1. Walkable(b, first) /\ p = 0
    BY <1>7
  <2>2. i \in 1 .. Len(b) /\ b[i] \in [chunk : Chunks, at : {1}]
    BY DEF StartsOf
  <2>3. e[i] = b[i]
    BY <1>1, <2>2
  <2>4. b[i].chunk \in Chunks
    BY <2>2
  <2>5. m \in Nat
    BY <2>4, CellFacts
  <2>6. /\ i + m \in StartsOf(b) \cup {Len(b) + 1}
        /\ \A k \in 1 .. m : b[i + k - 1] = [chunk |-> b[i].chunk, at |-> k]
    BY <2>1 DEF Walkable
  <2> HIDE DEF m
  <2>7. i + m \in StartsOf(e) \cup {Len(e) + 1}
    BY <1>3, <2>1, <2>6
  <2>8. i + m <= Len(b) + 1
    BY <2>6 DEF StartsOf
  <2>9. ASSUME NEW k \in 1 .. m PROVE e[i + k - 1] = [chunk |-> b[i].chunk, at |-> k]
    <3>1. i + k - 1 \in 1 .. Len(b)
      BY <2>2, <2>5, <2>8
    <3> QED
      BY <1>1, <2>6, <3>1
  <2> QED
    BY <2>3, <2>7, <2>9 DEF m
<1> HIDE DEF new, n
<1>8. ASSUME NEW i \in StartsOf(e)
      PROVE  /\ i + ChunkLen(e[i].chunk.size) \in StartsOf(e) \cup {Len(e) + 1}
             /\ \A k \in 1 .. ChunkLen(e[i].chunk.size) :
                    e[i + k - 1] = [chunk |-> e[i].chunk, at |-> k]
  <2>1. CASE i \in StartsOf(b)
    BY <1>7, <2>1
  <2>2. CASE i = new
    BY <1>5, <1>6, <2>2 DEF n
  <2> QED
    BY <1>3, <2>1, <2>2
<1> QED
  BY <1>4, <1>8 DEF Walkable

-----------------------------------------------------------------------------
(* Every step leaves a file that can be walked.                            *)

TailInv ==
    /\ DInv
    /\ TailIsWalkable
    /\ trailing_bytes = 0 => body \in Seq(AudioCells)

\* The property is the walk from the padded end of the audio.
LEMMA TailIsAWalk ==
    TailIsWalkable <=>
        (trailing_bytes # 0 => Walkable(body, data_bytes + PadOf(data_bytes) + 1))
BY DEF TailIsWalkable, Walkable, StartsOf

\* Audio and filling begin no chunk.
LEMMA AudioStartsNothing ==
    ASSUME NEW b \in Seq(AudioCells)
    PROVE  StartsOf(b) = {}
<1> SUFFICES ASSUME NEW i \in 1 .. Len(b), b[i] \in [chunk : Chunks, at : {1}]
             PROVE  FALSE
  BY DEF StartsOf
<1>1. b[i] \in AudioCells
  OBVIOUS
<1>2. b[i] \notin [chunk : Chunks, at : Nat]
  BY <1>1, BytesAssumption DEF AudioCells
<1>3. [chunk : Chunks, at : {1}] \subseteq [chunk : Chunks, at : Nat]
  OBVIOUS
<1> QED
  BY <1>2, <1>3

\* Writing, filling and trimming leave audio.
LEMMA AudioStaysAudio ==
    ASSUME TailInv, AudioStep
    PROVE  body' \in Seq(AudioCells)
<1>1. /\ body \in Seq(AudioCells) /\ Len(body) = data_bytes
      /\ data_bytes \in Nat /\ data_pos \in Nat /\ data_pos <= data_bytes
      /\ cfg.header_len \in Nat /\ cfg.frame_bytes \in Nat
      /\ pos - cfg.header_len = data_pos
  <2>1. phase = "open" /\ trailing_bytes = 0
    BY AudioStepKeepsTail DEF TailInv, DInv
  <2>2. /\ pos = cfg.header_len + data_pos
        /\ data_pos <= data_bytes /\ Len(body) = data_bytes
        /\ data_bytes \in Nat /\ data_pos \in Nat
        /\ cfg.header_len \in Nat /\ cfg.frame_bytes \in Nat
    BY <2>1, ConfigFacts DEF TailInv, DInv, Inv, TypeOK, StreamAtCursor
  <2> QED
    BY <2>1, <2>2 DEF TailInv
<1>2. ASSUME NEW w \in Writes, WriteAudio(w)
      PROVE  body' \in Seq(AudioCells)
  <2>1. w \in Seq(AudioCells)
    BY WritesAssumption DEF AudioCells
  <2>2. body' = Put(body, data_pos, w) /\ data_pos \in 0 .. Len(body)
    BY <1>1, <1>2 DEF WriteAudio, Emit
  <2> QED
    BY <1>1, <2>1, <2>2, PutType
<1>3. ASSUME NEW offset \in Nat, SeekForward(offset)
      PROVE  body' \in Seq(AudioCells)
  <2> DEFINE fill == Repeat(Zero, offset - data_bytes)
  <2>1. offset - data_bytes \in Nat
    BY <1>1, <1>3 DEF SeekForward
  <2>2. fill \in Seq(AudioCells)
    BY <2>1, RepeatType DEF AudioCells
  <2>3. body' = Put(body, data_bytes, fill) /\ data_bytes \in 0 .. Len(body)
    BY <1>1, <1>3 DEF SeekForward
  <2> HIDE DEF fill
  <2> QED
    BY <1>1, <2>2, <2>3, PutType
<1>4. ASSUME NEW frame \in Nat, TruncateToFrame(frame)
      PROVE  body' \in Seq(AudioCells)
  <2> DEFINE offset == cfg.frame_bytes * frame
  <2>1. offset \in Nat /\ offset < data_bytes /\ body' = Cut(body, offset)
    BY <1>1, <1>4 DEF TruncateToFrame
  <2> HIDE DEF offset
  <2>2. offset \in 0 .. Len(body)
    BY <1>1, <2>1
  <2> QED
    BY <1>1, <2>1, <2>2, CutType
<1>5. CASE WriteRawInterleaved \/ WriteFloatBuffer
  BY <1>2, <1>5 DEF WriteRawInterleaved, WriteFloatBuffer
<1>6. CASE \E frame \in 0 .. MaxFrame : SeekToFrame(frame)
  <2>1. PICK frame \in 0 .. MaxFrame : SeekToFrame(frame)
    BY <1>6
  <2> DEFINE offset == cfg.frame_bytes * frame
  <2>2. SeekBack(offset) \/ SeekForward(offset)
    BY <2>1 DEF SeekToFrame
  <2>3. offset \in Nat
    BY <1>1, BoundsAssumption
  <2> HIDE DEF offset
  <2> QED
    BY <1>1, <1>3, <2>2, <2>3 DEF SeekBack
<1>7. CASE \E frame \in 0 .. MaxFrame : TruncateToFrame(frame)
  BY <1>4, <1>7, BoundsAssumption
<1>8. CASE Truncate
  BY <1>4, <1>8, PositionType DEF Truncate, TailInv, DInv, Inv
<1> QED
  BY <1>5, <1>6, <1>7, <1>8 DEF AudioStep

\* A chunk that is added can be walked to.
LEMMA ChunkStaysWalkable ==
    ASSUME TailInv, NEW c \in Chunks, WriteChunkAtEnd(c)
    PROVE  /\ trailing_bytes' # 0
           /\ Walkable(body', data_bytes' + PadOf(data_bytes') + 1)
<1> DEFINE p == PadBeforeTail
           cells == Repeat(Zero, p) \o ChunkCells(c)
           first == data_bytes + PadOf(data_bytes) + 1
<1>1. /\ data_bytes \in Nat /\ trailing_bytes \in Nat /\ phase = "open"
      /\ body \in Seq(Cell) /\ cfg.header_len \in Nat
      /\ Len(body) = data_bytes + trailing_bytes
  BY ConfigFacts DEF TailInv, DInv, Inv, TypeOK, Cell, FileIsExactlyDescribed,
       WriteChunkAtEnd, WriteChunk
<1>2. p \in {0, 1}
  BY <1>1 DEF PadBeforeTail, PadOf
<1>3. body' = body \o cells
  <2>1. pos - cfg.header_len = Len(body)
    BY <1>1, ChunkGoesToTheEnd DEF TailInv
  <2>2. cells \in Seq(Cell)
    BY <1>2, CellFacts
  <2>3. body' = Put(body, Len(body), cells)
    BY <2>1 DEF WriteChunkAtEnd, WriteChunk, Emit
  <2> HIDE DEF cells
  <2> QED
    BY <1>1, <2>2, <2>3, PutAtEnd
<1>4. Appended(body', body, p, c)
  BY <1>1, <1>2, <1>3, ChunkAppended
<1>5. \/ StartsOf(body) = {} /\ first = Len(body) + p + 1
      \/ Walkable(body, first) /\ p = 0
  <2>1. CASE trailing_bytes = 0
    <3>1. StartsOf(body) = {}
      BY <2>1, AudioStartsNothing DEF TailInv
    <3>2. p = PadOf(data_bytes) /\ Len(body) = data_bytes
      BY <1>1, <2>1 DEF PadBeforeTail
    <3> QED
      BY <3>1, <3>2
  <2>2. CASE trailing_bytes # 0
    BY <2>2, TailIsAWalk DEF TailInv, PadBeforeTail
  <2> QED
    BY <2>1, <2>2
<1>6. data_bytes' = data_bytes
  BY DEF WriteChunkAtEnd, WriteChunk
<1>7. trailing_bytes' # 0
  <2>1. trailing_bytes' = trailing_bytes + p + ChunkLen(c.size)
    BY DEF WriteChunkAtEnd, WriteChunk
  <2>2. ChunkLen(c.size) \in Nat /\ ChunkLen(c.size) >= 8
    BY CellFacts
  <2> HIDE DEF p
  <2> QED
    BY <1>1, <1>2, <2>1, <2>2
<1> HIDE DEF p, cells, first
<1>8. Walkable(body', first)
  BY <1>1, <1>2, <1>4, <1>5, WalkAppended
<1> QED
  BY <1>6, <1>7, <1>8 DEF first

LEMMA TailStep ==
    ASSUME TailInv, [DisciplinedNext]_vars
    PROVE  TailInv'
<1>1. DInv'
  BY DisciplinedNextInv DEF TailInv
<1>2. CASE AudioStep
  <2>1. trailing_bytes' = 0 /\ body' \in Seq(AudioCells)
    BY <1>2, AudioStepKeepsTail, AudioStaysAudio DEF TailInv, DInv
  <2> QED
    BY <1>1, <2>1 DEF TailInv, TailIsWalkable
<1>3. CASE \E c \in Chunks : WriteChunkAtEnd(c)
  <2>1. /\ trailing_bytes' # 0
        /\ Walkable(body', data_bytes' + PadOf(data_bytes') + 1)
    BY <1>3, ChunkStaysWalkable
  <2>2. TailIsWalkable'
    BY <2>1 DEF TailIsWalkable, Walkable, StartsOf
  <2> QED
    BY <1>1, <2>1, <2>2 DEF TailInv
<1>4. CASE HeaderStep \/ UNCHANGED vars
  <2>1. UNCHANGED <<data_bytes, trailing_bytes, body>>
    BY <1>4 DEF HeaderStep, UpdateHeader, Finalize, IntoInner, file, vars
  <2> QED
    BY <1>1, <2>1 DEF TailInv, TailIsWalkable
<1> QED
  BY <1>2, <1>3, <1>4 DEF DisciplinedNext

\* However the audio was written and trimmed, and however many chunks follow it:
\* a reader that steps from the padded end of the audio meets each of them whole,
\* and then the end of the file (write_chunk).
THEOREM TailWalkable == DisciplinedSpec => []TailIsWalkable
<1>1. Init => TailInv
  <2> SUFFICES ASSUME Init PROVE TailInv
    OBVIOUS
  <2>1. DInv
    BY InitInv DEF DInv, Init, FileIsExactlyDescribed, FinalizedSizesAreExact
  <2>2. body \in Seq(AudioCells) /\ trailing_bytes = 0
    BY DEF Init
  <2> QED
    BY <2>1, <2>2 DEF TailInv, TailIsWalkable
<1>2. TailInv /\ [DisciplinedNext]_vars => TailInv'
  BY TailStep
<1>3. TailInv => TailIsWalkable
  BY DEF TailInv
<1> QED
  BY <1>1, <1>2, <1>3, PTL DEF DisciplinedSpec

-----------------------------------------------------------------------------
(***************************************************************************)
(* WavWriter implements AudioTrack.                                        *)
(*                                                                         *)
(* While nothing trails the audio, the track is the whole file, and every  *)
(* action is the one it maps to.  From the first chunk on, the file grows  *)
(* at its end, which is the end of the tail.                               *)
(***************************************************************************)
Recorded == Cut(body, data_bytes)
BehindAudio == SubSeq(body, data_bytes + 1, Len(body))

\* The operators AudioTrack takes from ByteFile are the same.
LEMMA SameOperators ==
    /\ \A s, at, w : Track!Put(s, at, w) = Put(s, at, w)
    /\ \A s, n : Track!Cut(s, n) = Cut(s, n)
    /\ \A x, n : Track!Repeat(x, n) = Repeat(x, n)
    /\ \A m, n : Track!Least(m, n) = Least(m, n)
    /\ \A n : Track!PadOf(n) = PadOf(n)
    /\ \A c : Track!ChunkCells(c) = ChunkCells(c)
BY DEF Track!Put, Put, Track!Greatest, Greatest, Track!Cut, Cut, Track!Repeat,
   Repeat, Track!Least, Least, Track!PadOf, PadOf, Track!ChunkCells, ChunkCells,
   Track!ChunkLen, ChunkLen, Track!ChunkHeaderSize, ChunkHeaderSize

-----------------------------------------------------------------------------
(* Sequences.                                                              *)

\* All of a stream, and what follows all of it.
LEMMA WholeStream ==
    ASSUME NEW S, NEW s \in Seq(S)
    PROVE  Cut(s, Len(s)) = s /\ SubSeq(s, Len(s) + 1, Len(s)) = << >>
<1>1. Cut(s, Len(s)) \in Seq(S) /\ Len(Cut(s, Len(s))) = Len(s)
  BY CutType
<1>2. \A i \in 1 .. Len(s) : Cut(s, Len(s))[i] = s[i]
  BY DEF Cut
<1> QED
  BY <1>1, <1>2

\* Appending to a stream appends to what follows its first n bytes.
LEMMA AppendedBehind ==
    ASSUME NEW S, NEW s \in Seq(S), NEW w \in Seq(S), NEW n \in 0 .. Len(s)
    PROVE  /\ Cut(s \o w, n) = Cut(s, n)
           /\ SubSeq(s \o w, n + 1, Len(s \o w)) = SubSeq(s, n + 1, Len(s)) \o w
           /\ Len(SubSeq(s, n + 1, Len(s))) = Len(s) - n
<1>1. \A i \in 1 .. n : (s \o w)[i] = s[i]
  OBVIOUS
<1>2. Cut(s \o w, n) = Cut(s, n)
  BY <1>1 DEF Cut
<1> DEFINE l == SubSeq(s \o w, n + 1, Len(s \o w))
           r == SubSeq(s, n + 1, Len(s))
           both == r \o w
<1>3. r \in Seq(S) /\ Len(r) = Len(s) - n
  OBVIOUS
<1>4. l \in Seq(S) /\ Len(l) = Len(s) - n + Len(w)
  OBVIOUS
<1>5. both \in Seq(S) /\ Len(both) = Len(s) - n + Len(w)
  BY <1>3
<1>6. ASSUME NEW i \in 1 .. Len(s) - n + Len(w) PROVE l[i] = both[i]
  <2>1. l[i] = (s \o w)[n + i]
    OBVIOUS
  <2>2. CASE i <= Len(s) - n
    BY <2>1, <2>2
  <2>3. CASE ~(i <= Len(s) - n)
    BY <2>1, <2>3
  <2> QED
    BY <2>2, <2>3
<1> HIDE DEF l, r, both
<1>7. l = both
  BY <1>4, <1>5, <1>6
<1> QED
  BY <1>2, <1>3, <1>7 DEF l, r, both

\* No filling is the empty stream.
LEMMA NoFill == Repeat(Zero, 0) = << >>
<1>1. Repeat(Zero, 0) \in Seq(Cell) /\ Len(Repeat(Zero, 0)) = 0
  BY CellFacts
<1> QED
  BY <1>1

-----------------------------------------------------------------------------
(* Every step maps to a step of the track or to none.                      *)

\* The cursor is moved to offsets within the bound.
RefInv == DInv /\ data_bytes <= MaxData

LEMMA RefInit == Init => RefInv
<1> SUFFICES ASSUME Init PROVE RefInv
  OBVIOUS
<1>1. DInv
  BY InitInv DEF DInv, Init, FileIsExactlyDescribed, FinalizedSizesAreExact
<1> QED
  BY <1>1, BoundsAssumption DEF RefInv, Init

\* While the file is open and nothing trails the audio, it is the audio.
LEMMA FileIsAudio ==
    ASSUME DInv, phase = "open", trailing_bytes = 0
    PROVE  /\ Recorded = body /\ BehindAudio = << >>
           /\ Len(body) = data_bytes /\ body \in Seq(Cell)
           /\ data_bytes \in Nat /\ data_pos \in Nat /\ data_pos <= data_bytes
           /\ pos - cfg.header_len = data_pos
           /\ cfg.header_len \in Nat /\ cfg.frame_bytes \in Nat
<1>1. /\ Len(body) = data_bytes /\ body \in Seq(Cell)
      /\ data_bytes \in Nat /\ data_pos \in Nat /\ data_pos <= data_bytes
      /\ pos = cfg.header_len + data_pos
      /\ cfg.header_len \in Nat /\ cfg.frame_bytes \in Nat
  BY ConfigFacts DEF DInv, Inv, TypeOK, StreamAtCursor, Cell
<1>2. Cut(body, Len(body)) = body /\ SubSeq(body, Len(body) + 1, Len(body)) = << >>
  BY <1>1, WholeStream
<1> QED
  BY <1>1, <1>2 DEF Recorded, BehindAudio

\* Recording, moving, filling and trimming are those of the track.
LEMMA AudioStepMaps ==
    ASSUME RefInv, DInv', AudioStep
    PROVE  Track!TrackNext /\ data_bytes' <= MaxData
<1>1. phase = "open" /\ phase' = "open" /\ trailing_bytes = 0 /\ trailing_bytes' = 0
  BY AudioStepKeepsTail DEF RefInv, DInv
<1>2. /\ Recorded = body /\ BehindAudio = << >>
      /\ Len(body) = data_bytes /\ body \in Seq(Cell)
      /\ data_bytes \in Nat /\ data_pos \in Nat /\ data_pos <= data_bytes
      /\ pos - cfg.header_len = data_pos
      /\ cfg.header_len \in Nat /\ cfg.frame_bytes \in Nat
  BY <1>1, FileIsAudio DEF RefInv
<1>3. Recorded' = body' /\ BehindAudio' = << >>
  <2>1. Len(body') = data_bytes' /\ body' \in Seq(Cell)
    BY <1>1 DEF DInv, Inv, TypeOK, StreamAtCursor, Cell
  <2>2. /\ Cut(body', Len(body')) = body'
        /\ SubSeq(body', Len(body') + 1, Len(body')) = << >>
    BY <2>1, WholeStream
  <2> QED
    BY <2>1, <2>2 DEF Recorded, BehindAudio
<1>4. Track!Recording
  BY <1>1, <1>2 DEF Track!Recording, BehindAudio
<1>5. ASSUME NEW w \in Writes, WriteAudio(w)
      PROVE  Track!Record(w) /\ data_bytes' <= MaxData
  <2>1. body' = Put(body, data_pos, w) /\ data_pos' = data_pos + Len(w)
    BY <1>2, <1>5 DEF WriteAudio, Emit, Advance
  <2>2. data_bytes' <= MaxData
    BY <1>5 DEF RefInv, WriteAudio, Advance, Greatest
  <2> QED
    BY <1>1, <1>2, <1>3, <1>4, <2>1, <2>2, SameOperators
       DEF Track!Record, Recorded, BehindAudio
<1>6. ASSUME NEW offset \in Nat, SeekBack(offset)
      PROVE  Track!MoveTo(offset) /\ offset \in 0 .. MaxData /\ data_bytes' <= MaxData
  <2>1. /\ offset <= Len(Recorded) /\ data_pos' = offset
        /\ body' = body /\ data_bytes' = data_bytes /\ phase' = phase
    BY <1>2, <1>6 DEF SeekBack
  <2>2. offset \in 0 .. MaxData
    BY <1>2, <2>1, BoundsAssumption DEF RefInv
  <2> QED
    BY <1>4, <2>1, <2>2 DEF RefInv, Track!MoveTo, Recorded
<1>7. ASSUME NEW offset \in Nat, SeekForward(offset)
      PROVE  Track!ExtendTo(offset) /\ offset \in 0 .. MaxData /\ data_bytes' <= MaxData
  <2> DEFINE fill == Repeat(Zero, offset - data_bytes)
  <2>1. /\ offset > data_bytes /\ offset <= MaxData
        /\ body' = Put(body, data_bytes, fill)
        /\ data_pos' = offset /\ data_bytes' = offset
    BY <1>7 DEF SeekForward
  <2>2. fill \in Seq(Cell)
    BY <1>2, <2>1, CellFacts
  <2> HIDE DEF fill
  <2>3. body' = body \o fill
    BY <1>2, <2>1, <2>2, PutAtEnd
  <2>4. offset \in 0 .. MaxData
    BY <1>7, <2>1, BoundsAssumption
  <2> QED
    BY <1>1, <1>2, <1>3, <1>4, <2>1, <2>3, <2>4, SameOperators
       DEF Track!ExtendTo, Recorded, BehindAudio, fill
<1>8. ASSUME NEW frame \in Nat, TruncateToFrame(frame)
      PROVE  \E offset \in 0 .. MaxData : Track!TrimTo(offset) /\ data_bytes' <= MaxData
  <2> DEFINE offset == cfg.frame_bytes * frame
  <2>1. /\ offset \in Nat /\ offset < data_bytes
        /\ body' = Cut(body, offset)
        /\ data_pos' = Least(data_pos, offset) /\ data_bytes' = offset
    BY <1>2, <1>8 DEF TruncateToFrame
  <2> HIDE DEF offset
  <2>2. offset \in 0 .. MaxData /\ data_bytes' <= MaxData
    BY <1>2, <2>1, BoundsAssumption DEF RefInv
  <2>3. Track!TrimTo(offset)
    BY <1>1, <1>2, <1>3, <1>4, <2>1, SameOperators
       DEF Track!TrimTo, Recorded, BehindAudio
  <2> QED
    BY <2>2, <2>3
<1>9. CASE WriteRawInterleaved \/ WriteFloatBuffer
  BY <1>5, <1>9 DEF WriteRawInterleaved, WriteFloatBuffer, Track!TrackNext
<1>10. CASE \E frame \in 0 .. MaxFrame : SeekToFrame(frame)
  <2>1. PICK frame \in 0 .. MaxFrame : SeekToFrame(frame)
    BY <1>10
  <2> DEFINE offset == cfg.frame_bytes * frame
  <2>2. SeekBack(offset) \/ SeekForward(offset)
    BY <2>1 DEF SeekToFrame
  <2>3. offset \in Nat
    BY <1>2, BoundsAssumption
  <2> HIDE DEF offset
  <2> QED
    BY <1>6, <1>7, <2>2, <2>3 DEF Track!TrackNext
<1>11. CASE \E frame \in 0 .. MaxFrame : TruncateToFrame(frame)
  <2>1. PICK frame \in 0 .. MaxFrame : TruncateToFrame(frame)
    BY <1>11
  <2> QED
    BY <1>8, <2>1, BoundsAssumption DEF Track!TrackNext
<1>12. CASE Truncate
  <2>1. Position \in Nat
    BY PositionType DEF RefInv, DInv, Inv
  <2> QED
    BY <1>8, <1>12, <2>1 DEF Truncate, Track!TrackNext
<1> QED
  BY <1>9, <1>10, <1>11, <1>12 DEF AudioStep

\* A chunk is annotated at the end of the tail.
LEMMA AnnotateMaps ==
    ASSUME RefInv, NEW c \in Chunks, WriteChunkAtEnd(c)
    PROVE  Track!Annotate(c)
<1> DEFINE fill == Repeat(Zero, PadBeforeTail)
           cells == fill \o ChunkCells(c)
<1>1. /\ data_bytes \in Nat /\ trailing_bytes \in Nat
      /\ phase = "open" /\ phase' = "open"
      /\ body \in Seq(Cell) /\ cfg.header_len \in Nat
      /\ Len(body) = data_bytes + trailing_bytes
      /\ data_bytes' = data_bytes /\ data_pos' = data_pos
  BY ConfigFacts DEF RefInv, DInv, Inv, TypeOK, Cell, FileIsExactlyDescribed,
       WriteChunkAtEnd, WriteChunk
<1>2. PadBeforeTail \in Nat
  BY <1>1 DEF PadBeforeTail, PadOf
<1>3. /\ fill \in Seq(Cell) /\ ChunkCells(c) \in Seq(Cell)
      /\ cells \in Seq(Cell)
  BY <1>2, CellFacts
<1>4. body' = body \o cells
  <2>1. pos - cfg.header_len = Len(body)
    BY <1>1, ChunkGoesToTheEnd DEF RefInv
  <2>2. body' = Put(body, Len(body), cells)
    BY <2>1 DEF WriteChunkAtEnd, WriteChunk, Emit
  <2> HIDE DEF cells
  <2> QED
    BY <1>1, <1>3, <2>2, PutAtEnd
<1>5. /\ Recorded' = Recorded
      /\ BehindAudio' = BehindAudio \o cells
      /\ Len(BehindAudio) = trailing_bytes
  <2>1. data_bytes \in 0 .. Len(body)
    BY <1>1
  <2> HIDE DEF cells
  <2>2. /\ Cut(body \o cells, data_bytes) = Cut(body, data_bytes)
        /\ SubSeq(body \o cells, data_bytes + 1, Len(body \o cells))
                = SubSeq(body, data_bytes + 1, Len(body)) \o cells
        /\ Len(SubSeq(body, data_bytes + 1, Len(body))) = Len(body) - data_bytes
    BY <1>1, <1>3, <2>1, AppendedBehind
  <2> QED
    BY <1>1, <1>4, <2>2 DEF Recorded, BehindAudio
<1>6. BehindAudio \in Seq(Cell) /\ Len(Recorded) = data_bytes
  BY <1>1, CutType DEF Recorded, BehindAudio
<1>7. BehindAudio = << >> <=> trailing_bytes = 0
  BY <1>5, <1>6
<1>8. fill = IF BehindAudio = << >> THEN Repeat(Zero, PadOf(Len(Recorded))) ELSE << >>
  BY <1>6, <1>7, NoFill DEF PadBeforeTail
<1>9. BehindAudio' = BehindAudio \o fill \o ChunkCells(c)
  <2> DEFINE own == ChunkCells(c)
  <2> HIDE DEF fill, own
  <2>1. BehindAudio \o (fill \o own) = BehindAudio \o fill \o own
    BY <1>3, <1>6 DEF own
  <2> QED
    BY <1>5, <2>1 DEF own
<1> HIDE DEF fill
<1> QED
  BY <1>1, <1>5, <1>8, <1>9, SameOperators DEF Track!Annotate, Recorded, BehindAudio

LEMMA RefStep ==
    ASSUME RefInv, [DisciplinedNext]_vars
    PROVE  RefInv' /\ [Track!TrackNext]_(Track!track)
<1>1. DInv'
  BY DisciplinedNextInv DEF RefInv
<1>2. CASE AudioStep
  BY <1>1, <1>2, AudioStepMaps DEF RefInv
<1>3. CASE \E c \in Chunks : WriteChunkAtEnd(c)
  <2>1. PICK c \in Chunks : WriteChunkAtEnd(c)
    BY <1>3
  <2>2. data_bytes' = data_bytes
    BY <2>1 DEF WriteChunkAtEnd, WriteChunk
  <2>3. Track!Annotate(c)
    BY <2>1, AnnotateMaps
  <2> QED
    BY <1>1, <2>2, <2>3 DEF RefInv, Track!TrackNext
<1>4. CASE UpdateHeader \/ UNCHANGED vars
  <2>1. UNCHANGED <<phase, data_bytes, data_pos, body>>
    BY <1>4 DEF UpdateHeader, vars
  <2> QED
    BY <1>1, <2>1 DEF RefInv, Track!track
<1>5. CASE Finalize \/ IntoInner
  <2>1. UNCHANGED <<data_bytes, data_pos, body>> /\ phase = "open" /\ phase' # "open"
    BY <1>5 DEF Finalize, FinalizeStreaming, FinalizePatched, FinalizeTooLarge,
         IntoInner, file
  <2>2. Track!Close
    BY <2>1 DEF Track!Close
  <2> QED
    BY <1>1, <2>1, <2>2 DEF RefInv, Track!TrackNext
<1> QED
  BY <1>2, <1>3, <1>4, <1>5 DEF DisciplinedNext, HeaderStep

LEMMA TrackStarts == Init => Track!TrackInit
<1> SUFFICES ASSUME Init PROVE Track!TrackInit
  OBVIOUS
<1>1. body = << >> /\ data_bytes = 0 /\ Len(body) = 0 /\ body \in Seq(Cell)
  BY DEF Init
<1>2. Cut(body, 0) = body /\ SubSeq(body, 0 + 1, Len(body)) = << >>
  BY <1>1, WholeStream
<1> QED
  BY <1>1, <1>2 DEF Init, Track!TrackInit

\* Whatever a disciplined caller does: between the header and the end of the
\* audio the file is what was recorded at the cursor, filled and trimmed, and
\* behind it the chunks that were added, in order (WavWriter's methods).
THEOREM WriterImplementsTrack == DisciplinedSpec => ImplementsTrack
<1>1. Init => RefInv /\ Track!TrackInit
  BY RefInit, TrackStarts
<1>2. RefInv /\ [DisciplinedNext]_vars => RefInv' /\ [Track!TrackNext]_(Track!track)
  BY RefStep
<1> QED
  BY <1>1, <1>2, PTL DEF DisciplinedSpec, ImplementsTrack, Track!TrackSpec

=============================================================================
