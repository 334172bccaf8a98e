--------------------------- MODULE HeaderWalkProofs ---------------------------
(***************************************************************************)
(* Proofs about HeaderWalk, for every file: any number of chunks, any      *)
(* lengths, any ids.  While the walk goes on, everything it has read lies  *)
(* behind it, and the place of the next chunk is behind the audio unless   *)
(* it has saturated, which ends the walk.                                  *)
(***************************************************************************)
EXTENDS HeaderWalk, FiniteSetTheorems, TLAPS

Walking == status = "walking"

Sizes == 0 .. U64Max

TypeInv ==
    /\ file \in [size : FileSizes, rf64 : BOOLEAN, declared : Declared]
    /\ status \in {"walking", "stopped", "ok", "error"}
    /\ next \in 12 .. U64Max
    /\ scan_end \in 0 .. file.size
    /\ ds64 \in [found : BOOLEAN, riff : Sizes, data : Sizes, table : Tables \cup {<< >>}]
    /\ ds64 # NoDs64 => ds64.found /\ file.rf64
    /\ fmt \in BOOLEAN /\ fact \in BOOLEAN
    /\ audio \in [at : 0 .. file.size, len : Sizes]
    /\ bodies \subseteq [id : Ids \ {"data"}, at : Nat, len : Nat, after : BOOLEAN]

\* What was read is inside the file and behind the walk.
ReadsInv ==
    /\ \A b \in bodies : b.at + b.len <= file.size
    /\ Walking => \A b \in bodies : b.at + b.len <= next
    /\ \A b, c \in bodies : b # c => ~Overlap(b, c)

\* The walk is past the audio it has found.
AudioInv ==
    /\ Walking /\ FoundData => next >= audio.at + audio.len \/ next = U64Max
    /\ ~FoundData => \A b \in bodies : ~b.after
    /\ AudioIsNotMetadata

\* One body of each kind, and the walk remembers having read it.
OwnedInv ==
    /\ \A b, c \in bodies : b.id = c.id /\ b.id \in Owned => b = c
    /\ Walking => \A b \in bodies : /\ b.id = "fmt " => fmt
                                    /\ b.id = "fact" => fact
                                    /\ b.id = "ds64" => ds64.found
    /\ ~file.rf64 => \A b \in bodies : b.id # "ds64"
    /\ fmt => \E b \in bodies : b.id = "fmt " /\ b.len >= CoreSize

RiffInv ==
    /\ Walking /\ FoundData /\ RiffIsSized => scan_end <= RiffEnd
    /\ TrailingChunksAreInsideRiff

Inv == TypeInv /\ ReadsInv /\ AudioInv /\ OwnedInv /\ RiffInv

-----------------------------------------------------------------------------
(* Arithmetic that saturates.                                              *)

LEMMA SatAddFacts ==
    ASSUME NEW a \in Nat, NEW b \in Nat
    PROVE  /\ SatAdd(a, b) \in Sizes
           /\ SatAdd(a, b) = a + b \/ SatAdd(a, b) = U64Max
           /\ SatAdd(a, b) <= a + b
<1>1. U64Max \in Nat
  BY LengthsAssumption
<1>2. CASE a + b <= U64Max
  BY <1>1, <1>2 DEF SatAdd, Least, Sizes
<1>3. CASE ~(a + b <= U64Max)
  BY <1>1, <1>3 DEF SatAdd, Least, Sizes
<1> QED
  BY <1>2, <1>3

LEMMA FileFacts ==
    ASSUME TypeInv
    PROVE  /\ file.size \in Nat /\ file.size >= 12 /\ file.size < U64Max
           /\ file.declared \in Nat /\ file.declared <= U32Max
           /\ file.rf64 \in BOOLEAN
           /\ next \in Nat /\ next >= 12 /\ next <= U64Max
           /\ scan_end \in Nat /\ scan_end <= file.size
           /\ U32Max \in Nat /\ U64Max \in Nat /\ U32Max <= U64Max
<1>1. file.size \in FileSizes /\ file.declared \in Declared /\ file.rf64 \in BOOLEAN
  BY DEF TypeInv
<1>2. U32Max \in Nat /\ U64Max \in Nat /\ U32Max <= U64Max
  BY LengthsAssumption
<1>3. file.size \in 12 .. U64Max - 1
  BY <1>1, LengthsAssumption
<1>4. file.declared \in 0 .. U32Max
  BY <1>1, LengthsAssumption
<1>5. next \in 12 .. U64Max /\ scan_end \in 0 .. file.size
  BY DEF TypeInv
<1> QED
  BY <1>1, <1>2, <1>3, <1>4, <1>5

\* A chunk header that is there to be read is inside the file.
LEMMA MoreToScanFacts ==
    ASSUME TypeInv, MoreToScan
    PROVE  next + 8 <= scan_end /\ next + 8 <= file.size /\ next + 8 < U64Max
<1>1. SatAdd(next, 8) <= scan_end
  BY DEF MoreToScan, ChunkHeaderSize
<1>2. SatAdd(next, 8) = next + 8 \/ SatAdd(next, 8) = U64Max
  BY FileFacts, SatAddFacts
<1> QED
  BY <1>1, <1>2, FileFacts

\* A body that ends inside the file ends where it says, without saturation.
LEMMA BodyEndFacts ==
    ASSUME TypeInv, MoreToScan, NEW n \in Nat
    PROVE  /\ BodyEnd(n) \in Nat
           /\ BodyEnd(n) = next + 8 + n \/ BodyEnd(n) = U64Max
           /\ BodyEnd(n) <= file.size => BodyEnd(n) = next + 8 + n
<1>1. SatAdd(next, 8) = next + 8
  BY FileFacts, MoreToScanFacts, SatAddFacts DEF SatAdd, Least
<1>2. BodyEnd(n) = SatAdd(next + 8, n)
  BY <1>1 DEF BodyEnd, ChunkHeaderSize
<1>3. next + 8 \in Nat
  BY FileFacts
<1>4. /\ BodyEnd(n) \in Sizes
      /\ BodyEnd(n) = next + 8 + n \/ BodyEnd(n) = U64Max
  BY <1>2, <1>3, SatAddFacts
<1> QED
  BY <1>4, FileFacts DEF Sizes

LEMMA AdvanceFacts ==
    ASSUME TypeInv, MoreToScan, NEW n \in Nat, Advance(n)
    PROVE  /\ next' \in 12 .. U64Max /\ next' >= next
           /\ next' >= next + 8 + n \/ next' = U64Max
           /\ BodyEnd(n) <= file.size => next' >= next + 8 + n
<1>1. /\ BodyEnd(n) \in Nat
      /\ BodyEnd(n) = next + 8 + n \/ BodyEnd(n) = U64Max
      /\ BodyEnd(n) <= file.size => BodyEnd(n) = next + 8 + n
  BY BodyEndFacts
<1>2. PadOf(n) \in {0, 1}
  BY DEF PadOf
<1>3. next' = SatAdd(BodyEnd(n), PadOf(n))
  BY DEF Advance
<1>4. next' = BodyEnd(n) + PadOf(n) \/ next' = U64Max
  BY <1>1, <1>2, <1>3, SatAddFacts
<1>5. next' \in Sizes /\ next' <= U64Max
  <2>1. PadOf(n) \in Nat
    BY <1>2
  <2>2. next' \in Sizes
    BY <1>1, <1>3, <2>1, SatAddFacts
  <2> QED
    BY <2>2, LengthsAssumption DEF Sizes
<1>6. next' \in Nat /\ U64Max \in Nat /\ next \in Nat /\ next >= 12 /\ next <= U64Max
  BY <1>5, FileFacts DEF Sizes
<1>7. next' >= next + 8 + n \/ next' = U64Max
  <2>1. CASE next' = BodyEnd(n) + PadOf(n) /\ BodyEnd(n) = next + 8 + n
    BY <1>2, <1>6, <2>1
  <2>2. CASE next' = BodyEnd(n) + PadOf(n) /\ BodyEnd(n) = U64Max
    BY <1>2, <1>5, <1>6, <2>2
  <2> QED
    BY <1>1, <1>4, <2>1, <2>2
<1>8. next' >= next /\ next' \in 12 .. U64Max
  BY <1>5, <1>6, <1>7
<1>9. ASSUME BodyEnd(n) <= file.size
      PROVE  next' >= next + 8 + n
  <2>1. next + 8 + n <= file.size /\ file.size < U64Max /\ file.size \in Nat
    BY <1>1, <1>9, FileFacts
  <2> QED
    BY <1>6, <1>7, <2>1
<1> QED
  BY <1>7, <1>8, <1>9

\* The length of a body is a size, wherever it comes from.
LEMMA BodyLenFacts ==
    ASSUME TypeInv, NEW id \in Ids, NEW len \in Lengths
    PROVE  BodyLen(id, len) \in Sizes /\ BodyLen(id, len) \in Nat /\ len \in Nat
<1>1. len \in 0 .. U32Max /\ len \in Sizes
  BY LengthsAssumption DEF Sizes
<1>2. ds64.data \in Sizes /\ ds64.table \in Tables \cup {<< >>}
  BY DEF TypeInv
<1>3. ASSUME id \in DOMAIN ds64.table
      PROVE  ds64.table[id] \in Sizes
  <2>1. CASE ds64.table \in Tables
    BY <1>3, <2>1, LengthsAssumption DEF Sizes
  <2>2. CASE ds64.table = << >>
    BY <1>3, <2>2
  <2> QED
    BY <1>2, <2>1, <2>2
<1>4. SizeFor(id, len) \in Sizes
  BY <1>1, <1>2, <1>3 DEF SizeFor
<1> QED
  BY <1>1, <1>4, LengthsAssumption DEF BodyLen, Sizes

-----------------------------------------------------------------------------
(* Parts of a step.                                                        *)

\* A chunk that is passed over.
LEMMA PassedOver ==
    ASSUME Inv, Walking, next' \in 12 .. U64Max, next' >= next,
           UNCHANGED <<file, status, scan_end, ds64, fmt, fact, audio, bodies>>
    PROVE  Inv'
<1>1. TypeInv'
  BY DEF Inv, TypeInv
<1>2. next \in Nat /\ next <= U64Max /\ next' \in Nat /\ next' <= U64Max /\ U64Max \in Nat
  BY FileFacts, LengthsAssumption DEF Inv
<1>3. \A b \in bodies : b.at \in Nat /\ b.len \in Nat
  BY DEF Inv, TypeInv
<1>4. ReadsInv'
  BY <1>2, <1>3 DEF Inv, ReadsInv, Walking, Overlap
<1>5. AudioInv'
  <2>1. audio.at \in Nat /\ audio.len \in Nat
    BY FileFacts DEF Inv, TypeInv, Sizes
  <2>2. FoundData' = FoundData /\ AudioIsNotMetadata'
    BY DEF Inv, AudioInv, FoundData, AudioIsNotMetadata
  <2>3. Walking /\ FoundData => next' >= audio.at + audio.len \/ next' = U64Max
    BY <1>2, <2>1 DEF Inv, AudioInv
  <2> QED
    BY <2>2, <2>3 DEF Inv, AudioInv, Walking
<1>6. OwnedInv' /\ RiffInv'
  BY DEF Inv, OwnedInv, RiffInv, Walking, FoundData, RiffIsSized, RiffEnd,
         TrailingChunksAreInsideRiff
<1> QED
  BY <1>1, <1>4, <1>5, <1>6 DEF Inv

\* The walk stops, with what it has.
LEMMA Stopping ==
    ASSUME Inv, status' \in {"stopped", "ok", "error"},
           UNCHANGED <<file, next, scan_end, ds64, fmt, fact, audio, bodies>>
    PROVE  Inv'
<1>1. TypeInv'
  BY DEF Inv, TypeInv
<1>2. ReadsInv' /\ AudioInv'
  BY DEF Inv, ReadsInv, AudioInv, AudioIsNotMetadata, FoundData, Walking, Overlap
<1>3. OwnedInv' /\ RiffInv'
  BY DEF Inv, OwnedInv, RiffInv, Walking, FoundData, RiffIsSized, RiffEnd,
         TrailingChunksAreInsideRiff
<1> QED
  BY <1>1, <1>2, <1>3 DEF Inv

\* A body that is read lies behind everything read before it, and behind the
\* audio if that was found.
LEMMA Reading ==
    ASSUME Inv, Walking, MoreToScan,
           NEW id \in Ids \ {"data"}, NEW n \in Nat,
           next + 8 + n <= file.size, ReadBody(id, n),
           UNCHANGED <<file, scan_end, audio>>,
           status' = "walking" => next' \in Nat /\ next' >= next + 8 + n
    PROVE  /\ bodies' \subseteq [id : Ids \ {"data"}, at : Nat, len : Nat, after : BOOLEAN]
           /\ ReadsInv'
           /\ AudioInv'
           /\ \E new : /\ bodies' = bodies \cup {new}
                       /\ new.id = id /\ new.len = n /\ new.at = next + 8
                       /\ (new.after <=> FoundData)
<1> DEFINE new == [id |-> id, at |-> next + 8, len |-> n, after |-> FoundData]
<1>1. bodies' = bodies \cup {new}
  BY DEF ReadBody, ChunkHeaderSize
<1>2. /\ new \in [id : Ids \ {"data"}, at : Nat, len : Nat, after : BOOLEAN]
      /\ new.id = id /\ new.at = next + 8 /\ new.len = n
  BY FileFacts DEF Inv, FoundData
<1>3. new.after <=> FoundData
  BY Zenon
<1> HIDE DEF new
<1>4. /\ next \in Nat /\ file.size \in Nat /\ file.size < U64Max /\ U64Max \in Nat
      /\ audio.at \in Nat /\ audio.len \in Nat
  BY FileFacts DEF Inv, TypeInv, Sizes
<1>5. \A b \in bodies : b.at \in Nat /\ b.len \in Nat
  BY DEF Inv, TypeInv
<1>6. bodies' \subseteq [id : Ids \ {"data"}, at : Nat, len : Nat, after : BOOLEAN]
  BY <1>1, <1>2 DEF Inv, TypeInv
<1>7. ReadsInv'
  <2>1. \A b \in bodies : b.at + b.len <= file.size /\ b.at + b.len <= next
    BY DEF Inv, ReadsInv
  <2>2. \A b \in bodies : ~Overlap(b, new) /\ ~Overlap(new, b)
    BY <1>2, <1>4, <1>5, <2>1 DEF Overlap
  <2>3. \A b, c \in bodies' : b # c => ~Overlap(b, c)
    BY <1>1, <2>2 DEF Inv, ReadsInv
  <2>4. \A b \in bodies' : b.at + b.len <= file.size
    BY <1>1, <1>2, <1>4, <2>1
  <2>5. Walking' => \A b \in bodies' : b.at + b.len <= next'
    BY <1>1, <1>2, <1>4, <1>5, <2>1 DEF Walking
  <2> QED
    BY <2>3, <2>4, <2>5 DEF ReadsInv, Overlap
<1>8. AudioInv'
  <2>1. FoundData' = FoundData
    BY DEF FoundData
  <2>2. FoundData => next >= audio.at + audio.len
    BY <1>4 DEF Inv, AudioInv
  <2>3. Walking' /\ FoundData => next' >= audio.at + audio.len
    BY <1>4, <2>2 DEF Walking
  <2>4. ~FoundData => \A b \in bodies' : ~b.after
    BY <1>1, <1>3 DEF Inv, AudioInv
  <2>5. AudioIsNotMetadata'
    <3>1. CASE FoundData
      BY <1>1, <1>2, <1>3, <1>4, <2>1, <2>2, <3>1 DEF Inv, AudioInv, AudioIsNotMetadata
    <3>2. CASE ~FoundData
      BY <2>1, <3>2 DEF AudioIsNotMetadata
    <3> QED
      BY <3>1, <3>2
  <2> QED
    BY <2>1, <2>3, <2>4, <2>5 DEF AudioInv
<1> QED
  BY <1>1, <1>2, <1>3, <1>6, <1>7, <1>8

LEMMA ReadingRiff ==
    ASSUME Inv, Walking, MoreToScan, NEW new,
           bodies' = bodies \cup {new}, new.at = next + 8, new.after <=> FoundData,
           UNCHANGED <<file, scan_end, audio>>, FoundData => RiffEnd' = RiffEnd
    PROVE  RiffInv'
<1>1. FoundData' = FoundData /\ next + 8 <= scan_end
  BY MoreToScanFacts DEF Inv, FoundData
<1>2. CASE FoundData
  <2>1. RiffIsSized' = RiffIsSized
    BY <1>2 DEF RiffIsSized
  <2>2. RiffIsSized => scan_end <= RiffEnd
    BY <1>2 DEF Inv, RiffInv
  <2>3. RiffIsSized => RiffEnd \in Int
    BY FileFacts DEF Inv, TypeInv, RiffEnd, Sizes
  <2>4. RiffIsSized => new.at <= RiffEnd
    BY <1>1, <2>2, <2>3, FileFacts DEF Inv
  <2>5. TrailingChunksAreInsideRiff'
    BY <1>2, <2>1, <2>4 DEF Inv, RiffInv, TrailingChunksAreInsideRiff
  <2> QED
    BY <1>2, <2>1, <2>2, <2>5 DEF RiffInv
<1>3. CASE ~FoundData
  <2>1. \A b \in bodies' : ~b.after
    BY <1>3 DEF Inv, AudioInv
  <2> QED
    BY <1>1, <1>3, <2>1 DEF RiffInv, TrailingChunksAreInsideRiff
<1> QED
  BY <1>2, <1>3

\* A body of a kind not read before.
LEMMA ReadingOwned ==
    ASSUME Inv, Walking, NEW new, bodies' = bodies \cup {new}, file' = file,
           new.id \in Owned => \A b \in bodies : b.id # new.id,
           new.id = "ds64" => file.rf64,
           fmt' = (fmt \/ (new.id = "fmt " /\ status' = "walking")),
           new.id = "fmt " => new.len >= CoreSize \/ fmt' = fmt,
           fact' = (fact \/ new.id = "fact"),
           ds64'.found = (ds64.found \/ new.id = "ds64")
    PROVE  OwnedInv'
<1>1. \A b, c \in bodies' : b.id = c.id /\ b.id \in Owned => b = c
  BY DEF Inv, OwnedInv
<1>2. Walking' => \A b \in bodies' : /\ b.id = "fmt " => fmt'
                                     /\ b.id = "fact" => fact'
                                     /\ b.id = "ds64" => ds64'.found
  BY DEF Inv, OwnedInv, Walking
<1>3. ~file.rf64 => \A b \in bodies' : b.id # "ds64"
  BY DEF Inv, OwnedInv
<1>4. ASSUME fmt'
      PROVE  \E b \in bodies' : b.id = "fmt " /\ b.len >= CoreSize
  <2>1. CASE fmt
    BY <2>1 DEF Inv, OwnedInv
  <2>2. CASE ~fmt
    BY <1>4, <2>2
  <2> QED
    BY <2>1, <2>2
<1> QED
  BY <1>1, <1>2, <1>3, <1>4 DEF OwnedInv

-----------------------------------------------------------------------------
(* The steps.                                                              *)

LEMMA InitInv == Init => Inv
<1> SUFFICES ASSUME Init PROVE Inv
  OBVIOUS
<1>1. file \in [size : FileSizes, rf64 : BOOLEAN, declared : Declared]
  BY DEF Init
<1>2. file.size \in 12 .. U64Max - 1 /\ U64Max \in Nat
  BY <1>1, LengthsAssumption
<1>3. TypeInv
  <2>1. NoDs64 \in [found : BOOLEAN, riff : Sizes, data : Sizes,
                    table : Tables \cup {<< >>}]
    BY <1>2 DEF NoDs64, Sizes
  <2>2. NoAudio \in [at : 0 .. file.size, len : Sizes]
    BY <1>2 DEF NoAudio, Sizes
  <2>3. next \in 12 .. U64Max /\ scan_end \in 0 .. file.size
    BY <1>2 DEF Init
  <2> QED
    BY <1>1, <2>1, <2>2, <2>3 DEF Init, TypeInv
<1>4. ReadsInv /\ OwnedInv
  BY DEF Init, ReadsInv, OwnedInv
<1>5. AudioInv /\ RiffInv
  BY DEF Init, AudioInv, AudioIsNotMetadata, RiffInv, TrailingChunksAreInsideRiff,
         FoundData
<1> QED
  BY <1>3, <1>4, <1>5 DEF Inv

\* The first ds64 behind the audio would move the end of the RIFF chunk, had
\* the walk not ended already.
LEMMA Ds64ChunkInv ==
    ASSUME Inv, NEW len \in Lengths, Ds64Chunk(len)
    PROVE  Inv'
<1>1. PICK sizes \in ParseDs64(len) : Ds64ChunkHolding(len, sizes)
  BY DEF Ds64Chunk
<1>2. /\ Walking /\ MoreToScan
      /\ next' = SatAdd(next, 8 + len + PadOf(len))
      /\ UNCHANGED <<file, status, scan_end, fmt, fact, audio>>
  BY <1>1 DEF Ds64ChunkHolding, AtChunk, Walking, ChunkHeaderSize
<1>3. len \in Nat /\ PadOf(len) \in {0, 1} /\ next \in Nat /\ next <= U64Max /\ U64Max \in Nat
  BY LengthsAssumption, FileFacts DEF Inv, PadOf
<1>4. /\ next' \in Nat /\ next' <= U64Max
      /\ next' = next + 8 + len + PadOf(len) \/ next' = U64Max
  <2>1. 8 + len + PadOf(len) \in Nat
    BY <1>3
  <2>2. /\ next' \in Sizes
        /\ next' = next + (8 + len + PadOf(len)) \/ next' = U64Max
    BY <1>2, <1>3, <2>1, SatAddFacts
  <2> QED
    BY <1>3, <2>2 DEF Sizes
<1>5. next' \in 12 .. U64Max /\ next' >= next
  BY <1>3, <1>4, FileFacts DEF Inv
<1>6. CASE ~HonorsDs64(len)
  <2>1. UNCHANGED <<ds64, bodies>>
    BY <1>1, <1>6 DEF Ds64ChunkHolding
  <2> QED
    BY <1>2, <1>5, <2>1, PassedOver
<1>7. CASE HonorsDs64(len)
  <2>1. /\ ds64' = sizes /\ ReadBody("ds64", len) /\ file.rf64 /\ ~ds64.found
        /\ SatAdd(next, 8 + len) <= file.size
    BY <1>1, <1>7 DEF Ds64ChunkHolding, HonorsDs64, ChunkHeaderSize
  <2>2. next + 8 + len <= file.size
    <3>1. 8 + len \in Nat
      BY <1>3
    <3>2. SatAdd(next, 8 + len) = next + (8 + len) \/ SatAdd(next, 8 + len) = U64Max
      BY <1>3, <3>1, SatAddFacts
    <3> QED
      BY <1>3, <2>1, <3>2, FileFacts DEF Inv
  <2>3. next' >= next + 8 + len
    BY <1>3, <1>4, <2>2, FileFacts DEF Inv
  <2>4. "ds64" \in Ids \ {"data"}
    BY IdsAssumption DEF Owned
  <2>5. /\ bodies' \subseteq [id : Ids \ {"data"}, at : Nat, len : Nat, after : BOOLEAN]
        /\ ReadsInv'
        /\ AudioInv'
        /\ \E new : /\ bodies' = bodies \cup {new}
                    /\ new.id = "ds64" /\ new.len = len /\ new.at = next + 8
                    /\ (new.after <=> FoundData)
    BY <1>2, <1>3, <1>4, <2>1, <2>2, <2>3, <2>4, Reading
  <2>6. PICK new : /\ bodies' = bodies \cup {new}
                   /\ new.id = "ds64" /\ new.len = len /\ new.at = next + 8
                   /\ (new.after <=> FoundData)
    BY <2>5
  <2>7. /\ sizes \in [found : BOOLEAN, riff : Sizes, data : Sizes, table : Tables \cup {<< >>}]
        /\ sizes.found
    <3>1. PICK r \in IF len < RiffSizeEnd THEN {0} ELSE Ds64Values,
               d \in IF len < DataSizeEnd THEN {0} ELSE Ds64Values,
               t \in IF len < TableEnd THEN {<< >>} ELSE Tables :
               sizes = [found |-> TRUE, riff |-> r, data |-> d, table |-> t]
      BY DEF ParseDs64
    <3>2. r \in Sizes /\ d \in Sizes /\ t \in Tables \cup {<< >>}
      BY LengthsAssumption DEF Sizes
    <3> QED
      BY <3>1, <3>2
  <2>8. TypeInv'
    BY <1>2, <1>5, <2>1, <2>5, <2>7 DEF Inv, TypeInv
  <2>9. OwnedInv'
    <3>1. \A b \in bodies : b.id # "ds64"
      BY <1>2, <2>1 DEF Inv, OwnedInv
    <3>2. fmt' = (fmt \/ (new.id = "fmt " /\ status' = "walking"))
          /\ fact' = (fact \/ new.id = "fact")
      BY <1>2, <2>6 DEF Inv, TypeInv
    <3>3. ds64'.found = (ds64.found \/ new.id = "ds64")
      BY <2>1, <2>6, <2>7
    <3> QED
      BY <1>2, <2>1, <2>6, <3>1, <3>2, <3>3, ReadingOwned
  <2>10. FoundData => RiffEnd' = RiffEnd
    <3>1. CASE file.rf64 /\ file.declared = U32Max
      <4>1. ds64 = NoDs64
        BY <2>1 DEF Inv, TypeInv
      <4>2. RiffEnd = 8
        BY <3>1, <4>1 DEF RiffEnd, NoDs64
      <4>3. RiffIsSized
        BY <3>1, <4>2, FileFacts DEF Inv, RiffIsSized
      <4>4. FoundData => scan_end <= 8
        BY <1>2, <4>2, <4>3 DEF Inv, RiffInv
      <4> QED
        BY <1>2, <4>4, FileFacts, MoreToScanFacts DEF Inv
    <3>2. CASE ~(file.rf64 /\ file.declared = U32Max)
      BY <1>2, <3>2 DEF RiffEnd
    <3> QED
      BY <3>1, <3>2
  <2>11. RiffInv'
    BY <1>2, <2>6, <2>10, ReadingRiff
  <2> QED
    BY <2>5, <2>8, <2>9, <2>11 DEF Inv
<1> QED
  BY <1>6, <1>7

LEMMA FactChunkInv ==
    ASSUME Inv, NEW len \in Lengths, FactChunk(len)
    PROVE  Inv'
<1> DEFINE n == BodyLen("fact", len)
<1>1. /\ Walking /\ MoreToScan /\ Advance(n)
      /\ UNCHANGED <<file, status, scan_end, ds64, fmt, audio>>
      /\ IF ~fact /\ BodyEnd(n) <= file.size
         THEN fact' = TRUE /\ ReadBody("fact", n)
         ELSE UNCHANGED <<fact, bodies>>
  BY DEF FactChunk, AtChunk, Walking
<1>2. "fact" \in Ids \ {"data"}
  BY IdsAssumption DEF Owned
<1>3. n \in Nat
  BY <1>2, BodyLenFacts DEF Inv
<1> HIDE DEF n
<1>4. /\ next' \in 12 .. U64Max /\ next' >= next
      /\ BodyEnd(n) <= file.size => next' >= next + 8 + n
  BY <1>1, <1>3, AdvanceFacts DEF Inv
<1>5. CASE ~(~fact /\ BodyEnd(n) <= file.size)
  BY <1>1, <1>4, <1>5, PassedOver
<1>6. CASE ~fact /\ BodyEnd(n) <= file.size
  <2>1. fact' = TRUE /\ ReadBody("fact", n)
    BY <1>1, <1>6
  <2>2. next + 8 + n <= file.size
    BY <1>1, <1>3, <1>6, BodyEndFacts DEF Inv
  <2>3. next' \in Nat /\ next' >= next + 8 + n
    BY <1>4, <1>6
  <2>4. /\ bodies' \subseteq [id : Ids \ {"data"}, at : Nat, len : Nat, after : BOOLEAN]
        /\ ReadsInv'
        /\ AudioInv'
        /\ \E new : /\ bodies' = bodies \cup {new}
                    /\ new.id = "fact" /\ new.len = n /\ new.at = next + 8
                    /\ (new.after <=> FoundData)
    BY <1>1, <1>2, <1>3, <2>1, <2>2, <2>3, Reading
  <2>5. PICK new : /\ bodies' = bodies \cup {new}
                   /\ new.id = "fact" /\ new.len = n /\ new.at = next + 8
                   /\ (new.after <=> FoundData)
    BY <2>4
  <2>6. TypeInv'
    BY <1>1, <1>4, <2>1, <2>4 DEF Inv, TypeInv
  <2>7. OwnedInv'
    <3>1. \A b \in bodies : b.id # "fact"
      BY <1>1, <1>6 DEF Inv, OwnedInv
    <3>2. /\ fmt' = (fmt \/ (new.id = "fmt " /\ status' = "walking"))
          /\ fact' = (fact \/ new.id = "fact")
          /\ ds64'.found = (ds64.found \/ new.id = "ds64")
      BY <1>1, <2>1, <2>5 DEF Inv, TypeInv
    <3> QED
      BY <1>1, <2>5, <3>1, <3>2, ReadingOwned
  <2>8. RiffInv'
    BY <1>1, <2>5, ReadingRiff DEF RiffEnd
  <2> QED
    BY <2>4, <2>6, <2>7, <2>8 DEF Inv
<1> QED
  BY <1>5, <1>6

LEMMA RejectFmtInv ==
    ASSUME Inv, NEW len \in Lengths, RejectFmt(len)
    PROVE  Inv'
<1> DEFINE n == BodyLen("fmt ", len)
<1>1. /\ Walking /\ MoreToScan /\ status' = "error"
      /\ UNCHANGED <<file, next, scan_end, ds64, fmt, fact, audio>>
      /\ ~fmt /\ BodyEnd(n) <= file.size /\ ReadBody("fmt ", n)
  BY DEF RejectFmt, AtChunk, TakesFmt, Walking
<1>2. "fmt " \in Ids \ {"data"}
  BY IdsAssumption DEF Owned
<1>3. n \in Nat
  BY <1>2, BodyLenFacts DEF Inv
<1> HIDE DEF n
<1>4. next + 8 + n <= file.size
  BY <1>1, <1>3, BodyEndFacts DEF Inv
<1>5. /\ bodies' \subseteq [id : Ids \ {"data"}, at : Nat, len : Nat, after : BOOLEAN]
      /\ ReadsInv'
      /\ AudioInv'
      /\ \E new : /\ bodies' = bodies \cup {new}
                  /\ new.id = "fmt " /\ new.len = n /\ new.at = next + 8
                  /\ (new.after <=> FoundData)
  BY <1>1, <1>2, <1>3, <1>4, Reading
<1>6. PICK new : /\ bodies' = bodies \cup {new}
                 /\ new.id = "fmt " /\ new.len = n /\ new.at = next + 8
                 /\ (new.after <=> FoundData)
  BY <1>5
<1>7. TypeInv'
  BY <1>1, <1>5 DEF Inv, TypeInv
<1>8. OwnedInv'
  <2>1. \A b \in bodies : b.id # "fmt "
    BY <1>1 DEF Inv, OwnedInv
  <2>2. /\ fmt' = (fmt \/ (new.id = "fmt " /\ status' = "walking"))
        /\ fact' = (fact \/ new.id = "fact")
        /\ ds64'.found = (ds64.found \/ new.id = "ds64")
        /\ new.id = "fmt " => new.len >= CoreSize \/ fmt' = fmt
    BY <1>1, <1>6 DEF Inv, TypeInv
  <2> QED
    BY <1>1, <1>6, <2>1, <2>2, ReadingOwned
<1>9. RiffInv'
  BY <1>1, <1>6, ReadingRiff DEF RiffEnd
<1> QED
  BY <1>5, <1>7, <1>8, <1>9 DEF Inv

LEMMA FmtChunkInv ==
    ASSUME Inv, NEW len \in Lengths, FmtChunk(len)
    PROVE  Inv'
<1> DEFINE n == BodyLen("fmt ", len)
<1>1. /\ Walking /\ MoreToScan /\ Advance(n)
      /\ UNCHANGED <<file, status, scan_end, ds64, fact, audio>>
      /\ IF TakesFmt(len)
         THEN n >= CoreSize /\ fmt' = TRUE /\ ReadBody("fmt ", n)
         ELSE UNCHANGED <<fmt, bodies>>
      /\ TakesFmt(len) => ~fmt /\ BodyEnd(n) <= file.size
  BY DEF FmtChunk, AtChunk, TakesFmt, Walking
<1>2. "fmt " \in Ids \ {"data"}
  BY IdsAssumption DEF Owned
<1>3. n \in Nat
  BY <1>2, BodyLenFacts DEF Inv
<1> HIDE DEF n
<1>4. /\ next' \in 12 .. U64Max /\ next' >= next
      /\ BodyEnd(n) <= file.size => next' >= next + 8 + n
  BY <1>1, <1>3, AdvanceFacts DEF Inv
<1>5. CASE ~TakesFmt(len)
  BY <1>1, <1>4, <1>5, PassedOver
<1>6. CASE TakesFmt(len)
  <2>1. /\ n >= CoreSize /\ fmt' = TRUE /\ ReadBody("fmt ", n)
        /\ ~fmt /\ BodyEnd(n) <= file.size
    BY <1>1, <1>6
  <2>2. next + 8 + n <= file.size
    BY <1>1, <1>3, <2>1, BodyEndFacts DEF Inv
  <2>3. next' \in Nat /\ next' >= next + 8 + n
    <3>1. BodyEnd(n) <= file.size
      BY <2>1
    <3> QED
      BY <1>4, <3>1
  <2>4. /\ bodies' \subseteq [id : Ids \ {"data"}, at : Nat, len : Nat, after : BOOLEAN]
        /\ ReadsInv'
        /\ AudioInv'
        /\ \E new : /\ bodies' = bodies \cup {new}
                    /\ new.id = "fmt " /\ new.len = n /\ new.at = next + 8
                    /\ (new.after <=> FoundData)
    BY <1>1, <1>2, <1>3, <2>1, <2>2, <2>3, Reading
  <2>5. PICK new : /\ bodies' = bodies \cup {new}
                   /\ new.id = "fmt " /\ new.len = n /\ new.at = next + 8
                   /\ (new.after <=> FoundData)
    BY <2>4
  <2>6. TypeInv'
    BY <1>1, <1>4, <2>1, <2>4 DEF Inv, TypeInv
  <2>7. OwnedInv'
    <3>1. \A b \in bodies : b.id # "fmt "
      BY <1>1, <2>1 DEF Inv, OwnedInv
    <3>2. /\ fmt' = (fmt \/ (new.id = "fmt " /\ status' = "walking"))
          /\ fact' = (fact \/ new.id = "fact")
          /\ ds64'.found = (ds64.found \/ new.id = "ds64")
          /\ new.id = "fmt " => new.len >= CoreSize \/ fmt' = fmt
      BY <1>1, <2>1, <2>5 DEF Inv, TypeInv, Walking
    <3> QED
      BY <1>1, <2>5, <3>1, <3>2, ReadingOwned
  <2>8. RiffInv'
    BY <1>1, <2>5, ReadingRiff DEF RiffEnd
  <2> QED
    BY <2>4, <2>6, <2>7, <2>8 DEF Inv
<1> QED
  BY <1>5, <1>6

LEMMA OtherChunkInv ==
    ASSUME Inv, NEW id \in Ids, NEW len \in Lengths, OtherChunk(id, len)
    PROVE  Inv'
<1> DEFINE n == BodyLen(id, len)
<1>1. /\ Walking /\ MoreToScan /\ Advance(n) /\ id \notin Owned
      /\ UNCHANGED <<file, status, scan_end, ds64, fmt, fact, audio>>
      /\ BodyEnd(n) <= file.size /\ ReadBody(id, n)
  BY DEF OtherChunk, AtChunk, Walking
<1>2. id \in Ids \ {"data"} /\ id \notin {"fmt ", "fact", "ds64"}
  BY <1>1 DEF Owned
<1>3. n \in Nat
  BY BodyLenFacts DEF Inv
<1> HIDE DEF n
<1>4. next' \in 12 .. U64Max /\ next' >= next + 8 + n /\ next + 8 + n <= file.size
  BY <1>1, <1>3, AdvanceFacts, BodyEndFacts DEF Inv
<1>5. next' \in Nat
  BY <1>4
<1>6. /\ bodies' \subseteq [id : Ids \ {"data"}, at : Nat, len : Nat, after : BOOLEAN]
      /\ ReadsInv'
      /\ AudioInv'
      /\ \E new : /\ bodies' = bodies \cup {new}
                  /\ new.id = id /\ new.len = n /\ new.at = next + 8
                  /\ (new.after <=> FoundData)
  BY <1>1, <1>2, <1>3, <1>4, <1>5, Reading
<1>7. PICK new : /\ bodies' = bodies \cup {new}
                 /\ new.id = id /\ new.len = n /\ new.at = next + 8
                 /\ (new.after <=> FoundData)
  BY <1>6
<1>8. TypeInv'
  BY <1>1, <1>4, <1>6 DEF Inv, TypeInv
<1>9. OwnedInv'
  <2>1. /\ fmt' = (fmt \/ (new.id = "fmt " /\ status' = "walking"))
        /\ fact' = (fact \/ new.id = "fact")
        /\ ds64'.found = (ds64.found \/ new.id = "ds64")
    BY <1>1, <1>2, <1>7 DEF Inv, TypeInv
  <2> QED
    BY <1>1, <1>2, <1>7, <2>1, ReadingOwned
<1>10. RiffInv'
  BY <1>1, <1>7, ReadingRiff DEF RiffEnd
<1> QED
  BY <1>6, <1>8, <1>9, <1>10 DEF Inv

\* What was read ahead of the audio ends where the data chunk begins.
LEMMA AudioFound ==
    ASSUME Inv, Walking, MoreToScan, ~FoundData, NEW n \in Sizes,
           audio' = [at |-> next + 8, len |-> n],
           UNCHANGED <<file, bodies>>,
           status' = "walking" => next' >= next + 8 + n \/ next' = U64Max
    PROVE  /\ audio' \in [at : 0 .. file.size, len : Sizes]
           /\ FoundData'
           /\ AudioInv'
<1>1. /\ next \in Nat /\ next >= 12 /\ next + 8 <= file.size /\ file.size \in Nat
  BY FileFacts, MoreToScanFacts DEF Inv
<1>2. audio'.at = next + 8 /\ audio'.len = n
  OBVIOUS
<1>3. audio' \in [at : 0 .. file.size, len : Sizes]
  BY <1>1
<1>4. FoundData'
  BY <1>1, <1>2 DEF FoundData, NoAudio
<1>5. \A b \in bodies : ~b.after /\ b.at + b.len <= next
  BY DEF Inv, AudioInv, ReadsInv
<1>6. \A b \in bodies : b.at \in Nat /\ b.len \in Nat
  BY DEF Inv, TypeInv
<1>7. AudioIsNotMetadata'
  BY <1>1, <1>2, <1>5, <1>6 DEF AudioIsNotMetadata
<1> QED
  BY <1>2, <1>3, <1>4, <1>7 DEF AudioInv, Walking

LEMMA OpenEndedDataInv ==
    ASSUME Inv, NEW len \in Lengths, OpenEndedData(len)
    PROVE  Inv'
<1>1. /\ Walking /\ MoreToScan /\ ~FoundData /\ status' = "stopped"
      /\ audio' = [at |-> next + 8, len |-> len]
      /\ UNCHANGED <<file, next, scan_end, ds64, fmt, fact, bodies>>
  BY DEF OpenEndedData, AtChunk, Walking, ChunkHeaderSize
<1>2. len \in Sizes
  BY LengthsAssumption DEF Sizes
<1>3. audio' \in [at : 0 .. file.size, len : Sizes] /\ AudioInv'
  BY <1>1, <1>2, AudioFound
<1>4. TypeInv'
  BY <1>1, <1>3 DEF Inv, TypeInv
<1>5. ReadsInv' /\ OwnedInv'
  BY <1>1 DEF Inv, ReadsInv, OwnedInv, Walking, Overlap
<1>6. RiffInv'
  BY <1>1 DEF Inv, AudioInv, RiffInv, TrailingChunksAreInsideRiff, Walking
<1> QED
  BY <1>3, <1>4, <1>5, <1>6 DEF Inv

\* From the audio on, the walk ends with the RIFF chunk.
LEMMA ScanEndFacts ==
    ASSUME TypeInv
    PROVE  /\ ScanEndAfterData \in 0 .. file.size
           /\ RiffIsSized => ScanEndAfterData <= RiffEnd
<1> DEFINE riff_size == IF file.rf64 /\ file.declared = U32Max THEN ds64.riff
                        ELSE file.declared
<1>1. riff_size \in Nat /\ scan_end \in 0 .. file.size /\ file.size \in Nat
        /\ file.size < U64Max /\ U64Max \in Nat
  BY FileFacts DEF TypeInv, Sizes
<1>2. RiffEnd = riff_size + 8
  BY DEF RiffEnd
<1>3. ScanEndAfterData =
        IF (file.rf64 \/ file.declared # U32Max) /\ SatAdd(riff_size, 8) <= file.size
        THEN SatAdd(riff_size, 8) ELSE scan_end
  BY DEF ScanEndAfterData
<1> HIDE DEF riff_size
<1>4. /\ SatAdd(riff_size, 8) \in Nat
      /\ SatAdd(riff_size, 8) <= riff_size + 8
  <2>1. /\ SatAdd(riff_size, 8) \in Sizes
        /\ SatAdd(riff_size, 8) <= riff_size + 8
    BY <1>1, SatAddFacts
  <2> QED
    BY <2>1 DEF Sizes
<1>5. ScanEndAfterData \in 0 .. file.size
  BY <1>1, <1>3, <1>4
<1>6. ASSUME RiffIsSized
      PROVE  ScanEndAfterData <= RiffEnd
  <2>1. (file.rf64 \/ file.declared # U32Max) /\ riff_size + 8 <= file.size
    BY <1>2, <1>6 DEF RiffIsSized
  <2>2. SatAdd(riff_size, 8) <= file.size
    BY <1>1, <1>4, <2>1
  <2> QED
    BY <1>2, <1>3, <1>4, <2>1, <2>2
<1> QED
  BY <1>5, <1>6

LEMMA DataChunkInv ==
    ASSUME Inv, NEW len \in Lengths, DataChunk(len)
    PROVE  Inv'
<1> DEFINE n == BodyLen("data", len)
<1>1. /\ Walking /\ MoreToScan /\ Advance(n)
      /\ UNCHANGED <<file, status, ds64, fmt, fact, bodies>>
      /\ FoundData => UNCHANGED <<audio, scan_end>>
      /\ ~FoundData => /\ audio' = [at |-> next + 8, len |-> n]
                       /\ scan_end' = ScanEndAfterData
  BY DEF DataChunk, AtChunk, Walking, ChunkHeaderSize
<1>2. n \in Sizes /\ n \in Nat
  <2>1. "data" \in Ids
    BY IdsAssumption DEF Owned
  <2> QED
    BY <2>1, BodyLenFacts DEF Inv
<1> HIDE DEF n
<1>3. /\ next' \in 12 .. U64Max /\ next' >= next
      /\ next' >= next + 8 + n \/ next' = U64Max
  BY <1>1, <1>2, AdvanceFacts DEF Inv
<1>4. CASE FoundData
  BY <1>1, <1>3, <1>4, PassedOver
<1>5. CASE ~FoundData
  <2>1. audio' = [at |-> next + 8, len |-> n] /\ scan_end' = ScanEndAfterData
    BY <1>1, <1>5
  <2>2. audio' \in [at : 0 .. file.size, len : Sizes] /\ AudioInv' /\ FoundData'
    BY <1>1, <1>2, <1>3, <1>5, <2>1, AudioFound
  <2>3. scan_end' \in 0 .. file.size /\ (RiffIsSized => scan_end' <= RiffEnd)
    BY <2>1, ScanEndFacts DEF Inv
  <2>4. TypeInv'
    BY <1>1, <1>3, <2>2, <2>3 DEF Inv, TypeInv
  <2>5. ReadsInv'
    <3>1. next \in Nat /\ next' \in Nat /\ \A b \in bodies : b.at \in Nat /\ b.len \in Nat
      BY <1>3, FileFacts DEF Inv, TypeInv
    <3> QED
      BY <1>1, <1>3, <3>1 DEF Inv, ReadsInv, Walking, Overlap
  <2>6. OwnedInv'
    BY <1>1 DEF Inv, OwnedInv, Walking
  <2>7. RiffInv'
    <3>1. \A b \in bodies : ~b.after
      BY <1>5 DEF Inv, AudioInv
    <3>2. (RiffIsSized)' = RiffIsSized /\ RiffEnd' = RiffEnd
      BY <1>1 DEF RiffIsSized, RiffEnd
    <3> QED
      BY <1>1, <2>3, <3>1, <3>2 DEF RiffInv, TrailingChunksAreInsideRiff
  <2> QED
    BY <2>2, <2>4, <2>5, <2>6, <2>7 DEF Inv
<1> QED
  BY <1>4, <1>5

LEMMA NextInv == Inv /\ [Next]_vars => Inv'
<1> SUFFICES ASSUME Inv, [Next]_vars PROVE Inv'
  OBVIOUS
<1>1. CASE UNCHANGED vars
  <2>1. TypeInv' /\ ReadsInv'
    BY <1>1 DEF vars, Inv, TypeInv, ReadsInv, Walking, Overlap
  <2>2. AudioInv'
    BY <1>1 DEF vars, Inv, AudioInv, AudioIsNotMetadata, FoundData, Walking
  <2>3. OwnedInv' /\ RiffInv'
    BY <1>1 DEF vars, Inv, OwnedInv, RiffInv, Walking, FoundData, RiffIsSized, RiffEnd,
                TrailingChunksAreInsideRiff
  <2> QED
    BY <2>1, <2>2, <2>3 DEF Inv
<1>2. ASSUME NEW len \in Lengths, Iteration(len)
      PROVE  Inv'
  <2>1. CASE Ds64Chunk(len)
    BY <2>1, Ds64ChunkInv
  <2>2. CASE FactChunk(len)
    BY <2>2, FactChunkInv
  <2>3. CASE FmtChunk(len)
    BY <2>3, FmtChunkInv
  <2>4. CASE RejectFmt(len)
    BY <2>4, RejectFmtInv
  <2>5. CASE OpenEndedData(len)
    BY <2>5, OpenEndedDataInv
  <2>6. CASE DataChunk(len)
    BY <2>6, DataChunkInv
  <2>7. ASSUME NEW id \in Ids, OtherChunk(id, len)
        PROVE  Inv'
    BY <2>7, OtherChunkInv
  <2>8. ASSUME NEW id \in Ids, CutOffChunk(id, len)
        PROVE  Inv'
    BY <2>8, Stopping DEF CutOffChunk
  <2> QED
    BY <1>2, <2>1, <2>2, <2>3, <2>4, <2>5, <2>6, <2>7, <2>8 DEF Iteration
<1>3. CASE WalkedIntoAudio
  BY <1>3, Stopping DEF WalkedIntoAudio
<1>4. CASE Result
  BY <1>4, Stopping DEF Result
<1> QED
  BY <1>1, <1>2, <1>3, <1>4 DEF Next

LEMMA Invariance == Spec => []Inv
BY InitInv, NextInv, PTL DEF Spec

-----------------------------------------------------------------------------

\* Every variable of the walk keeps its type (read_wav_header).
THEOREM WalkTypeCorrect == Spec => []TypeOK
<1>1. Inv => TypeOK
  <2> SUFFICES ASSUME Inv PROVE TypeOK
    OBVIOUS
  <2>1. ds64 # NoDs64 => ds64.found /\ file.rf64 /\ ds64.table \in Tables \cup {<< >>}
    BY DEF Inv, TypeInv
  <2> QED
    BY <2>1 DEF Inv, TypeInv, TypeOK, Sizes
<1> QED
  BY <1>1, Invariance, PTL

\* What read_wav_header reads into memory is inside the file, and nothing is
\* read twice, whatever the lengths in the file.
THEOREM ReadsAreBounded == Spec => []ReadsAreBoundedByTheFile
<1>1. Inv => ReadsAreBoundedByTheFile
  BY DEF Inv, ReadsInv, ReadsAreBoundedByTheFile
<1> QED
  BY <1>1, Invariance, PTL

\* No byte of the audio is handed out as metadata, and no chunk is listed on
\* the wrong side of it (chunks_before, chunks_after).
THEOREM AudioIsKept == Spec => []AudioIsNotMetadata
<1>1. Inv => AudioIsNotMetadata
  BY DEF Inv, AudioInv
<1> QED
  BY <1>1, Invariance, PTL

LEMMA AtMostOne ==
    ASSUME NEW S, \A x, y \in S : x = y
    PROVE  Cardinality(S) <= 1
<1>1. CASE S = {}
  <2>1. Cardinality(S) = 0
    BY <1>1, FS_EmptySet
  <2> QED
    BY <2>1
<1>2. CASE S # {}
  <2>1. PICK x : S = {x}
    BY <1>2
  <2>2. Cardinality(S) = 1
    BY <2>1, FS_Singleton
  <2> QED
    BY <2>2
<1> QED
  BY <1>1, <1>2

\* The walk reads at most one fmt, fact and ds64 chunk, and no data chunk.
THEOREM OwnedAreConsumed == Spec => []OwnedChunksAreConsumed
<1>1. Inv => OwnedChunksAreConsumed
  <2> SUFFICES ASSUME Inv PROVE OwnedChunksAreConsumed
    OBVIOUS
  <2>1. ASSUME NEW id \in Owned
        PROVE  Cardinality({b \in bodies : b.id = id}) <= 1
    BY AtMostOne DEF Inv, OwnedInv
  <2> QED
    BY <2>1 DEF Inv, OwnedInv, OwnedChunksAreConsumed
<1> QED
  BY <1>1, Invariance, PTL

\* Behind the audio, the walk stays inside a RIFF chunk that the file holds.
THEOREM TrailingAreInsideRiff == Spec => []TrailingChunksAreInsideRiff
<1>1. Inv => TrailingChunksAreInsideRiff
  BY DEF Inv, RiffInv
<1> QED
  BY <1>1, Invariance, PTL

\* The audio and the sizes are settled by the first data and ds64 chunk.
THEOREM FirstDecides == Spec => FirstChunkDecides
<1>1. [Next]_vars => [/\ FoundData => audio' = audio
                      /\ ds64.found => ds64' = ds64]_vars
  <2> SUFFICES ASSUME Next
               PROVE  (FoundData => audio' = audio) /\ (ds64.found => ds64' = ds64)
    OBVIOUS
  <2>1. ASSUME NEW len \in Lengths, Iteration(len)
        PROVE  (FoundData => audio' = audio) /\ (ds64.found => ds64' = ds64)
    <3>1. CASE Ds64Chunk(len)
      BY <3>1 DEF Ds64Chunk, Ds64ChunkHolding, HonorsDs64
    <3>2. CASE FactChunk(len) \/ FmtChunk(len) \/ RejectFmt(len)
      BY <3>2 DEF FactChunk, FmtChunk, RejectFmt
    <3>3. CASE OpenEndedData(len) \/ DataChunk(len)
      BY <3>3 DEF OpenEndedData, DataChunk
    <3>4. CASE \E id \in Ids : OtherChunk(id, len) \/ CutOffChunk(id, len)
      BY <3>4 DEF OtherChunk, CutOffChunk
    <3> QED
      BY <2>1, <3>1, <3>2, <3>3, <3>4 DEF Iteration
  <2>2. CASE WalkedIntoAudio \/ Result
    BY <2>2 DEF WalkedIntoAudio, Result
  <2> QED
    BY <2>1, <2>2 DEF Next
<1> QED
  BY <1>1, PTL DEF Spec, FirstChunkDecides
=============================================================================
