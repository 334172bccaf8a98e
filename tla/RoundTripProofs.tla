-------------------------- MODULE RoundTripProofs --------------------------
(***************************************************************************)
(* A file the writer made, read by the parser, for every choice of the     *)
(* constants of RoundTrip: every request, every chunk, every amount of     *)
(* audio and every pair of limits.                                         *)
(*                                                                         *)
(* A property of a walk over a file is about the whole file, so the        *)
(* inductive invariant has to describe the file, and then say how much of  *)
(* it the walk has seen.  It has four parts, behind the Inv of             *)
(* HeaderWriterProofs:                                                     *)
(*   HeaderInv  the header is a row of chunks, each where the one before   *)
(*              it ends (Laid), every field in it belongs to one of them,  *)
(*              and the offsets kept are those of fields (OffsetsInv);     *)
(*   WriterInv  the chunks attached are such a row behind the padded audio *)
(*              (TailInv), and what was patched is the front of a patch    *)
(*              list whose sizes agree with one another (PatchedInv,       *)
(*              PatchesInv), wherever the writer was killed;               *)
(*   ReadInv    the walk stands at the head of a chunk of the one row or   *)
(*              the other, has kept the bodies of those before it and no   *)
(*              others, and ends where the file or one of its chunks does  *)
(*              (a torn RIFF size, which no data size goes with yet, may   *)
(*              let it end anywhere);                                      *)
(*   CopyInv    a copy asks for a header that is accepted, and has         *)
(*              supplied no more than the audio and the front of the       *)
(*              chunks behind it that were read.                           *)
(*                                                                         *)
(* The parts are in the order of the life of a file: the header is laid,   *)
(* the writer goes on behind it, the walk goes over both.                  *)
(***************************************************************************)
EXTENDS RoundTrip, HeaderWriterProofs, FiniteSetTheorems

-----------------------------------------------------------------------------
(* The header.                                                             *)

\* The chunks of a header behind its first 12 bytes: the writer's own ones,
\* then the leading ones.
OwnCount == IF req.rf64 \/ FactToWrite # "nothing" THEN 2 ELSE 1

ChunkCount == OwnCount + Len(req.leading)

IdOf(i) ==
    IF i > OwnCount THEN req.leading[i - OwnCount].id
    ELSE IF i = 1 THEN (IF req.rf64 THEN "ds64" ELSE "fmt ")
    ELSE (IF req.rf64 THEN "fmt " ELSE "fact")

LenOf(i) ==
    IF i > OwnCount THEN req.leading[i - OwnCount].size
    ELSE IF i = 1 THEN (IF req.rf64 THEN 28 ELSE FmtBodySize)
    ELSE IF req.rf64 THEN FmtBodySize
    ELSE IF FactToWrite = "verbatim" THEN req.fact.len ELSE 4

SizeOf(i, start) == SizeField(IdOf(i), start + 4, "size", LenOf(i))

RiffField == SizeField("RIFF", 4, IF req.rf64 THEN "marker" ELSE "unset", 4)

DataField ==
    SizeField("data", header_len - 4, IF req.rf64 THEN "marker" ELSE "unset", 0)

\* Where the count of a RIFF file is.
CountAt == 20 + FmtLen

\* The numbers that are not the size of a chunk.
Numbers ==
    IF req.rf64
    THEN {Field("ds64", "riffSize", 20, 8, "unset", 0),
          Field("ds64", "dataSize", 28, 8, "unset", 0),
          Field("ds64", "sampleCount", 36, 8, "zero", 0)}
    ELSE IF FactToWrite = "counted"
    THEN {Field("fact", "dwSampleLength", CountAt, 4, "unset", U32Max)}
    ELSE IF FactToWrite = "fixed"
    THEN {Field("fact", "dwSampleLength", CountAt, 4, "fixed", req.fact.count)}
    ELSE {}

\* One chunk behind the other: at[i] is where chunk i is, the last of at where
\* the next one will be.
Contiguous(at) ==
    /\ at[1] = 12
    /\ \A i \in 1 .. Len(at) - 1 : at[i + 1] = at[i] + ChunkLen(LenOf(i))
    /\ \A i, j \in 1 .. Len(at) : i < j => at[i] + 8 <= at[j]
    /\ at[Len(at)] = (IF stage = "done" THEN header_len - 8 ELSE emitted)

\* Which chunks there are at each stage.
Reached(at) ==
    /\ stage = "ds64" => Len(at) = 1
    /\ stage = "fmt" => Len(at) = (IF req.rf64 THEN 2 ELSE 1)
    /\ stage = "fact" => Len(at) = 2
    /\ stage = "leading" => Len(at) = OwnCount + written + 1
    /\ stage = "done" => Len(at) = ChunkCount + 1

Accounted(at, f) ==
    \/ f.name \in {"id", "form", "table"}
    \/ f = RiffField
    \/ \E i \in 1 .. Len(at) - 1 : f = SizeOf(i, at[i])
    \/ stage = "done" /\ f = DataField
    \/ f \in Numbers

Laid(at) ==
    /\ Acceptable
    /\ at \in Seq(Nat) /\ Len(at) \in 1 .. ChunkCount + 1
    /\ Contiguous(at)
    /\ Reached(at)
    /\ RiffField \in fields
    /\ \A i \in 1 .. Len(at) - 1 : SizeOf(i, at[i]) \in fields
    /\ stage = "done" => DataField \in fields
    /\ req.rf64 /\ Len(at) > 1 => Numbers \subseteq fields
    /\ \A f \in fields : Accounted(at, f)

OffsetsInv ==
    /\ req.rf64 /\ stage \in {"fmt", "leading", "done"} =>
            offsets.riff = 20 /\ offsets.data = 28 /\ offsets.count = 36
    /\ ~req.rf64 /\ stage \in {"riff", "fmt", "fact"} => offsets.count = Absent
    /\ ~req.rf64 /\ stage \in {"leading", "done"} =>
            offsets.count = (IF FactToWrite = "counted" THEN CountAt ELSE Absent)
    /\ ~req.rf64 /\ stage = "done" => offsets.riff = 4 /\ offsets.data = header_len - 4

\* What was checked on the way.
CheckedInv ==
    /\ stage \in {"fact", "leading", "done"} => req.fmt.extension <= U16Max
    /\ stage \in {"leading", "done"} /\ ~req.rf64 => ~FactTooLarge
    /\ stage \in {"check", "riff", "ds64", "fmt", "fact"} => written = 0

HeaderInv ==
    /\ emitted # 0 => \E at \in Seq(Nat) : Laid(at)
    /\ OffsetsInv
    /\ CheckedInv

-----------------------------------------------------------------------------
(* Behind the header.                                                      *)

EndOf(c) == c.at + ChunkLen(c.size)

TailInv ==
    /\ tail \in Seq([id : STRING, size : Nat, at : Nat])
    /\ \A i \in DOMAIN tail : tail[i].id \notin ReservedIds \cup {Walk!NoId}
    /\ \A i \in DOMAIN tail : tail[i].size <= U32Max
    /\ tail # << >> => tail[1].at = AudioEnd + PadOf(recorded)
    /\ \A i \in 1 .. Len(tail) - 1 : tail[i + 1].at = EndOf(tail[i])
    /\ \A i, j \in DOMAIN tail : i < j => EndOf(tail[i]) <= tail[j].at

AudioInv ==
    /\ recorded \in Nat
    /\ req.seekable /\ ~req.rf64 /\ recorded # 0 => AudioEnd - 8 <= U32Max

\* Nothing follows a header that is not whole.
NothingYet ==
    stage # "done" =>
        /\ recorded = 0 /\ tail = << >> /\ patches = << >> /\ patched = << >>
        /\ promised = 0 /\ life \in {"writing", "killed"}

\* What is ever patched.
Spots ==
    {offsets.riff, offsets.data}
        \cup (IF Counting \/ HasFixedCount THEN {offsets.count} ELSE {})

HalfPatched == patches # << >> /\ Len(patches) = Len(PatchList) - 1

\* The patches before k are in the file, the others still to be written.
Patching(k) ==
    /\ Len(patches) = Len(PatchList) - k
    /\ \A i \in DOMAIN patches : patches[i] = PatchList[k + i]
    /\ \A i \in 1 .. k : /\ PatchList[i].at \in DOMAIN patched
                         /\ patched[PatchList[i].at] = PatchList[i].number

Whole ==
    \A i \in DOMAIN PatchList : /\ PatchList[i].at \in DOMAIN patched
                                /\ patched[PatchList[i].at] = PatchList[i].number

\* A RIFF size goes with a data size: it ends with the audio as that says, or
\* with a chunk behind all the audio there is.
Agree(end, d) ==
    \/ end = header_len + d
    \/ d = recorded /\ \E i \in DOMAIN tail : end = EndOf(tail[i])

PatchedInv ==
    /\ DOMAIN patched \subseteq Spots
    /\ ~req.seekable => patched = << >> /\ patches = << >>
    /\ offsets.data \in DOMAIN patched =>
            /\ offsets.riff \in DOMAIN patched
            /\ patched[offsets.data] \in promised .. recorded
    /\ offsets.data \notin DOMAIN patched => promised = 0
    /\ promised \in Nat
    /\ offsets.riff \in DOMAIN patched => patched[offsets.riff] \in Nat
    /\ ~HalfPatched /\ offsets.riff \in DOMAIN patched =>
            /\ offsets.data \in DOMAIN patched
            /\ Agree(patched[offsets.riff] + 8, patched[offsets.data])

PatchesInv ==
    /\ patches \in Seq([at : Int, number : Int])
    /\ patches # << >> => \E k \in 0 .. Len(PatchList) - 1 : Patching(k)
    /\ life \in {"writing", "finalized", "released", "killed"}
    /\ life \in {"finalized", "released"} => patches = << >>
    /\ life = "finalized" => req.seekable /\ Whole

WriterInv ==
    /\ TailInv /\ AudioInv /\ NothingYet
    /\ stage = "done" => PatchedInv
    /\ PatchesInv

-----------------------------------------------------------------------------
(* The walk.                                                               *)

\* The data size and the RIFF size, as the file has them.
DataLen ==
    IF offsets.data \in DOMAIN patched THEN patched[offsets.data]
    ELSE IF req.rf64 THEN 0 ELSE U32Max

RiffLen ==
    IF offsets.riff \in DOMAIN patched THEN patched[offsets.riff]
    ELSE IF req.rf64 THEN 0 ELSE U32Max

FileKnown ==
    /\ file.size = FileEnd /\ file.rf64 = req.rf64
    /\ stage = "done" => file.declared = (IF req.rf64 THEN U32Max ELSE RiffLen)

HeadBody(i, start) ==
    [id |-> IdOf(i), at |-> start + 8, len |-> LenOf(i), after |-> FALSE]

TailBody(c) == [id |-> c.id, at |-> c.at + 8, len |-> c.size, after |-> TRUE]

HasFact == ~req.rf64 /\ FactToWrite # "nothing"

Ds64Now == [found |-> TRUE, riff |-> RiffLen, data |-> DataLen, table |-> << >>]

\* The walk has passed the chunks of the header before k.
Passed(at, k) ==
    /\ {b \in bodies : ~b.after} = {HeadBody(i, at[i]) : i \in 1 .. k - 1}
    /\ fmt = (\E i \in 1 .. k - 1 : IdOf(i) = "fmt ")
    /\ IF req.rf64 /\ k > 1
       THEN ds64.found /\ ds64.table = << >> /\ (stage = "done" => ds64 = Ds64Now)
       ELSE ds64 = Walk!NoDs64

InHeader(at, k) ==
    /\ next = at[k] /\ scan_end = FileEnd /\ audio = Walk!NoAudio
    /\ \A b \in bodies : ~b.after
    /\ Passed(at, k)
    /\ fact = (HasFact /\ k > 2)

\* The walk has passed j chunks behind the audio.
InTail(j) ==
    /\ {b \in bodies : b.after} = {TailBody(tail[i]) : i \in 1 .. j}
    /\ IF ~req.rf64 /\ offsets.data \notin DOMAIN patched
       THEN status # "walking" /\ j = 0
       ELSE /\ status # "stopped"
            /\ \/ /\ next + 8 > scan_end
                  /\ life = "finalized" => j = Len(tail)
               \/ /\ status = "walking" /\ j < Len(tail) /\ next = tail[j + 1].at
                  /\ \E t \in j + 1 .. Len(tail) :
                        /\ scan_end = EndOf(tail[t])
                        /\ life = "finalized" => t = Len(tail)

PastHeader(at) ==
    /\ stage = "done"
    /\ audio = [at |-> header_len, len |-> DataLen]
    /\ Passed(at, Len(at))
    /\ ~Torn => /\ next \in Nat /\ scan_end \in 0 .. FileEnd
                /\ fact <=> HasFact
                /\ \E j \in 0 .. Len(tail) : InTail(j)

ReadInv ==
    /\ status \in {"unread", "walking", "stopped", "ok", "error"}
    /\ status = "unread" =>
            /\ ds64 = Walk!NoDs64 /\ fmt = FALSE /\ fact = FALSE
            /\ audio = Walk!NoAudio /\ bodies = {}
    /\ status # "unread" => life # "writing" /\ FileKnown /\ FileEnd < U64Max
    /\ status = "error" => stage # "done"
    /\ status = "walking" =>
            /\ emitted # 0
            /\ \E at \in Seq(Nat) :
                    /\ Laid(at)
                    /\ PastHeader(at) \/ \E k \in 1 .. Len(at) : InHeader(at, k)
    /\ status \in {"stopped", "ok"} =>
            \E at \in Seq(Nat) : Laid(at) /\ PastHeader(at)

-----------------------------------------------------------------------------
(* The copy.                                                               *)

SameChunk(c, d) == c.id = d.id /\ c.size = d.size

CopyInv ==
    Copying =>
        /\ Acceptable /\ req.fmt.extension <= U16Max /\ ~FactTooLarge
        /\ stage # "failed"
        /\ source = [fact |-> source.fact, before |-> req.leading, after |-> source.after,
                     len |-> source.len]
        /\ req.fact.kind \in {"Body", "None"}
        /\ req.rf64 => req.fact.kind = "None"
        /\ source.fact = (IF req.fact.kind = "None" THEN Absent ELSE req.fact.len)
        /\ source.after \in Seq([id : STRING, size : Nat])
        /\ \A i \in DOMAIN source.after : source.after[i].id # Walk!NoId
        /\ source.len \in Nat
        /\ ~req.seekable => source.after = << >> /\ source.len <= U32Max
        /\ recorded <= source.len
        /\ Len(tail) <= Len(source.after)
        /\ \A i \in DOMAIN tail : SameChunk(tail[i], source.after[i])
        /\ tail # << >> => recorded = source.len
        /\ life \in {"writing", "finalized", "released"}
        /\ life = "released" => ~req.seekable
        /\ patches # << >> \/ life # "writing" =>
                recorded = source.len /\ Len(tail) = Len(source.after)

RInv == HeaderInv /\ WriterInv /\ ReadInv /\ CopyInv

-----------------------------------------------------------------------------
(* The header is laid out.                                                 *)

\* What the chunks are depends on the request alone.
LEMMA SamePlan ==
    ASSUME req' = req
    PROVE  /\ OwnCount' = OwnCount /\ ChunkCount' = ChunkCount
           /\ \A i : IdOf(i)' = IdOf(i) /\ LenOf(i)' = LenOf(i)
           /\ \A i, s : SizeOf(i, s)' = SizeOf(i, s)
           /\ RiffField' = RiffField /\ Numbers' = Numbers /\ CountAt' = CountAt
           /\ FactToWrite' = FactToWrite /\ (FactTooLarge' <=> FactTooLarge)
           /\ (HasFact' <=> HasFact) /\ (Acceptable' <=> Acceptable)
<1>1. FactToWrite' = FactToWrite
  BY DEF FactToWrite, FactBody
<1>2. FmtBodySize' = FmtBodySize /\ FmtLen' = FmtLen
  BY DEF FmtBodySize, FmtLen
<1>3. OwnCount' = OwnCount /\ ChunkCount' = ChunkCount /\ CountAt' = CountAt
  BY <1>1, <1>2 DEF OwnCount, ChunkCount, CountAt
<1>4. \A i : IdOf(i)' = IdOf(i) /\ LenOf(i)' = LenOf(i)
  BY <1>1, <1>2, <1>3 DEF IdOf, LenOf
<1>5. \A i, s : SizeOf(i, s)' = SizeOf(i, s)
  BY <1>4 DEF SizeOf
<1>6. RiffField' = RiffField
  BY DEF RiffField
<1>7. Numbers' = Numbers
  BY <1>1, <1>3 DEF Numbers
<1>8. (FactTooLarge' <=> FactTooLarge) /\ (HasFact' <=> HasFact)
  BY <1>1 DEF FactTooLarge, HasFact
<1>9. Acceptable' <=> Acceptable
  BY DEF Acceptable
<1> QED
  BY <1>1, <1>3, <1>4, <1>5, <1>6, <1>7, <1>8, <1>9

\* What an acceptable request asks for: how many chunks, and that they have ids
\* and sizes.
LEMMA PlanFacts ==
    ASSUME req \in RequestType, Acceptable
    PROVE  /\ OwnCount \in {1, 2} /\ Len(req.leading) \in Nat /\ ChunkCount \in Nat
           /\ FmtBodySize \in Nat /\ FmtBodySize >= 16
           /\ ChunkCount = OwnCount + Len(req.leading)
           /\ \A i \in 1 .. ChunkCount :
                /\ LenOf(i) \in Nat /\ ChunkLen(LenOf(i)) \in Nat
                /\ ChunkLen(LenOf(i)) >= 8 + LenOf(i)
                /\ i > OwnCount => /\ i - OwnCount \in DOMAIN req.leading
                                   /\ IdOf(i) = req.leading[i - OwnCount].id
                                   /\ LenOf(i) = req.leading[i - OwnCount].size
                                   /\ IdOf(i) \in STRING
                                   /\ IdOf(i) \notin ReservedIds
<1>1. OwnCount \in {1, 2}
  BY DEF OwnCount
<1>2. /\ req.leading \in Seq([id : STRING, size : Nat]) /\ Len(req.leading) \in Nat
      /\ req.fact.len \in Nat
  BY RequestFacts DEF Fact
<1>3. FmtBodySize \in Nat /\ FmtBodySize >= 16
  <2>1. req.fmt.extension \in Nat \cup {Absent}
    BY RequestFacts DEF Fmt
  <2> QED
    BY <2>1 DEF FmtBodySize, Absent
<1>4. ChunkCount = OwnCount + Len(req.leading) /\ ChunkCount \in Nat
  BY <1>1, <1>2 DEF ChunkCount
<1>5. ASSUME NEW i \in 1 .. ChunkCount, i > OwnCount
      PROVE  /\ i - OwnCount \in DOMAIN req.leading
             /\ IdOf(i) = req.leading[i - OwnCount].id
             /\ LenOf(i) = req.leading[i - OwnCount].size
             /\ IdOf(i) \in STRING /\ LenOf(i) \in Nat
             /\ IdOf(i) \notin ReservedIds
  <2>1. i - OwnCount \in 1 .. Len(req.leading)
    BY <1>1, <1>2, <1>4, <1>5
  <2>2. req.leading[i - OwnCount] \in [id : STRING, size : Nat]
    BY <1>2, <2>1, ElementOfSeq
  <2>3. i - OwnCount \in DOMAIN req.leading
    BY <1>2, <2>1
  <2>4. Suppliable(req.leading[i - OwnCount], U32Max)
    BY <2>3 DEF Acceptable
  <2> QED
    BY <1>5, <2>2, <2>3, <2>4 DEF IdOf, LenOf, Suppliable
<1>6. ASSUME NEW i \in 1 .. ChunkCount
      PROVE  LenOf(i) \in Nat
  <2>1. CASE i > OwnCount
    BY <1>5, <2>1
  <2>2. CASE ~(i > OwnCount)
    BY <1>2, <1>3, <2>2 DEF LenOf
  <2> QED
    BY <2>1, <2>2
<1> QED
  BY <1>1, <1>2, <1>3, <1>4, <1>5, <1>6, ChunkLenFacts

\* An appended place is one more.
LEMMA OneMore ==
    ASSUME NEW at \in Seq(Nat), NEW x, NEW b, b = Append(at, x)
    PROVE  Len(b) = Len(at) + 1
OBVIOUS

\* One more chunk.
LEMMA LayChunk ==
    ASSUME req \in RequestType, Acceptable, req' = req,
           stage # "done", stage' # "done", emitted \in Nat,
           NEW at, Laid(at), Len(at) <= ChunkCount,
           emitted' = emitted + ChunkLen(LenOf(Len(at))),
           fields \subseteq fields', SizeOf(Len(at), emitted) \in fields',
           \A f \in fields' : \/ f \in fields \/ f \in Numbers
                             \/ f = SizeOf(Len(at), emitted)
                             \/ f.name \in {"id", "table"},
           req.rf64 => Numbers \subseteq fields',
           NEW b, b = Append(at, emitted'), Reached(b)'
    PROVE  b \in Seq(Nat) /\ Laid(b)'
<1> DEFINE m == Len(at)
<1>1. /\ at \in Seq(Nat) /\ m \in 1 .. ChunkCount /\ at[m] = emitted
      /\ m \in Nat
  <2>1. at \in Seq(Nat) /\ Len(at) \in 1 .. ChunkCount + 1
    BY DEF Laid
  <2>2. at[m] = emitted
    BY DEF Laid, Contiguous
  <2> QED
    BY <2>1, <2>2, PlanFacts
<1>2. /\ ChunkLen(LenOf(m)) \in Nat /\ ChunkLen(LenOf(m)) >= 8
  BY <1>1, PlanFacts
<1>3. emitted' \in Nat /\ emitted' >= emitted + 8
  BY <1>2
<1>4. /\ b \in Seq(Nat) /\ Len(b) = m + 1 /\ b[m + 1] = emitted'
      /\ \A i \in 1 .. m : b[i] = at[i]
  BY <1>1, <1>3
<1> HIDE DEF m
<1>5. Contiguous(b)'
  <2>1. b[1] = 12
    BY <1>1, <1>4 DEF Laid, Contiguous
  <2>2. ASSUME NEW i \in 1 .. Len(b) - 1
        PROVE  b[i + 1] = b[i] + ChunkLen(LenOf(i)')
    <3>0. LenOf(i)' = LenOf(i)
      BY SamePlan
    <3>1. CASE i = m
      BY <1>1, <1>4, <3>0, <3>1 DEF m
    <3>2. CASE i # m
      <4>1. i \in 1 .. m - 1 /\ i + 1 \in 1 .. m /\ i \in 1 .. m
        BY <1>1, <1>4, <3>2
      <4>2. at[i + 1] = at[i] + ChunkLen(LenOf(i))
        BY <4>1 DEF Laid, Contiguous, m
      <4> QED
        BY <1>4, <3>0, <4>1, <4>2
    <3> QED
      BY <3>1, <3>2
  <2>3. ASSUME NEW i \in 1 .. Len(b), NEW j \in 1 .. Len(b), i < j
        PROVE  b[i] + 8 <= b[j]
    <3>1. \A k, l \in 1 .. m : k < l => at[k] + 8 <= at[l]
      BY DEF Laid, Contiguous, m
    <3>2. \A k \in 1 .. m : at[k] \in Nat /\ at[k] + 8 <= emitted'
      <4> TAKE k \in 1 .. m
      <4>1. at[k] \in Nat
        BY <1>1 DEF m
      <4>2. CASE k = m
        BY <1>1, <1>3, <4>2
      <4>3. CASE k # m
        <5>1. at[k] + 8 <= at[m]
          BY <1>1, <3>1, <4>3
        <5> QED
          BY <1>1, <1>3, <4>1, <5>1
      <4> QED
        BY <4>1, <4>2, <4>3
    <3>3. i \in 1 .. m
      BY <1>1, <1>4, <2>3
    <3>4. CASE j = m + 1
      BY <1>4, <3>2, <3>3, <3>4
    <3>5. CASE j # m + 1
      <4>1. j \in 1 .. m
        BY <1>1, <1>4, <3>5
      <4> QED
        BY <1>4, <2>3, <3>1, <3>3, <4>1
    <3> QED
      BY <3>4, <3>5
  <2>4. b[Len(b)] = emitted'
    BY <1>4
  <2> QED
    BY <2>1, <2>2, <2>3, <2>4 DEF Contiguous
<1>6. Len(b) \in 1 .. ChunkCount' + 1
  <2>1. ChunkCount' = ChunkCount
    BY SamePlan
  <2>2. ChunkCount \in Nat
    BY PlanFacts
  <2> QED
    BY <1>1, <1>4, <2>1, <2>2
<1>7. RiffField' \in fields'
  BY SamePlan DEF Laid
<1>8. \A i \in 1 .. Len(b) - 1 : SizeOf(i, b[i])' \in fields'
  <2> TAKE i \in 1 .. Len(b) - 1
  <2>0. SizeOf(i, b[i])' = SizeOf(i, b[i])
    BY SamePlan
  <2>1. CASE i = m
    BY <1>1, <1>4, <2>0, <2>1 DEF m
  <2>2. CASE i # m
    <3>1. i \in 1 .. m - 1 /\ i \in 1 .. m
      BY <1>1, <1>4, <2>2
    <3>2. SizeOf(i, at[i]) \in fields
      BY <3>1 DEF Laid, m
    <3> QED
      BY <1>4, <2>0, <3>1, <3>2
  <2> QED
    BY <2>1, <2>2
<1>9. req'.rf64 /\ Len(b) > 1 => Numbers' \subseteq fields'
  BY SamePlan
<1>10. ASSUME NEW f \in fields'
       PROVE  Accounted(b, f)'
  <2>1. CASE f \in fields
    <3>1. Accounted(at, f)
      BY <2>1 DEF Laid
    <3>2. ASSUME NEW i \in 1 .. m - 1, f = SizeOf(i, at[i])
          PROVE  \E j \in 1 .. Len(b) - 1 : f = SizeOf(j, b[j])'
      <4>1. i \in 1 .. Len(b) - 1 /\ b[i] = at[i]
        BY <1>1, <1>4
      <4>2. SizeOf(i, b[i])' = SizeOf(i, at[i])
        BY <4>1, SamePlan
      <4> QED
        BY <3>2, <4>1, <4>2
    <3> QED
      BY <3>1, <3>2, SamePlan DEF Accounted, m
  <2>2. CASE f.name \in {"id", "table"}
    BY <2>2 DEF Accounted
  <2>3. CASE f = SizeOf(m, emitted)
    <3>1. m \in 1 .. Len(b) - 1 /\ b[m] = emitted
      BY <1>1, <1>4
    <3>2. SizeOf(m, b[m])' = SizeOf(m, emitted)
      BY <3>1, SamePlan
    <3> QED
      BY <2>3, <3>1, <3>2 DEF Accounted
  <2>4. CASE f \in Numbers
    BY <2>4, SamePlan DEF Accounted
  <2> QED
    BY <2>1, <2>2, <2>3, <2>4 DEF m
<1>11. Acceptable'
  BY SamePlan
<1> QED
  BY <1>4, <1>5, <1>6, <1>7, <1>8, <1>9, <1>10, <1>11 DEF Laid

\* The header up to its 12th byte, and none of the rest.
LEMMA RiffWaveLaid ==
    ASSUME Inv, HeaderInv, WriteRiffWave
    PROVE  HeaderInv'
<1> DEFINE v == IF req.rf64 THEN "marker" ELSE "unset"
           form == Field("RIFF", "form", 0, 4, "id", 0)
<1>1. /\ stage = "riff" /\ req' = req /\ offsets' = offsets
      /\ stage' = (IF req.rf64 THEN "ds64" ELSE "fmt") /\ written' = written
      /\ EmitChunk("RIFF", v, 4, {form})
  BY DEF WriteRiffWave
<1>2. emitted = 0 /\ fields = {} /\ Acceptable /\ req \in RequestType
  BY <1>1 DEF Inv, StageInv
<1>3. /\ emitted' = 12
      /\ fields' = {IdField("RIFF", 0), RiffField, [form EXCEPT !.at = 8]}
  <2>1. emitted' = emitted + ChunkLen(4)
    BY <1>1 DEF EmitChunk
  <2>2. fields' = fields
            \cup {IdField("RIFF", emitted), SizeField("RIFF", emitted + 4, v, 4)}
            \cup {[f EXCEPT !.at = emitted + 8 + f.at] : f \in {form}}
    BY <1>1 DEF EmitChunk, ChunkHeaderSize
  <2>3. form.at = 0
    BY DEF Field
  <2> HIDE DEF form
  <2>4. {[f EXCEPT !.at = emitted + 8 + f.at] : f \in {form}} = {[form EXCEPT !.at = 8]}
    BY <1>2, <2>3
  <2>5. RiffField = SizeField("RIFF", emitted + 4, v, 4)
    BY <1>2 DEF RiffField
  <2> QED
    BY <1>2, <2>1, <2>2, <2>4, <2>5 DEF ChunkLen, ChunkHeaderSize, PadOf
<1>4. IdField("RIFF", 0).name = "id" /\ [form EXCEPT !.at = 8].name = "form"
  BY DEF IdField, Field
<1> HIDE DEF form, v
<1>5. PICK b : b = <<12>>
  OBVIOUS
<1>6. b \in Seq(Nat) /\ Len(b) = 1 /\ b[1] = 12
  BY <1>5
<1>7. Laid(b)'
  <2>1. Contiguous(b)'
    BY <1>1, <1>3, <1>6 DEF Contiguous
  <2>2. Reached(b)'
    BY <1>1, <1>6 DEF Reached
  <2>3. Len(b) \in 1 .. ChunkCount' + 1
    BY <1>1, <1>2, <1>6, PlanFacts, SamePlan
  <2>4. RiffField' = RiffField
    BY <1>1, SamePlan
  <2>5. \A f \in fields' : Accounted(b, f)'
    BY <1>3, <1>4, <2>4 DEF Accounted
  <2> QED
    BY <1>1, <1>2, <1>3, <1>6, <2>1, <2>2, <2>3, <2>4, <2>5, SamePlan DEF Laid
<1>8. OffsetsInv'
  BY <1>1 DEF HeaderInv, OffsetsInv
<1>9. CheckedInv'
  BY <1>1 DEF HeaderInv, CheckedInv
<1> QED
  BY <1>6, <1>7, <1>8, <1>9 DEF HeaderInv

\* ds64 is the first chunk of an RF64 file, at 12.
LEMMA Ds64Laid ==
    ASSUME Inv, HeaderInv, WriteDs64
    PROVE  HeaderInv'
<1> DEFINE f1 == Field("ds64", "riffSize", 0, 8, "unset", 0)
           f2 == Field("ds64", "dataSize", 8, 8, "unset", 0)
           f3 == Field("ds64", "sampleCount", 16, 8, "zero", 0)
           f4 == Field("ds64", "table", 24, 4, "zero", 0)
           extra == {[f EXCEPT !.at = emitted + 8 + f.at] : f \in {f1, f2, f3, f4}}
<1>1. /\ stage = "ds64" /\ stage' = "fmt" /\ req' = req /\ written' = written
      /\ offsets' = [riff |-> header_len + 8, data |-> header_len + 16,
                     count |-> header_len + 24]
      /\ EmitChunk("ds64", "size", 28, {f1, f2, f3, f4})
  BY DEF WriteDs64, Ds64BodySize
<1>2. /\ req.rf64 /\ Acceptable /\ req \in RequestType /\ emitted \in Nat /\ emitted # 0
      /\ header_len = emitted
  BY <1>1 DEF Inv, StageInv, FieldsInv, Underway
<1>3. PICK at \in Seq(Nat) : Laid(at)
  BY <1>2 DEF HeaderInv
<1>4. Len(at) = 1 /\ at[1] = 12 /\ emitted = 12
  BY <1>1, <1>3 DEF Laid, Reached, Contiguous
<1>5. IdOf(1) = "ds64" /\ LenOf(1) = 28 /\ OwnCount = 2
  BY <1>2 DEF IdOf, LenOf, OwnCount
<1>6. ChunkCount \in Nat /\ ChunkCount >= 2
  BY <1>2, <1>5, PlanFacts
<1>7. Numbers \subseteq extra /\ \A f \in extra : f.name = "table" \/ f \in Numbers
  <2>1. /\ [f1 EXCEPT !.at = 20] = Field("ds64", "riffSize", 20, 8, "unset", 0) /\ f1.at = 0
        /\ [f2 EXCEPT !.at = 28] = Field("ds64", "dataSize", 28, 8, "unset", 0) /\ f2.at = 8
        /\ [f3 EXCEPT !.at = 36] = Field("ds64", "sampleCount", 36, 8, "zero", 0) /\ f3.at = 16
        /\ [f4 EXCEPT !.at = 44].name = "table" /\ f4.at = 24
    BY DEF Field
  <2> HIDE DEF f1, f2, f3, f4
  <2>2. extra = {[f1 EXCEPT !.at = 20], [f2 EXCEPT !.at = 28], [f3 EXCEPT !.at = 36],
                 [f4 EXCEPT !.at = 44]}
    BY <1>4, <2>1
  <2> HIDE DEF extra
  <2>3. Numbers = {[f1 EXCEPT !.at = 20], [f2 EXCEPT !.at = 28], [f3 EXCEPT !.at = 36]}
    BY <1>2, <2>1 DEF Numbers
  <2> QED
    BY <2>1, <2>2, <2>3
<1>8. /\ emitted' = emitted + ChunkLen(LenOf(1))
      /\ fields' = fields \cup {IdField(IdOf(1), emitted), SizeOf(1, emitted)} \cup extra
  BY <1>1, <1>5 DEF EmitChunk, ChunkHeaderSize, SizeOf
<1> HIDE DEF f1, f2, f3, f4, extra
<1>14. /\ fields \subseteq fields' /\ SizeOf(1, emitted) \in fields'
       /\ Numbers \subseteq fields'
       /\ \A f \in fields' : f \in fields \/ f \in Numbers
                            \/ f = SizeOf(1, emitted) \/ f.name \in {"id", "table"}
  <2>1. IdField(IdOf(1), emitted).name = "id"
    BY DEF IdField, Field
  <2> QED
    BY <1>7, <1>8, <2>1
<1>9. PICK b : b = Append(at, emitted')
  OBVIOUS
<1>10. Reached(b)'
  <2>0. Len(b) = Len(at) + 1
    BY <1>3, <1>9
  <2>1. Len(b) = 2
    BY <1>4, <2>0
  <2> QED
    BY <1>1, <1>2, <2>1 DEF Reached
<1>11. b \in Seq(Nat) /\ Laid(b)'
  <2>1. /\ Len(at) <= ChunkCount /\ stage # "done" /\ stage' # "done"
        /\ emitted' = emitted + ChunkLen(LenOf(Len(at)))
        /\ SizeOf(Len(at), emitted) \in fields'
        /\ \A f \in fields' : f \in fields \/ f \in Numbers
                             \/ f = SizeOf(Len(at), emitted) \/ f.name \in {"id", "table"}
    BY <1>1, <1>4, <1>6, <1>8, <1>14
  <2> QED
    BY <1>1, <1>2, <1>3, <1>9, <1>10, <1>14, <2>1, LayChunk
<1>12. OffsetsInv'
  <2>1. offsets'.riff = 20 /\ offsets'.data = 28 /\ offsets'.count = 36
    BY <1>1, <1>2, <1>4
  <2> QED
    BY <1>1, <1>2, <2>1 DEF OffsetsInv
<1>13. CheckedInv'
  BY <1>1 DEF HeaderInv, CheckedInv
<1> QED
  BY <1>11, <1>12, <1>13 DEF HeaderInv

\* A chunk without numbers but its size.
LEMMA PlainLaid ==
    ASSUME Inv, req' = req, Acceptable, stage # "done", stage' # "done",
           NEW at, Laid(at), Len(at) <= ChunkCount,
           EmitChunk(IdOf(Len(at)), "size", LenOf(Len(at)), {}),
           req.rf64 => Len(at) > 1,
           NEW b, b = Append(at, emitted'), Reached(b)'
    PROVE  b \in Seq(Nat) /\ Laid(b)'
<1>1. req \in RequestType /\ emitted \in Nat
  BY DEF Inv, StageInv, FieldsInv
<1> DEFINE idf == IdField(IdOf(Len(at)), emitted)
<1>2. /\ emitted' = emitted + ChunkLen(LenOf(Len(at)))
      /\ fields' = fields \cup {idf, SizeOf(Len(at), emitted)}
  BY DEF EmitChunk, SizeOf
<1>3. idf.name = "id"
  BY DEF IdField, Field
<1> HIDE DEF idf
<1>4. /\ fields \subseteq fields' /\ SizeOf(Len(at), emitted) \in fields'
      /\ \A f \in fields' : \/ f \in fields \/ f \in Numbers
                            \/ f = SizeOf(Len(at), emitted)
                            \/ f.name \in {"id", "table"}
  BY <1>2, <1>3
<1>5. req.rf64 => Numbers \subseteq fields'
  BY <1>4 DEF Laid
<1> QED
  BY <1>1, <1>2, <1>4, <1>5, LayChunk

\* Writing fmt keeps the layout, if it was not refused.
LEMMA FmtLaid ==
    ASSUME Inv, HeaderInv, WriteFmt, req.fmt.extension <= U16Max
    PROVE  HeaderInv'
<1>1. /\ stage = "fmt" /\ stage' = (IF req.rf64 THEN "leading" ELSE "fact") /\ req' = req
      /\ offsets' = offsets /\ written' = written
      /\ EmitChunk("fmt ", "size", FmtBodySize, {})
  BY DEF WriteFmt
<1>2. Acceptable /\ req \in RequestType /\ emitted # 0
  <2>1. stage = "fmt"
    BY <1>1
  <2> QED
    BY <2>1 DEF Inv, StageInv, FieldsInv, Underway
<1>3. PICK at \in Seq(Nat) : Laid(at)
  BY <1>2 DEF HeaderInv
<1>4. Len(at) = IF req.rf64 THEN 2 ELSE 1
  BY <1>1, <1>3 DEF Laid, Reached
<1>5. IdOf(Len(at)) = "fmt " /\ LenOf(Len(at)) = FmtBodySize
  <2>1. CASE req.rf64
    BY <1>4, <2>1 DEF IdOf, LenOf, OwnCount
  <2>2. CASE ~req.rf64
    BY <1>4, <2>2 DEF IdOf, LenOf, OwnCount
  <2> QED
    BY <2>1, <2>2
<1>6. Len(at) <= ChunkCount
  <2>1. OwnCount \in {1, 2} /\ ChunkCount \in Nat /\ ChunkCount >= OwnCount
    BY <1>2, PlanFacts
  <2>2. req.rf64 => OwnCount = 2
    BY DEF OwnCount
  <2> QED
    BY <1>4, <2>1, <2>2
<1>7. PICK b : b = Append(at, emitted')
  OBVIOUS
<1>8. Len(b) = Len(at) + 1
  BY <1>3, <1>7
<1>9. written = 0
  BY <1>1 DEF HeaderInv, CheckedInv
<1>10. Reached(b)'
  <2>1. OwnCount' = OwnCount
    BY <1>1, SamePlan
  <2> QED
    <3>1. CASE req.rf64
      <4>1. Len(at) = 2
        BY <1>4, <3>1
      <4>2. Len(b) = 3
        BY <1>8, <4>1
      <4>3. stage' = "leading"
        BY <1>1, <3>1
      <4>4. written' = 0
        BY <1>1, <1>9
      <4>5. OwnCount' = 2
        BY <2>1, <3>1 DEF OwnCount
      <4> QED
        BY <4>2, <4>3, <4>4, <4>5 DEF Reached
    <3>2. CASE ~req.rf64
      <4>1. Len(at) = 1
        BY <1>4, <3>2
      <4>2. Len(b) = 2
        BY <1>8, <4>1
      <4>3. stage' = "fact"
        BY <1>1, <3>2
      <4> QED
        BY <4>2, <4>3 DEF Reached
    <3> QED
      BY <3>1, <3>2
<1>11. b \in Seq(Nat) /\ Laid(b)'
  <2>1. EmitChunk(IdOf(Len(at)), "size", LenOf(Len(at)), {})
    BY <1>1, <1>5
  <2>2. stage # "done" /\ stage' # "done" /\ req' = req
    BY <1>1
  <2>3. req.rf64 => Len(at) > 1
    BY <1>4
  <2> QED
    BY <1>2, <1>3, <1>6, <1>7, <1>10, <2>1, <2>2, <2>3, PlainLaid
<1>12. OffsetsInv'
  BY <1>1 DEF HeaderInv, OffsetsInv
<1>13. CheckedInv'
  BY <1>1 DEF HeaderInv, CheckedInv
<1> QED
  BY <1>11, <1>12, <1>13 DEF HeaderInv

\* No chunk more.
LEMMA StillLaid ==
    ASSUME req' = req, emitted' = emitted, fields' = fields,
           stage # "done", stage' # "done", NEW at, Laid(at), Reached(at)'
    PROVE  Laid(at)'
<1>1. Contiguous(at)'
  <2>1. \A i : LenOf(i)' = LenOf(i)
    BY SamePlan
  <2> QED
    BY <2>1 DEF Laid, Contiguous
<1>2. /\ Acceptable' /\ Len(at) \in 1 .. ChunkCount' + 1 /\ RiffField' \in fields'
      /\ \A i \in 1 .. Len(at) - 1 : SizeOf(i, at[i])' \in fields'
      /\ req'.rf64 /\ Len(at) > 1 => Numbers' \subseteq fields'
  BY SamePlan DEF Laid
<1>3. \A f \in fields' : Accounted(at, f)'
  <2> TAKE f \in fields'
  <2>1. Accounted(at, f)
    BY DEF Laid
  <2>2. /\ RiffField' = RiffField /\ Numbers' = Numbers
        /\ \A i, s : SizeOf(i, s)' = SizeOf(i, s)
    BY SamePlan
  <2> QED
    BY <2>1, <2>2 DEF Accounted
<1> QED
  BY <1>1, <1>2, <1>3 DEF Laid

\* The stage of the fact chunk: two places, the end of fmt the second.
LEMMA AtFact ==
    ASSUME Inv, HeaderInv, stage = "fact"
    PROVE  /\ ~req.rf64 /\ Acceptable /\ req \in RequestType /\ emitted \in Nat
           /\ header_len = emitted /\ written = 0 /\ offsets.count = Absent
           /\ offsets \in [{"riff", "data", "count"} -> Nat \cup {Absent}]
           /\ req.fmt.extension <= U16Max
           /\ CountAt = emitted + 8 /\ CountAt \in Nat
           /\ \E at \in Seq(Nat) : Laid(at) /\ Len(at) = 2
<1>1. /\ ~req.rf64 /\ Acceptable /\ req \in RequestType
      /\ header_len = emitted /\ emitted # 0
      /\ offsets \in [{"riff", "data", "count"} -> Nat \cup {Absent}]
  BY DEF Inv, StageInv, Underway
<1>2. emitted \in Nat
  BY DEF Inv, FieldsInv
<1>3. written = 0 /\ offsets.count = Absent /\ req.fmt.extension <= U16Max
  BY <1>1 DEF HeaderInv, OffsetsInv, CheckedInv
<1>4. PICK at \in Seq(Nat) : Laid(at)
  BY <1>1 DEF HeaderInv
<1>5. Len(at) = 2
  BY <1>4 DEF Laid, Reached
<1>6. at[2] = at[1] + ChunkLen(LenOf(1)) /\ at[1] = 12 /\ at[2] = emitted
  BY <1>4, <1>5 DEF Laid, Contiguous
<1>7. LenOf(1) = FmtBodySize
  BY <1>1, PlanFacts DEF LenOf
<1>8. CountAt = emitted + 8
  <2>1. ChunkLen(FmtBodySize) \in Nat
    BY <1>1, PlanFacts, ChunkLenFacts
  <2> QED
    BY <1>6, <1>7, <2>1 DEF CountAt, FmtLen
<1> QED
  BY <1>1, <1>2, <1>3, <1>4, <1>5, <1>8

\* The leading chunks begin behind the last of the writer's own.
LEMMA ReachedLeading ==
    ASSUME req' = req, stage' = "leading", written' = 0,
           NEW b, Len(b) = OwnCount + 1, OwnCount \in {1, 2}
    PROVE  Reached(b)'
<1>1. OwnCount' = OwnCount
  BY SamePlan
<1>2. OwnCount' + written' + 1 = OwnCount + 1
  BY <1>1
<1> QED
  BY <1>2 DEF Reached

\* So does going on without a fact chunk.
LEMMA NoFactLaid ==
    ASSUME Inv, HeaderInv, stage = "fact", stage' = "leading", req' = req,
           written' = written, NoFact
    PROVE  /\ \E at \in Seq(Nat) : Laid(at)'
           /\ offsets'.count = (IF FactToWrite = "counted" THEN CountAt ELSE Absent)
<1>1. /\ FactToWrite = "nothing" /\ emitted' = emitted /\ fields' = fields
      /\ offsets' = offsets
  BY DEF NoFact
<1>2. ~req.rf64 /\ written = 0 /\ offsets.count = Absent
  BY AtFact
<1>3. PICK at \in Seq(Nat) : Laid(at) /\ Len(at) = 2
  BY AtFact
<1>4. OwnCount = 1
  BY <1>1, <1>2 DEF OwnCount
<1>5. Reached(at)'
  BY <1>2, <1>3, <1>4, ReachedLeading
<1>6. Laid(at)'
  BY <1>1, <1>3, <1>5, StillLaid
<1> QED
  BY <1>1, <1>2, <1>6

\* So does the fact chunk as it was supplied.
LEMMA VerbatimFactLaid ==
    ASSUME Inv, HeaderInv, stage = "fact", stage' = "leading", req' = req,
           written' = written, VerbatimFact
    PROVE  /\ \E at \in Seq(Nat) : Laid(at)'
           /\ offsets'.count = (IF FactToWrite = "counted" THEN CountAt ELSE Absent)
<1>1. /\ FactToWrite = "verbatim" /\ offsets' = offsets
      /\ EmitChunk("fact", "size", req.fact.len, {})
  BY DEF VerbatimFact
<1>2. /\ ~req.rf64 /\ written = 0 /\ offsets.count = Absent /\ Acceptable
      /\ req \in RequestType
  BY AtFact
<1>3. PICK at \in Seq(Nat) : Laid(at) /\ Len(at) = 2
  BY AtFact
<1>4. OwnCount = 2 /\ IdOf(2) = "fact" /\ LenOf(2) = req.fact.len
  BY <1>1, <1>2 DEF OwnCount, IdOf, LenOf
<1>5. PICK b : b = Append(at, emitted')
  OBVIOUS
<1>6. Reached(b)'
  <2>1. Len(b) = Len(at) + 1
    BY <1>3, <1>5, OneMore
  <2>2. Len(b) = OwnCount + 1
    BY <1>3, <1>4, <2>1
  <2> QED
    BY <1>2, <1>4, <2>2, ReachedLeading
<1>7. EmitChunk(IdOf(Len(at)), "size", LenOf(Len(at)), {}) /\ Len(at) <= ChunkCount
  <2>1. ChunkCount >= 2 /\ ChunkCount \in Nat
    BY <1>2, <1>4, PlanFacts
  <2> QED
    BY <1>1, <1>3, <1>4, <2>1
<1>8. b \in Seq(Nat) /\ Laid(b)'
  BY <1>2, <1>3, <1>5, <1>6, <1>7, PlainLaid
<1> QED
  BY <1>1, <1>2, <1>8

\* So does a fact chunk with a count, which is then where finalize looks for it.
LEMMA CountFactLaid ==
    ASSUME Inv, HeaderInv, stage = "fact", stage' = "leading", req' = req,
           written' = written, CountFact
    PROVE  /\ \E at \in Seq(Nat) : Laid(at)'
           /\ offsets'.count = (IF FactToWrite = "counted" THEN CountAt ELSE Absent)
<1> DEFINE g == IF FactToWrite = "counted"
                THEN Field("fact", "dwSampleLength", 0, 4, "unset", U32Max)
                ELSE Field("fact", "dwSampleLength", 0, 4, "fixed", req.fact.count)
           n == IF FactToWrite = "counted"
                THEN Field("fact", "dwSampleLength", CountAt, 4, "unset", U32Max)
                ELSE Field("fact", "dwSampleLength", CountAt, 4, "fixed", req.fact.count)
<1>1. /\ FactToWrite \in {"counted", "fixed"}
      /\ EmitChunk("fact", "size", 4, {g})
      /\ offsets' = (IF FactToWrite = "counted"
                     THEN [offsets EXCEPT !.count = header_len + 8] ELSE offsets)
  <2>1. CASE FactToWrite = "counted"
    BY <2>1 DEF CountFact, FactOffset
  <2>2. CASE FactToWrite # "counted"
    BY <2>2 DEF CountFact
  <2> QED
    BY <2>1, <2>2
<1>2. /\ ~req.rf64 /\ written = 0 /\ offsets.count = Absent /\ Acceptable
      /\ req \in RequestType /\ header_len = emitted /\ emitted \in Nat
      /\ CountAt = emitted + 8
      /\ offsets \in [{"riff", "data", "count"} -> Nat \cup {Absent}]
  BY AtFact
<1>3. PICK at \in Seq(Nat) : Laid(at) /\ Len(at) = 2
  BY AtFact
<1>4. OwnCount = 2 /\ IdOf(2) = "fact" /\ LenOf(2) = 4
  BY <1>1, <1>2 DEF OwnCount, IdOf, LenOf
<1>5. PICK b : b = Append(at, emitted')
  OBVIOUS
<1>6. Reached(b)'
  <2>1. Len(b) = Len(at) + 1
    BY <1>3, <1>5, OneMore
  <2>2. Len(b) = OwnCount + 1
    BY <1>3, <1>4, <2>1
  <2> QED
    BY <1>2, <1>4, <2>2, ReachedLeading
<1>7. Numbers = {n}
  BY <1>1, <1>2 DEF Numbers
<1>8. g.at = 0 /\ [g EXCEPT !.at = CountAt] = n
  <2>1. CASE FactToWrite = "counted"
    BY <2>1 DEF Field
  <2>2. CASE FactToWrite # "counted"
    BY <2>2 DEF Field
  <2> QED
    BY <2>1, <2>2
<1> HIDE DEF g, n
<1>9. {[f EXCEPT !.at = emitted + 8 + f.at] : f \in {g}} = {n}
  BY <1>2, <1>8
<1> DEFINE idf == IdField("fact", emitted)
<1>10. /\ emitted' = emitted + ChunkLen(4)
       /\ fields' = fields \cup {idf, SizeOf(2, emitted)} \cup {n}
  BY <1>1, <1>4, <1>9 DEF EmitChunk, SizeOf, ChunkHeaderSize
<1>11. idf.name = "id"
  BY DEF IdField, Field
<1> HIDE DEF idf
<1>12. /\ fields \subseteq fields' /\ SizeOf(Len(at), emitted) \in fields'
       /\ \A f \in fields' : \/ f \in fields \/ f \in Numbers
                             \/ f = SizeOf(Len(at), emitted)
                             \/ f.name \in {"id", "table"}
  BY <1>3, <1>7, <1>10, <1>11
<1>13. Len(at) <= ChunkCount /\ emitted' = emitted + ChunkLen(LenOf(Len(at)))
  <2>1. ChunkCount >= 2 /\ ChunkCount \in Nat
    BY <1>2, <1>4, PlanFacts
  <2> QED
    BY <1>3, <1>4, <1>10, <2>1
<1>14. b \in Seq(Nat) /\ Laid(b)'
  BY <1>2, <1>3, <1>5, <1>6, <1>12, <1>13, LayChunk
<1>15. offsets'.count = (IF FactToWrite = "counted" THEN CountAt ELSE Absent)
  BY <1>1, <1>2
<1> QED
  BY <1>14, <1>15

\* So does the fact step, if it was not refused.
LEMMA FactLaid ==
    ASSUME Inv, HeaderInv, WriteFact, ~FactTooLarge
    PROVE  HeaderInv'
<1>1. /\ stage = "fact" /\ stage' = "leading" /\ req' = req /\ written' = written
      /\ NoFact \/ VerbatimFact \/ CountFact
  BY DEF WriteFact
<1>2. /\ \E at \in Seq(Nat) : Laid(at)'
      /\ offsets'.count = (IF FactToWrite = "counted" THEN CountAt ELSE Absent)
  BY <1>1, NoFactLaid, VerbatimFactLaid, CountFactLaid
<1>3. ~req.rf64 /\ req.fmt.extension <= U16Max
  BY <1>1, AtFact
<1>4. OffsetsInv'
  <2>1. FactToWrite' = FactToWrite /\ CountAt' = CountAt
    BY <1>1, SamePlan
  <2>2. stage' = "leading" /\ ~req'.rf64
    BY <1>1, <1>3
  <2> QED
    BY <1>2, <2>1, <2>2 DEF OffsetsInv
<1>5. CheckedInv'
  <2>1. ~FactTooLarge'
    BY <1>1, SamePlan
  <2> QED
    BY <1>1, <1>3, <2>1 DEF CheckedInv
<1> QED
  BY <1>2, <1>4, <1>5 DEF HeaderInv

\* So does every leading chunk.
LEMMA LeadingLaid ==
    ASSUME Inv, HeaderInv, WriteLeading
    PROVE  HeaderInv'
<1> DEFINE c == req.leading[written + 1]
<1>1. /\ stage = "leading" /\ stage' = "leading" /\ req' = req /\ offsets' = offsets
      /\ written < Len(req.leading) /\ written' = written + 1
      /\ EmitChunk(c.id, "size", c.size, {})
  BY DEF WriteLeading
<1>2. /\ Acceptable /\ req \in RequestType /\ emitted # 0
      /\ written \in 0 .. Len(req.leading)
  BY <1>1 DEF Inv, StageInv, FieldsInv, Underway
<1>3. PICK at \in Seq(Nat) : Laid(at)
  BY <1>2 DEF HeaderInv
<1>4. Len(at) = OwnCount + written + 1
  BY <1>1, <1>3 DEF Laid, Reached
<1>5. /\ OwnCount \in {1, 2} /\ Len(req.leading) \in Nat
      /\ ChunkCount = OwnCount + Len(req.leading)
  BY <1>2, PlanFacts
<1>6. /\ Len(at) > OwnCount /\ Len(at) <= ChunkCount /\ Len(at) - OwnCount = written + 1
      /\ Len(at) > 1
  BY <1>1, <1>2, <1>4, <1>5
<1>7. IdOf(Len(at)) = c.id /\ LenOf(Len(at)) = c.size
  BY <1>6 DEF IdOf, LenOf
<1> HIDE DEF c
<1>8. PICK b : b = Append(at, emitted')
  OBVIOUS
<1>9. Reached(b)'
  <2>1. OwnCount' = OwnCount
    BY <1>1, SamePlan
  <2>2. Len(b) = Len(at) + 1
    BY <1>3, <1>8, OneMore
  <2>3. Len(b) = OwnCount' + written' + 1
    BY <1>1, <1>2, <1>4, <1>5, <2>1, <2>2
  <2> QED
    BY <1>1, <2>3 DEF Reached
<1>10. EmitChunk(IdOf(Len(at)), "size", LenOf(Len(at)), {})
  BY <1>1, <1>7
<1>11. stage # "done" /\ stage' # "done"
  BY <1>1
<1>12. b \in Seq(Nat) /\ Laid(b)'
  BY <1>1, <1>2, <1>3, <1>6, <1>8, <1>9, <1>10, <1>11, PlainLaid
<1>13. OffsetsInv'
  <2>1. FactToWrite' = FactToWrite /\ CountAt' = CountAt
    BY <1>1, SamePlan
  <2> QED
    BY <1>1, <2>1 DEF HeaderInv, OffsetsInv
<1>14. CheckedInv'
  <2>1. FactTooLarge' <=> FactTooLarge
    BY <1>1, SamePlan
  <2> QED
    BY <1>1, <2>1 DEF HeaderInv, CheckedInv
<1> QED
  BY <1>12, <1>13, <1>14 DEF HeaderInv

\* The data chunk comes where the last of the others ends.
LEMMA DataHeaderLaid ==
    ASSUME Inv, HeaderInv, WriteDataHeader
    PROVE  HeaderInv'
<1> DEFINE v == IF req.rf64 THEN "marker" ELSE "unset"
           idf == IdField("data", emitted)
<1>1. /\ stage = "leading" /\ stage' = "done" /\ req' = req
      /\ written = Len(req.leading) /\ written' = written
      /\ header_len' = header_len + 8
      /\ offsets' = (IF req.rf64 THEN offsets
                     ELSE [offsets EXCEPT !.riff = 4, !.data = header_len + 4])
      /\ EmitChunk("data", v, 0, {})
  BY DEF WriteDataHeader
<1>2. /\ Acceptable /\ req \in RequestType /\ emitted # 0 /\ header_len = emitted
      /\ header_len \in Nat
      /\ offsets \in [{"riff", "data", "count"} -> Nat \cup {Absent}]
  BY <1>1 DEF Inv, StageInv, FieldsInv, Underway
<1>3. PICK at \in Seq(Nat) : Laid(at)
  BY <1>2 DEF HeaderInv
<1>4. Len(at) = OwnCount + written + 1
  BY <1>1, <1>3 DEF Laid, Reached
<1>5. /\ OwnCount \in {1, 2} /\ Len(req.leading) \in Nat
      /\ ChunkCount = OwnCount + Len(req.leading)
  BY <1>2, PlanFacts
<1>6. Len(at) = ChunkCount + 1
  BY <1>1, <1>4, <1>5
<1>7. DataField' = SizeField("data", emitted + 4, v, 0)
  <2>1. header_len' - 4 = emitted + 4
    BY <1>1, <1>2
  <2> QED
    BY <1>1, <2>1 DEF DataField
<1>8. fields' = fields \cup {idf, DataField'}
  BY <1>1, <1>7 DEF EmitChunk
<1>9. idf.name = "id"
  BY DEF IdField, Field
<1> HIDE DEF idf, v
<1>10. Contiguous(at)'
  <2>1. \A i : LenOf(i)' = LenOf(i)
    BY <1>1, SamePlan
  <2>2. at[Len(at)] = emitted
    BY <1>1, <1>3 DEF Laid, Contiguous
  <2>3. header_len' - 8 = emitted
    BY <1>1, <1>2
  <2> QED
    BY <1>1, <1>3, <2>1, <2>2, <2>3 DEF Laid, Contiguous
<1>11. Reached(at)'
  <2>1. ChunkCount' = ChunkCount
    BY <1>1, SamePlan
  <2> QED
    BY <1>1, <1>6, <2>1 DEF Reached
<1>12. /\ Acceptable' /\ Len(at) \in 1 .. ChunkCount' + 1 /\ RiffField' \in fields'
       /\ \A i \in 1 .. Len(at) - 1 : SizeOf(i, at[i])' \in fields'
       /\ req'.rf64 /\ Len(at) > 1 => Numbers' \subseteq fields'
  <2>1. fields \subseteq fields'
    BY <1>8
  <2> QED
    BY <1>1, <1>3, <2>1, SamePlan DEF Laid
<1>13. \A f \in fields' : Accounted(at, f)'
  <2> TAKE f \in fields'
  <2>1. CASE f \in fields
    <3>1. Accounted(at, f) /\ stage # "done"
      BY <1>1, <1>3, <2>1 DEF Laid
    <3>2. /\ RiffField' = RiffField /\ Numbers' = Numbers
          /\ \A i, s : SizeOf(i, s)' = SizeOf(i, s)
      BY <1>1, SamePlan
    <3> QED
      BY <3>1, <3>2 DEF Accounted
  <2>2. CASE f \in {idf, DataField'}
    BY <1>1, <1>9, <2>2 DEF Accounted
  <2> QED
    BY <1>8, <2>1, <2>2
<1>14. Laid(at)'
  BY <1>3, <1>8, <1>10, <1>11, <1>12, <1>13 DEF Laid
<1>15. OffsetsInv'
  <2>1. FactToWrite' = FactToWrite /\ CountAt' = CountAt
    BY <1>1, SamePlan
  <2>2. CASE req.rf64
    <3>1. offsets' = offsets
      BY <1>1, <2>2
    <3> QED
      BY <1>1, <2>2, <3>1 DEF HeaderInv, OffsetsInv
  <2>3. CASE ~req.rf64
    <3>1. offsets'.riff = 4 /\ offsets'.data = header_len + 4
          /\ offsets'.count = offsets.count
      BY <1>1, <1>2, <2>3
    <3>2. header_len' - 4 = header_len + 4
      BY <1>1, <1>2
    <3>3. offsets.count = (IF FactToWrite = "counted" THEN CountAt ELSE Absent)
      BY <1>1, <2>3 DEF HeaderInv, OffsetsInv
    <3> QED
      BY <1>1, <2>1, <2>3, <3>1, <3>2, <3>3 DEF OffsetsInv
  <2> QED
    BY <2>2, <2>3
<1>16. CheckedInv'
  <2>1. FactTooLarge' <=> FactTooLarge
    BY <1>1, SamePlan
  <2> QED
    BY <1>1, <2>1 DEF HeaderInv, CheckedInv
<1> QED
  BY <1>14, <1>15, <1>16 DEF HeaderInv

\* A step that writes nothing.
LEMMA FailLaid ==
    ASSUME Inv, HeaderInv, Fail, stage # "done"
    PROVE  HeaderInv'
<1>1. /\ stage' = "failed" /\ req' = req /\ emitted' = emitted /\ fields' = fields
  BY DEF Fail
<1>2. ASSUME NEW at \in Seq(Nat), Laid(at)
      PROVE  Laid(at)'
  <2>1. Reached(at)'
    BY <1>1 DEF Reached
  <2> QED
    BY <1>1, <1>2, <2>1, StillLaid
<1>3. OffsetsInv' /\ CheckedInv'
  BY <1>1 DEF OffsetsInv, CheckedInv
<1> QED
  BY <1>1, <1>2, <1>3 DEF HeaderInv

\* A step that leaves the header alone keeps its layout, and the places of its
\* chunks.
LEMMA HeaderStill ==
    ASSUME HeaderInv, UNCHANGED vars
    PROVE  /\ HeaderInv'
           /\ \A at : Laid(at) => Laid(at)'
<1>1. /\ req' = req /\ stage' = stage /\ written' = written /\ header_len' = header_len
      /\ offsets' = offsets /\ emitted' = emitted /\ fields' = fields
  BY DEF vars
<1>2. ASSUME NEW at, Laid(at)
      PROVE  Laid(at)'
  <2>1. Contiguous(at)' /\ Reached(at)'
    <3>1. OwnCount' = OwnCount /\ ChunkCount' = ChunkCount /\ \A i : LenOf(i)' = LenOf(i)
      BY <1>1, SamePlan
    <3> QED
      BY <1>1, <1>2, <3>1 DEF Laid, Contiguous, Reached
  <2>2. /\ Acceptable' /\ Len(at) \in 1 .. ChunkCount' + 1 /\ RiffField' \in fields'
        /\ \A i \in 1 .. Len(at) - 1 : SizeOf(i, at[i])' \in fields'
        /\ req'.rf64 /\ Len(at) > 1 => Numbers' \subseteq fields'
    BY <1>1, <1>2, SamePlan DEF Laid
  <2>3. DataField' = DataField
    BY <1>1 DEF DataField
  <2>4. \A f \in fields' : Accounted(at, f)'
    <3> TAKE f \in fields'
    <3>1. Accounted(at, f)
      BY <1>1, <1>2 DEF Laid
    <3>2. /\ RiffField' = RiffField /\ Numbers' = Numbers
          /\ \A i, s : SizeOf(i, s)' = SizeOf(i, s)
      BY <1>1, SamePlan
    <3> QED
      BY <1>1, <2>3, <3>1, <3>2 DEF Accounted
  <2> QED
    BY <1>1, <1>2, <2>1, <2>2, <2>3, <2>4 DEF Laid
<1>3. OffsetsInv' /\ CheckedInv'
  <2>1. FactToWrite' = FactToWrite /\ CountAt' = CountAt /\ (FactTooLarge' <=> FactTooLarge)
    BY <1>1, SamePlan
  <2> QED
    BY <1>1, <2>1 DEF HeaderInv, OffsetsInv, CheckedInv
<1> QED
  BY <1>1, <1>2, <1>3 DEF HeaderInv

\* Every step of write_header keeps the layout.
LEMMA HeaderNext ==
    ASSUME Inv, HeaderInv, Next
    PROVE  HeaderInv'
<1>1. CASE Check
  <2>1. CASE Acceptable
    <3>1. /\ stage = "check" /\ stage' = "riff" /\ emitted' = emitted
          /\ written' = written /\ offsets' = offsets
      BY <1>1, <2>1 DEF Check
    <3>2. emitted = 0
      BY <3>1 DEF Inv, StageInv
    <3>3. offsets.count = Absent
      BY <3>1 DEF Inv, CountsInv, Uncounted
    <3> QED
      BY <3>1, <3>2, <3>3 DEF HeaderInv, OffsetsInv, CheckedInv
  <2>2. CASE ~Acceptable
    BY <1>1, <2>2, FailLaid DEF Check
  <2> QED
    BY <2>1, <2>2
<1>2. CASE WriteFmt
  <2>1. CASE req.fmt.extension <= U16Max
    BY <1>2, <2>1, FmtLaid
  <2>2. CASE ~(req.fmt.extension <= U16Max)
    BY <1>2, <2>2, FailLaid DEF WriteFmt
  <2> QED
    BY <2>1, <2>2
<1>3. CASE WriteFact
  <2>1. CASE FactTooLarge
    BY <1>3, <2>1, FailLaid DEF WriteFact
  <2>2. CASE ~FactTooLarge
    BY <1>3, <2>2, FactLaid
  <2> QED
    BY <2>1, <2>2
<1> QED
  BY <1>1, <1>2, <1>3, RiffWaveLaid, Ds64Laid, LeadingLaid, DataHeaderLaid DEF Next

-----------------------------------------------------------------------------
(* What a whole header says of itself.                                     *)

\* A whole header was acceptable, and has a layout.
LEMMA DoneFacts ==
    ASSUME Inv, HeaderInv, stage = "done"
    PROVE  /\ req \in RequestType /\ Acceptable /\ (req.rf64 => req.seekable)
           /\ header_len \in Nat /\ emitted = header_len /\ emitted # 0
           /\ \E at \in Seq(Nat) : Laid(at)
<1>1. /\ req \in RequestType /\ Acceptable /\ (req.rf64 => req.seekable)
      /\ header_len \in Nat /\ emitted = header_len /\ emitted >= 12
  BY DEF Inv, StageInv, Underway
<1>2. emitted # 0
  BY <1>1
<1> QED
  BY <1>1, <1>2 DEF HeaderInv

\* The places of the chunks: from 12 on, in order, each where the one before it
\* ends.
LEMMA LaidFacts ==
    ASSUME Inv, HeaderInv, emitted # 0, NEW at, Laid(at)
    PROVE  /\ at \in Seq(Nat) /\ Len(at) \in Nat \ {0} /\ at[1] = 12
           /\ \A i \in 1 .. Len(at) : at[i] \in Nat /\ at[i] >= 12
           /\ \A i \in 1 .. Len(at) - 1 : /\ i \in 1 .. ChunkCount
                                          /\ i + 1 \in 1 .. Len(at)
                                          /\ at[i + 1] = at[i] + ChunkLen(LenOf(i))
           /\ \A i, j \in 1 .. Len(at) : i < j => at[i] + 8 <= at[j]
           /\ Acceptable /\ req \in RequestType
<1>1. Acceptable /\ req \in RequestType
  BY DEF Inv, StageInv, Laid
<1>2. /\ at \in Seq(Nat) /\ Len(at) \in 1 .. ChunkCount + 1 /\ ChunkCount \in Nat
      /\ Contiguous(at)
  BY <1>1, PlanFacts DEF Laid
<1>3. \A i, j \in 1 .. Len(at) : i < j => at[i] + 8 <= at[j]
  BY <1>2 DEF Contiguous
<1>4. ASSUME NEW i \in 1 .. Len(at)
      PROVE  at[i] \in Nat /\ at[i] >= 12
  <2>1. at[i] \in Nat /\ at[1] = 12
    BY <1>2 DEF Contiguous
  <2>2. CASE i = 1
    BY <2>1, <2>2
  <2>3. CASE i # 1
    <3>1. 1 \in 1 .. Len(at) /\ 1 < i
      BY <2>3
    <3> QED
      BY <1>3, <2>1, <3>1
  <2> QED
    BY <2>2, <2>3
<1>5. ASSUME NEW i \in 1 .. Len(at) - 1
      PROVE  /\ i \in 1 .. ChunkCount /\ i + 1 \in 1 .. Len(at)
             /\ at[i + 1] = at[i] + ChunkLen(LenOf(i))
  <2>1. i \in 1 .. ChunkCount /\ i + 1 \in 1 .. Len(at)
    BY <1>2
  <2> QED
    BY <1>2, <2>1 DEF Contiguous
<1> QED
  BY <1>1, <1>2, <1>3, <1>4, <1>5 DEF Contiguous

\* Where the numbers of a whole header are.
LEMMA PlacesFacts ==
    ASSUME Inv, HeaderInv, stage = "done"
    PROVE  /\ header_len >= 44
           /\ offsets.riff \in Nat /\ offsets.data \in Nat
           /\ offsets.riff # offsets.data
           /\ offsets.riff # offsets.count /\ offsets.data # offsets.count
           /\ req.rf64 => /\ header_len >= 80 /\ offsets.riff = 20
                          /\ offsets.data = 28 /\ offsets.count = 36
           /\ ~req.rf64 => /\ offsets.riff = 4 /\ offsets.data = header_len - 4
                           /\ offsets.count = (IF FactToWrite = "counted" THEN CountAt
                                               ELSE Absent)
           /\ HasFact => CountAt \in Nat /\ CountAt >= 44 /\ CountAt <= header_len - 8
           /\ \A at : Laid(at) =>
                /\ Len(at) = ChunkCount + 1 /\ at[Len(at)] = header_len - 8
                /\ req.rf64 => at[2] = 48
                /\ HasFact => at[2] = CountAt - 8
<1>1. /\ req \in RequestType /\ Acceptable /\ header_len \in Nat /\ emitted # 0
  BY DoneFacts
<1>2. PICK p \in Seq(Nat) : Laid(p)
  BY DoneFacts
<1>3. /\ OwnCount \in {1, 2} /\ ChunkCount \in Nat /\ ChunkCount >= OwnCount
      /\ FmtBodySize \in Nat /\ FmtBodySize >= 16
  BY <1>1, PlanFacts
<1>4. /\ ChunkLen(FmtBodySize) \in Nat /\ ChunkLen(FmtBodySize) >= 24
      /\ ChunkLen(28) = 36
  <2>1. ChunkLen(28) = 36
    BY DEF ChunkLen, ChunkHeaderSize, PadOf
  <2>2. ChunkLen(FmtBodySize) \in Nat /\ ChunkLen(FmtBodySize) >= 8 + FmtBodySize
    BY <1>3, ChunkLenFacts
  <2> QED
    BY <1>3, <2>1, <2>2
<1>5. ASSUME NEW at, Laid(at)
      PROVE  /\ Len(at) = ChunkCount + 1 /\ at[Len(at)] = header_len - 8
             /\ req.rf64 => at[2] = 48 /\ header_len >= 80
             /\ HasFact => at[2] = CountAt - 8
                           /\ CountAt \in Nat /\ CountAt >= 44 /\ CountAt <= header_len - 8
             /\ header_len >= 44
  <2>0. PICK n : n = Len(at)
    OBVIOUS
  <2>1. n = ChunkCount + 1 /\ at[n] = header_len - 8
    BY <1>5, <2>0 DEF Laid, Reached, Contiguous
  <2>2. /\ n \in Nat /\ at[1] = 12
        /\ \A i \in 1 .. n : at[i] \in Nat
        /\ \A i \in 1 .. n - 1 : at[i + 1] = at[i] + ChunkLen(LenOf(i))
        /\ \A i, j \in 1 .. n : i < j => at[i] + 8 <= at[j]
    BY <1>1, <1>5, <2>0, LaidFacts
  <2>3. at[2] = 12 + ChunkLen(LenOf(1)) /\ at[2] \in Nat
    <3>1. 1 \in 1 .. n - 1 /\ 2 \in 1 .. n
      BY <1>3, <2>1
    <3> QED
      BY <2>2, <3>1
  <2>4. at[2] <= header_len - 8
    <3>1. CASE n = 2
      BY <2>1, <2>3, <3>1
    <3>2. CASE n # 2
      <4>1. 2 \in 1 .. n /\ n \in 1 .. n /\ 2 < n
        BY <1>3, <2>1, <3>2
      <4>2. at[2] + 8 <= at[n]
        BY <2>2, <4>1
      <4> QED
        BY <1>1, <2>1, <2>3, <4>2
    <3> QED
      BY <3>1, <3>2
  <2>5. OwnCount = 2 => at[2] + 8 <= header_len - 8
    <3>1. SUFFICES ASSUME OwnCount = 2 PROVE at[2] + 8 <= header_len - 8
      OBVIOUS
    <3>2. 2 \in 1 .. n /\ n \in 1 .. n /\ 2 < n
      BY <1>3, <2>1, <3>1
    <3>3. at[2] + 8 <= at[n]
      BY <2>2, <3>2
    <3> QED
      BY <2>1, <3>3
  <2>6. CASE req.rf64
    <3>1. LenOf(1) = 28 /\ OwnCount = 2 /\ ~HasFact
      BY <2>6 DEF LenOf, OwnCount, HasFact
    <3>2. at[2] = 48
      BY <1>4, <2>3, <3>1
    <3>3. at[3] = at[2] + ChunkLen(FmtBodySize) /\ at[3] <= header_len - 8
      <4>1. LenOf(2) = FmtBodySize
        BY <2>6, <3>1 DEF LenOf
      <4>2. 2 \in 1 .. n - 1 /\ 3 \in 1 .. n /\ n \in 1 .. n
        BY <1>3, <2>1, <3>1
      <4>3. at[3] = at[2] + ChunkLen(FmtBodySize) /\ at[3] \in Nat
        <5>1. at[2 + 1] = at[2] + ChunkLen(LenOf(2))
          BY <2>2, <4>2
        <5> QED
          BY <2>2, <4>1, <4>2, <5>1
      <4>4. CASE n = 3
        BY <2>1, <4>3, <4>4
      <4>5. CASE n # 3
        <5>1. at[3] + 8 <= at[n]
          BY <2>2, <4>2, <4>5
        <5> QED
          BY <1>1, <2>1, <4>3, <5>1
      <4> QED
        BY <4>3, <4>4, <4>5
    <3>4. header_len >= 80
      BY <1>1, <1>4, <3>2, <3>3
    <3> QED
      BY <1>1, <2>0, <2>1, <2>6, <3>1, <3>2, <3>4
  <2>7. CASE ~req.rf64
    <3>1. LenOf(1) = FmtBodySize
      BY <1>3, <2>7 DEF LenOf
    <3>2. at[2] = CountAt - 8 /\ CountAt \in Nat /\ CountAt >= 44
      BY <1>4, <2>3, <3>1 DEF CountAt, FmtLen
    <3>3. HasFact => OwnCount = 2
      BY DEF HasFact, OwnCount
    <3>4. header_len >= 44
      BY <1>1, <2>4, <3>2
    <3> QED
      BY <1>1, <2>0, <2>1, <2>5, <2>7, <3>2, <3>3, <3>4
  <2> QED
    BY <2>0, <2>6, <2>7
<1>6. /\ req.rf64 => offsets.riff = 20 /\ offsets.data = 28 /\ offsets.count = 36
      /\ ~req.rf64 => /\ offsets.riff = 4 /\ offsets.data = header_len - 4
                      /\ offsets.count = (IF FactToWrite = "counted" THEN CountAt
                                          ELSE Absent)
  BY DEF HeaderInv, OffsetsInv
<1>7. /\ offsets.riff \in Nat /\ offsets.data \in Nat /\ offsets.riff # offsets.data
      /\ offsets.riff # offsets.count /\ offsets.data # offsets.count
  <2>1. header_len >= 44
    BY <1>2, <1>5
  <2>2. CASE req.rf64
    BY <1>6, <2>2
  <2>3. CASE ~req.rf64
    <3>1. offsets.riff = 4 /\ offsets.data = header_len - 4
      BY <1>6, <2>3
    <3>2. CASE FactToWrite = "counted"
      <4>1. offsets.count = CountAt /\ CountAt >= 44 /\ CountAt <= header_len - 8
            /\ CountAt \in Nat
        BY <1>2, <1>5, <1>6, <2>3, <3>2 DEF HasFact
      <4> QED
        BY <1>1, <2>1, <3>1, <4>1
    <3>3. CASE FactToWrite # "counted"
      <4>1. offsets.count = -1
        BY <1>6, <2>3, <3>3 DEF Absent
      <4> QED
        BY <1>1, <2>1, <3>1, <4>1
    <3> QED
      BY <3>2, <3>3
  <2> QED
    BY <2>2, <2>3
<1> QED
  BY <1>2, <1>5, <1>6, <1>7

-----------------------------------------------------------------------------
(* The audio and the chunks behind it.                                     *)

\* A pad is a byte or none.
LEMMA PadFacts ==
    ASSUME NEW n \in Nat
    PROVE  PadOf(n) \in {0, 1}
BY DEF PadOf

\* The audio is behind the header, the chunks attached behind the audio, and the
\* last of them ends the file.
LEMMA EndFacts ==
    ASSUME Inv, HeaderInv, TailInv, AudioInv, stage = "done"
    PROVE  /\ recorded \in Nat /\ AudioEnd \in Nat /\ AudioEnd >= 44
           /\ AudioEnd = header_len + recorded
           /\ FileEnd \in Nat /\ FileEnd >= AudioEnd
           /\ Len(tail) \in Nat /\ DOMAIN tail = 1 .. Len(tail)
           /\ tail = << >> => FileEnd = AudioEnd
           /\ tail # << >> => /\ Len(tail) \in DOMAIN tail /\ 1 \in DOMAIN tail
                              /\ FileEnd = EndOf(tail[Len(tail)])
                              /\ FileEnd > AudioEnd
           /\ \A i \in DOMAIN tail :
                /\ tail[i].at \in Nat /\ tail[i].size \in Nat /\ tail[i].id \in STRING
                /\ EndOf(tail[i]) \in Nat
                /\ EndOf(tail[i]) >= tail[i].at + 8 + tail[i].size
                /\ tail[i].at >= AudioEnd + PadOf(recorded)
                /\ EndOf(tail[i]) <= FileEnd
<1>1. header_len \in Nat /\ header_len >= 44
  BY DoneFacts, PlacesFacts
<1>2. /\ recorded \in Nat /\ AudioEnd \in Nat /\ AudioEnd = header_len + recorded
      /\ AudioEnd >= 44
  BY <1>1 DEF AudioInv, AudioEnd
<1>3. /\ tail \in Seq([id : STRING, size : Nat, at : Nat])
      /\ Len(tail) \in Nat /\ DOMAIN tail = 1 .. Len(tail)
  BY DEF TailInv
<1>4. ASSUME NEW i \in DOMAIN tail
      PROVE  /\ tail[i].at \in Nat /\ tail[i].size \in Nat /\ tail[i].id \in STRING
             /\ EndOf(tail[i]) \in Nat
             /\ EndOf(tail[i]) >= tail[i].at + 8 + tail[i].size
  <2>1. tail[i] \in [id : STRING, size : Nat, at : Nat]
    BY <1>3, ElementOfSeq
  <2>2. tail[i].at \in Nat /\ tail[i].size \in Nat /\ tail[i].id \in STRING
    BY <2>1
  <2>3. /\ ChunkLen(tail[i].size) \in Nat
        /\ ChunkLen(tail[i].size) >= 8 + tail[i].size
    BY <2>2, ChunkLenFacts
  <2> QED
    BY <2>2, <2>3 DEF EndOf
<1>5. PadOf(recorded) \in {0, 1}
  BY <1>2, PadFacts
<1>6. ASSUME NEW i \in DOMAIN tail
      PROVE  tail[i].at >= AudioEnd + PadOf(recorded)
  <2>1. tail # << >> /\ 1 \in DOMAIN tail
    BY <1>3
  <2>2. tail[1].at = AudioEnd + PadOf(recorded)
    BY <2>1 DEF TailInv
  <2>3. CASE i = 1
    BY <1>2, <1>5, <2>2, <2>3
  <2>4. CASE i # 1
    <3>1. 1 < i
      BY <1>3, <2>4
    <3>2. EndOf(tail[1]) <= tail[i].at
      BY <2>1, <3>1 DEF TailInv
    <3> QED
      BY <1>2, <1>4, <1>5, <2>1, <2>2, <3>2
  <2> QED
    BY <2>3, <2>4
<1>7. CASE tail = << >>
  <2>1. FileEnd = AudioEnd /\ DOMAIN tail = {}
    BY <1>7 DEF FileEnd
  <2> QED
    BY <1>2, <1>3, <1>7, <2>1
<1>8. CASE tail # << >>
  <2>1. Len(tail) \in DOMAIN tail /\ 1 \in DOMAIN tail
    BY <1>3, <1>8
  <2>2. FileEnd = EndOf(tail[Len(tail)])
    BY <1>8 DEF FileEnd, EndOf
  <2>3. FileEnd \in Nat /\ FileEnd > AudioEnd
    BY <1>2, <1>4, <1>5, <1>6, <2>1, <2>2
  <2>4. ASSUME NEW i \in DOMAIN tail
        PROVE  EndOf(tail[i]) <= FileEnd
    <3>1. CASE i = Len(tail)
      BY <2>2, <2>3, <3>1
    <3>2. CASE i # Len(tail)
      <4>1. i < Len(tail)
        BY <1>3, <3>2
      <4>2. EndOf(tail[i]) <= tail[Len(tail)].at
        BY <2>1, <4>1 DEF TailInv
      <4> QED
        BY <1>4, <2>1, <2>2, <4>2
    <3> QED
      BY <3>1, <3>2
  <2> QED
    BY <1>2, <1>3, <1>4, <1>6, <1>8, <2>1, <2>2, <2>3, <2>4
<1> QED
  BY <1>7, <1>8

\* A list of two with one more is a list of three.
LEMMA TwoAndOne ==
    ASSUME NEW E, NEW a \in E, NEW b \in E, NEW c \in E
    PROVE  LET s == <<a, b>> \o <<c>>
           IN  /\ s \in Seq(E) /\ Len(s) = 3 /\ DOMAIN s = 1 .. 3
               /\ s[1] = a /\ s[2] = b /\ s[3] = c
<1>1. PICK x \in Seq(E) : Len(x) = 2 /\ x[1] = a /\ x[2] = b /\ x = <<a, b>>
  <2>1. <<a, b>> \in Seq(E)
    OBVIOUS
  <2> QED
    BY <2>1
<1>2. PICK y \in Seq(E) : Len(y) = 1 /\ y[1] = c /\ y = <<c>>
  <2>1. <<c>> \in Seq(E)
    OBVIOUS
  <2> QED
    BY <2>1
<1> DEFINE s == x \o y
<1>3. s \in Seq(E)
  OBVIOUS
<1>4. Len(s) = Len(x) + Len(y)
  OBVIOUS
<1>5. Len(s) = 3
  BY <1>1, <1>2, <1>4
<1>6. s[1] = a /\ s[2] = b /\ s[3] = c
  BY <1>1, <1>2
<1>7. DOMAIN s = 1 .. Len(s)
  BY <1>3
<1> QED
  BY <1>1, <1>2, <1>3, <1>5, <1>6, <1>7

\* What finalize writes: the RIFF size, the data size, and a count if there is
\* one, each at an offset the header kept.
LEMMA PatchListFacts ==
    ASSUME Inv, HeaderInv, TailInv, AudioInv, stage = "done"
    PROVE  /\ PatchList \in Seq([at : Int, number : Int])
           /\ Len(PatchList) \in {2, 3}
           /\ Len(PatchList) = 3 <=> Counting \/ HasFixedCount
           /\ DOMAIN PatchList = 1 .. Len(PatchList)
           /\ PatchList[1].at = offsets.riff /\ PatchList[1].number = FileEnd - 8
           /\ PatchList[2].at = offsets.data /\ PatchList[2].number = recorded
           /\ Counting \/ HasFixedCount =>
                /\ PatchList[3].at = offsets.count
                /\ PatchList[3].number = (IF Counting THEN recorded ELSE req.fact.count)
           /\ \A i \in DOMAIN PatchList : PatchList[i].at \in Spots
<1> DEFINE E == [at : Int, number : Int]
           p1 == Patch(offsets.riff, FileEnd - 8)
           p2 == Patch(offsets.data, recorded)
           p3 == Patch(offsets.count, IF Counting THEN recorded ELSE req.fact.count)
<1>1. /\ FileEnd \in Nat /\ recorded \in Nat
      /\ offsets.riff \in Nat /\ offsets.data \in Nat
  BY EndFacts, PlacesFacts
<1>2. offsets.count \in Int /\ req.fact.count \in Int
  <2>1. req.fact \in Fact
    BY DoneFacts, RequestFacts
  <2>2. offsets.count \in Nat \cup {Absent}
    BY DEF Inv, StageInv
  <2> QED
    BY <2>1, <2>2 DEF Fact, Absent
<1>3. /\ p1 \in E /\ p1.at = offsets.riff /\ p1.number = FileEnd - 8
      /\ p2 \in E /\ p2.at = offsets.data /\ p2.number = recorded
  BY <1>1 DEF Patch
<1>4. /\ p3 \in E /\ p3.at = offsets.count
      /\ p3.number = (IF Counting THEN recorded ELSE req.fact.count)
  <2>1. (IF Counting THEN recorded ELSE req.fact.count) \in Int
    BY <1>1, <1>2
  <2> QED
    BY <1>2, <2>1 DEF Patch
<1>5. PatchList = <<p1, p2>> \o (IF Counting \/ HasFixedCount THEN <<p3>> ELSE << >>)
  <2>1. CASE Counting
    BY <2>1 DEF PatchList
  <2>2. CASE ~Counting
    BY <2>2 DEF PatchList
  <2> QED
    BY <2>1, <2>2
<1> HIDE DEF p1, p2, p3
<1>6. CASE Counting \/ HasFixedCount
  <2>0. PatchList = <<p1, p2>> \o <<p3>>
    BY <1>5, <1>6
  <2>2. /\ PatchList \in Seq(E) /\ Len(PatchList) = 3 /\ DOMAIN PatchList = 1 .. 3
        /\ PatchList[1] = p1 /\ PatchList[2] = p2 /\ PatchList[3] = p3
    BY <1>3, <1>4, <2>0, TwoAndOne
  <2>3. DOMAIN PatchList = 1 .. 3
    BY <2>2
  <2> QED
    BY <1>3, <1>4, <1>6, <2>2, <2>3 DEF Spots
<1>7. CASE ~(Counting \/ HasFixedCount)
  <2>1. PatchList = <<p1, p2>>
    BY <1>3, <1>5, <1>7
  <2>2. PatchList \in Seq(E) /\ Len(PatchList) = 2
        /\ PatchList[1] = p1 /\ PatchList[2] = p2
    BY <1>3, <2>1
  <2>3. DOMAIN PatchList = 1 .. 2
    BY <2>1
  <2> QED
    BY <1>3, <1>7, <2>2, <2>3 DEF Spots
<1> QED
  BY <1>6, <1>7

\* What the patches are depends on the file alone.
LEMMA SameFile ==
    ASSUME UNCHANGED vars, UNCHANGED <<recorded, tail>>
    PROVE  /\ AudioEnd' = AudioEnd /\ FileEnd' = FileEnd /\ PatchList' = PatchList
           /\ (Counting' <=> Counting) /\ (HasFixedCount' <=> HasFixedCount)
           /\ Spots' = Spots
<1>1. /\ req' = req /\ stage' = stage /\ header_len' = header_len /\ offsets' = offsets
      /\ emitted' = emitted /\ recorded' = recorded /\ tail' = tail
  BY DEF vars
<1>2. AudioEnd' = AudioEnd /\ FileEnd' = FileEnd
  BY <1>1 DEF AudioEnd, FileEnd
<1>3. (Counting' <=> Counting) /\ (HasFixedCount' <=> HasFixedCount)
  BY <1>1 DEF Counting, HasFixedCount, Ds64SampleCount
<1>4. PatchList' = PatchList
  BY <1>1, <1>2, <1>3 DEF PatchList
<1>5. Spots' = Spots
  BY <1>1, <1>3 DEF Spots
<1> QED
  BY <1>2, <1>3, <1>4, <1>5

\* The header settles where that is.
LEMMA SameSpots ==
    ASSUME UNCHANGED vars
    PROVE  /\ (Counting' <=> Counting) /\ (HasFixedCount' <=> HasFixedCount)
           /\ Spots' = Spots
<1>1. req' = req /\ offsets' = offsets
  BY DEF vars
<1>2. (Counting' <=> Counting) /\ (HasFixedCount' <=> HasFixedCount)
  BY <1>1 DEF Counting, HasFixedCount, Ds64SampleCount
<1> QED
  BY <1>1, <1>2 DEF Spots

-----------------------------------------------------------------------------
(* Writing keeps what is known of the file.                                *)

NothingBehind ==
    /\ recorded = 0 /\ tail = << >> /\ patches = << >> /\ patched = << >>
    /\ promised = 0 /\ life = "writing"

\* A header nothing is behind satisfies the invariant of the writer.
LEMMA BlankWriter == NothingBehind => WriterInv
<1> SUFFICES ASSUME NothingBehind PROVE WriterInv
  OBVIOUS
<1>1. /\ recorded = 0 /\ tail = << >> /\ patches = << >> /\ patched = << >>
      /\ promised = 0 /\ life = "writing"
  BY DEF NothingBehind
<1>2. DOMAIN tail = {} /\ DOMAIN patched = {} /\ Len(tail) = 0
  BY <1>1
<1>3. TailInv
  BY <1>1, <1>2 DEF TailInv
<1>4. AudioInv /\ NothingYet
  BY <1>1 DEF AudioInv, NothingYet
<1>5. PatchedInv
  BY <1>1, <1>2 DEF PatchedInv
<1>6. PatchesInv
  BY <1>1 DEF PatchesInv
<1> QED
  BY <1>3, <1>4, <1>5, <1>6 DEF WriterInv

\* The same of the state after a step.
LEMMA BlankWriterNext == NothingBehind' => WriterInv'
BY BlankWriter, PTL

\* write_header does nothing once it is done.
LEMMA NotDoneYet == Next => stage # "done"
BY DEF Next, Check, WriteRiffWave, WriteDs64, WriteFmt, WriteFact, WriteLeading,
       WriteDataHeader

\* While the header is written nothing is behind it.
LEMMA WriteHeaderKeeps ==
    ASSUME WriterInv, WriteHeader
    PROVE  WriterInv'
<1>1. stage # "done" /\ life = "writing"
  BY NotDoneYet DEF WriteHeader
<1>2. NothingBehind
  BY <1>1 DEF WriterInv, NothingYet, NothingBehind
<1>3. NothingBehind'
  BY <1>2 DEF NothingBehind, WriteHeader, writing
<1> QED
  BY <1>3, BlankWriterNext

\* What is behind the header stays if nothing is added.
LEMMA TailStill ==
    ASSUME UNCHANGED vars, UNCHANGED <<recorded, tail>>
    PROVE  /\ TailInv => TailInv'
           /\ AudioInv => AudioInv'
<1>1. /\ req' = req /\ AudioEnd' = AudioEnd /\ recorded' = recorded /\ tail' = tail
  BY SameFile DEF vars
<1> QED
  BY <1>1 DEF TailInv, AudioInv

\* A step that touches neither the file nor the fields keeps what is known of
\* them.
LEMMA PatchedStill ==
    ASSUME UNCHANGED vars, UNCHANGED <<recorded, tail, patches, patched, promised>>
    PROVE  /\ PatchedInv => PatchedInv'
           /\ \A k : Patching(k) => Patching(k)'
           /\ Whole => Whole'
<1>1. /\ req' = req /\ offsets' = offsets /\ header_len' = header_len
      /\ PatchList' = PatchList /\ Spots' = Spots
  BY SameFile DEF vars
<1>2. HalfPatched' <=> HalfPatched
  BY <1>1 DEF HalfPatched
<1>3. \A e, d : Agree(e, d)' <=> Agree(e, d)
  BY <1>1 DEF Agree
<1>4. PatchedInv => PatchedInv'
  BY <1>1, <1>2, <1>3 DEF PatchedInv
<1> QED
  BY <1>1, <1>4 DEF Patching, Whole

\* A step that reads, releases the writer or kills it.
LEMMA WriterStill ==
    ASSUME WriterInv, UNCHANGED vars,
           UNCHANGED <<recorded, tail, patches, patched, promised>>,
           \/ life' = life
           \/ life = "writing" /\ life' = "killed"
           \/ life' = "released" /\ patches = << >> /\ stage = "done"
    PROVE  WriterInv'
<1>1. TailInv' /\ AudioInv'
  BY TailStill DEF WriterInv
<1>2. stage' = stage /\ req' = req /\ PatchList' = PatchList
  BY SameFile DEF vars
<1>3. NothingYet'
  BY <1>2 DEF WriterInv, NothingYet
<1>4. stage' = "done" => PatchedInv'
  BY <1>2, PatchedStill DEF WriterInv
<1>5. PatchesInv'
  <2>1. PatchesInv
    BY DEF WriterInv
  <2>2. patches' = patches
    OBVIOUS
  <2>3. patches # << >> => \E k \in 0 .. Len(PatchList) - 1 : Patching(k)'
    BY <2>1, PatchedStill DEF PatchesInv
  <2>4. life' = "finalized" => req'.seekable /\ Whole' /\ patches' = << >>
    BY <1>2, <2>1, PatchedStill DEF PatchesInv
  <2>5. life' = "released" => patches' = << >>
    BY <2>1 DEF PatchesInv
  <2>6. life' \in {"writing", "finalized", "released", "killed"}
    BY <2>1 DEF PatchesInv
  <2> QED
    BY <1>2, <2>1, <2>2, <2>3, <2>4, <2>5, <2>6 DEF PatchesInv
<1> QED
  BY <1>1, <1>3, <1>4, <1>5 DEF WriterInv

\* Recording audio keeps the invariant of the writer.
LEMMA RecordKeeps ==
    ASSUME Inv, HeaderInv, WriterInv, NEW n \in Nat, Record(n)
    PROVE  WriterInv'
<1>1. /\ stage = "done" /\ patches = << >> /\ tail = << >> /\ life = "writing"
      /\ recorded' = recorded + n /\ FitsCapacity(n)
      /\ UNCHANGED vars /\ UNCHANGED <<tail, patches, patched, promised, life>>
  BY DEF Record, Writing
<1>2. /\ req' = req /\ stage' = "done" /\ header_len' = header_len /\ offsets' = offsets
  BY <1>1 DEF vars
<1>3. /\ recorded \in Nat /\ AudioEnd \in Nat /\ AudioEnd >= 44
      /\ AudioEnd = header_len + recorded /\ header_len \in Nat
  BY <1>1, EndFacts, DoneFacts DEF WriterInv
<1>4. TailInv'
  <2>1. DOMAIN tail' = {} /\ Len(tail') = 0 /\ tail' = << >>
    BY <1>1
  <2> QED
    BY <2>1 DEF TailInv
<1>5. AudioInv'
  <2>1. recorded' \in Nat
    BY <1>1, <1>3
  <2>2. AudioEnd' = AudioEnd + n
    BY <1>1, <1>2, <1>3 DEF AudioEnd
  <2>3. ASSUME req.seekable, ~req.rf64
        PROVE  AudioEnd' - 8 <= U32Max
    <3>1. SatSub(AudioEnd + n, 8) <= U32Max
      BY <1>1, <2>3 DEF FitsCapacity
    <3> QED
      BY <1>3, <2>2, <3>1 DEF SatSub
  <2> QED
    BY <1>2, <2>1, <2>3 DEF AudioInv
<1>6. NothingYet'
  BY <1>2 DEF NothingYet
<1>7. PatchedInv'
  <2>1. PatchedInv
    BY <1>1 DEF WriterInv
  <2>2. ~HalfPatched /\ ~HalfPatched'
    BY <1>1 DEF HalfPatched
  <2>3. Spots' = Spots
    BY <1>1, SameSpots
  <2>4. \A e, d : Agree(e, d) => Agree(e, d)'
    <3>1. DOMAIN tail = {}
      BY <1>1
    <3> QED
      BY <1>2, <3>1 DEF Agree
  <2>5. \A x \in promised .. recorded : x \in promised .. recorded'
    BY <1>1, <1>3
  <2> QED
    BY <1>1, <1>2, <2>1, <2>2, <2>3, <2>4, <2>5 DEF PatchedInv
<1>8. PatchesInv'
  BY <1>1 DEF PatchesInv
<1> QED
  BY <1>4, <1>5, <1>6, <1>7, <1>8 DEF WriterInv

\* So does attaching a chunk, which becomes the last one of the file.
LEMMA AttachKeeps ==
    ASSUME Inv, HeaderInv, WriterInv, NEW c, c.id \in STRING \ {Walk!NoId}, c.size \in Nat,
           Attach(c)
    PROVE  /\ WriterInv'
           /\ Len(tail') = Len(tail) + 1
           /\ \A i \in DOMAIN tail : tail'[i] = tail[i]
           /\ SameChunk(tail'[Len(tail')], c)
<1> DEFINE place == IF tail = << >> THEN AudioEnd + PadOf(recorded) ELSE FileEnd
           d == [id |-> c.id, size |-> c.size, at |-> place]
           E == [id : STRING, size : Nat, at : Nat]
<1>1. /\ stage = "done" /\ patches = << >> /\ life = "writing"
      /\ Suppliable(c, U32Max) /\ tail' = Append(tail, d)
      /\ UNCHANGED vars /\ UNCHANGED <<recorded, patches, patched, promised, life>>
  BY DEF Attach, Writing
<1>2. /\ req' = req /\ stage' = "done" /\ header_len' = header_len /\ offsets' = offsets
      /\ AudioEnd' = AudioEnd /\ recorded' = recorded
  BY <1>1 DEF vars, AudioEnd
<1>3. TailInv /\ AudioInv
  BY DEF WriterInv
<1>4. /\ recorded \in Nat /\ AudioEnd \in Nat /\ FileEnd \in Nat
      /\ Len(tail) \in Nat /\ DOMAIN tail = 1 .. Len(tail)
      /\ tail # << >> => FileEnd = EndOf(tail[Len(tail)])
      /\ \A i \in DOMAIN tail : EndOf(tail[i]) <= FileEnd
      /\ tail \in Seq(E)
  BY <1>1, <1>3, EndFacts DEF TailInv
<1>5. PadOf(recorded) \in {0, 1}
  BY <1>4, PadFacts
<1>6. place \in Nat
  BY <1>4, <1>5
<1>7. d \in E /\ d.id = c.id /\ d.size = c.size /\ d.at = place
  BY <1>6
<1> HIDE DEF d
<1>8. /\ tail' \in Seq(E) /\ Len(tail') = Len(tail) + 1
      /\ DOMAIN tail' = 1 .. Len(tail) + 1
      /\ \A i \in 1 .. Len(tail) : tail'[i] = tail[i]
      /\ tail'[Len(tail) + 1] = d
  <2> HIDE DEF E
  <2>1. PICK m : m = Len(tail)
    OBVIOUS
  <2>2. /\ tail' \in Seq(E) /\ Len(tail') = m + 1
        /\ \A i \in 1 .. m : tail'[i] = tail[i] /\ tail'[m + 1] = d
    BY <1>1, <1>4, <1>7, <2>1
  <2>3. DOMAIN tail' = 1 .. m + 1
    BY <2>2
  <2>4. tail'[m + 1] = d
    BY <1>1, <1>4, <1>7, <2>1
  <2> QED
    BY <2>1, <2>2, <2>3, <2>4
<1> HIDE DEF place
<1>9. TailInv'
  <2>1. \A i \in DOMAIN tail' : tail'[i].id \notin ReservedIds \cup {Walk!NoId}
    <3>1. d.id \notin ReservedIds \cup {Walk!NoId}
      BY <1>1, <1>7 DEF Suppliable
    <3>2. \A i \in 1 .. Len(tail) : tail'[i].id \notin ReservedIds \cup {Walk!NoId}
      BY <1>3, <1>4, <1>8 DEF TailInv
    <3>3. \A i \in DOMAIN tail' : i \in 1 .. Len(tail) \/ i = Len(tail) + 1
      BY <1>4, <1>8
    <3> QED
      BY <1>8, <3>1, <3>2, <3>3
  <2>2. \A i \in DOMAIN tail' : tail'[i].size <= U32Max
    <3>1. d.size <= U32Max
      BY <1>1, <1>7 DEF Suppliable
    <3>2. \A i \in 1 .. Len(tail) : tail'[i].size <= U32Max
      BY <1>3, <1>4, <1>8 DEF TailInv
    <3>3. \A i \in DOMAIN tail' : i \in 1 .. Len(tail) \/ i = Len(tail) + 1
      BY <1>4, <1>8
    <3> QED
      BY <1>8, <3>1, <3>2, <3>3
  <2>3. tail'[1].at = AudioEnd' + PadOf(recorded')
    <3>1. CASE tail = << >>
      <4>1. Len(tail) = 0
        BY <3>1
      <4> QED
        BY <1>2, <1>7, <1>8, <3>1, <4>1 DEF place
    <3>2. CASE tail # << >>
      <4>1. 1 \in 1 .. Len(tail)
        BY <1>4, <3>2
      <4> QED
        BY <1>2, <1>3, <1>8, <3>2, <4>1 DEF TailInv
    <3> QED
      BY <3>1, <3>2
  <2>4. ASSUME NEW i \in 1 .. Len(tail') - 1
        PROVE  tail'[i + 1].at = EndOf(tail'[i])
    <3>1. CASE i = Len(tail)
      <4>1. tail # << >> /\ i \in 1 .. Len(tail)
        BY <1>4, <3>1
      <4>2. tail'[i + 1].at = FileEnd
        BY <1>7, <1>8, <3>1, <4>1 DEF place
      <4> QED
        BY <1>4, <1>8, <3>1, <4>1, <4>2
    <3>2. CASE i # Len(tail)
      <4>0. PICK m \in Nat : m = Len(tail) /\ Len(tail') = m + 1
        BY <1>4, <1>8
      <4>1. i \in 1 .. Len(tail) - 1 /\ i \in 1 .. Len(tail) /\ i + 1 \in 1 .. Len(tail)
        BY <3>2, <4>0
      <4>2. tail[i + 1].at = EndOf(tail[i])
        BY <1>3, <4>1 DEF TailInv
      <4>3. tail'[i + 1] = tail[i + 1] /\ tail'[i] = tail[i]
        BY <1>8, <4>1
      <4> QED
        BY <4>2, <4>3
    <3> QED
      BY <3>1, <3>2
  <2>5. ASSUME NEW i \in DOMAIN tail', NEW j \in DOMAIN tail', i < j
        PROVE  EndOf(tail'[i]) <= tail'[j].at
    <3>1. i \in 1 .. Len(tail)
      BY <1>4, <1>8, <2>5
    <3>2. CASE j = Len(tail) + 1
      <4>1. tail # << >>
        BY <1>4, <3>1
      <4>2. tail'[j].at = FileEnd
        BY <1>7, <1>8, <3>2, <4>1 DEF place
      <4> QED
        BY <1>4, <1>8, <3>1, <4>2
    <3>3. CASE j # Len(tail) + 1
      <4>1. j \in 1 .. Len(tail)
        BY <1>4, <1>8, <3>3
      <4> QED
        BY <1>3, <1>4, <1>8, <2>5, <3>1, <4>1 DEF TailInv
    <3> QED
      BY <3>2, <3>3
  <2>6. \A x : EndOf(x)' = EndOf(x)
    BY DEF EndOf
  <2> QED
    BY <1>8, <2>1, <2>2, <2>3, <2>4, <2>5, <2>6 DEF TailInv, EndOf
<1>10. AudioInv'
  BY <1>2, <1>3 DEF AudioInv
<1>11. NothingYet'
  BY <1>2 DEF NothingYet
<1>12. PatchedInv'
  <2>1. PatchedInv
    BY <1>1 DEF WriterInv
  <2>2. ~HalfPatched /\ ~HalfPatched'
    BY <1>1 DEF HalfPatched
  <2>3. Spots' = Spots
    BY <1>1, SameSpots
  <2>4. \A e, n : Agree(e, n) => Agree(e, n)'
    <3>1. \A i \in DOMAIN tail : i \in DOMAIN tail' /\ EndOf(tail'[i]) = EndOf(tail[i])
      BY <1>4, <1>8
    <3> QED
      BY <1>2, <3>1 DEF Agree, EndOf
  <2> QED
    BY <1>1, <1>2, <2>1, <2>2, <2>3, <2>4 DEF PatchedInv
<1>13. PatchesInv'
  BY <1>1 DEF PatchesInv
<1> QED
  BY <1>4, <1>7, <1>8, <1>9, <1>10, <1>11, <1>12, <1>13 DEF WriterInv, SameChunk

\* So does starting to refresh the header.
LEMMA RefreshKeeps ==
    ASSUME Inv, HeaderInv, WriterInv, NEW last, Refresh(last)
    PROVE  WriterInv'
<1>1. /\ stage = "done" /\ patches = << >> /\ life = "writing" /\ req.seekable
      /\ patches' = PatchList
      /\ UNCHANGED vars /\ UNCHANGED <<recorded, tail, patched, promised, life>>
  BY DEF Refresh, Writing
<1>2. /\ req' = req /\ stage' = "done" /\ header_len' = header_len /\ offsets' = offsets
      /\ PatchList' = PatchList /\ Spots' = Spots
  BY <1>1, SameFile DEF vars
<1>3. TailInv' /\ AudioInv'
  BY <1>1, TailStill DEF WriterInv
<1>4. /\ PatchList \in Seq([at : Int, number : Int]) /\ Len(PatchList) \in {2, 3}
      /\ DOMAIN PatchList = 1 .. Len(PatchList)
  BY <1>1, PatchListFacts DEF WriterInv
<1>5. ~HalfPatched /\ ~HalfPatched'
  <2>1. PICK n \in Nat : n = Len(PatchList)
    BY <1>4
  <2>2. Len(patches') = n /\ Len(PatchList') = n
    BY <1>1, <1>2, <2>1
  <2>3. n # n - 1
    OBVIOUS
  <2> QED
    BY <1>1, <2>2, <2>3 DEF HalfPatched
<1>6. PatchedInv'
  <2>1. PatchedInv
    BY <1>1 DEF WriterInv
  <2>2. \A e, n : Agree(e, n) <=> Agree(e, n)'
    BY <1>1, <1>2 DEF Agree
  <2> QED
    BY <1>1, <1>2, <1>5, <2>1, <2>2 DEF PatchedInv
<1>7. PatchesInv'
  <2>1. Patching(0)'
    BY <1>1, <1>2, <1>4 DEF Patching
  <2>2. 0 \in 0 .. Len(PatchList') - 1
    BY <1>2, <1>4
  <2> QED
    BY <1>1, <1>4, <2>1, <2>2 DEF PatchesInv
<1> QED
  BY <1>2, <1>3, <1>6, <1>7 DEF WriterInv, NothingYet

\* A function changed at one place.
LEMMA PatchOne ==
    ASSUME NEW f, NEW x, NEW y, NEW g,
           g = [z \in DOMAIN f \cup {x} |-> IF z = x THEN y ELSE f[z]]
    PROVE  /\ DOMAIN g = DOMAIN f \cup {x}
           /\ g[x] = y
           /\ \A z \in DOMAIN f : z # x => g[z] = f[z]
OBVIOUS

\* What is left of a list behind its first element.
LEMMA TailOf ==
    ASSUME NEW E, NEW s \in Seq(E), s # << >>
    PROVE  /\ Head(s) = s[1] /\ Tail(s) \in Seq(E) /\ Len(Tail(s)) = Len(s) - 1
           /\ Len(s) \in Nat /\ Len(s) >= 1
           /\ \A i \in 1 .. Len(s) - 1 : Tail(s)[i] = s[i + 1]
OBVIOUS

\* Every field written keeps the invariant: the ones before it are in the file,
\* and the last makes the header whole.
LEMMA WritePatchKeeps ==
    ASSUME Inv, HeaderInv, WriterInv, WritePatch
    PROVE  WriterInv'
<1> DEFINE E == [at : Int, number : Int]
<1>1. /\ life = "writing" /\ patches # << >>
      /\ patched' = [z \in DOMAIN patched \cup {Head(patches).at} |->
                        IF z = Head(patches).at THEN Head(patches).number ELSE patched[z]]
      /\ patches' = Tail(patches)
      /\ promised' = (IF Len(patches) = 1 THEN recorded ELSE promised)
      /\ life' = (IF Len(patches) = 1 /\ closing THEN "finalized" ELSE life)
      /\ UNCHANGED vars /\ UNCHANGED <<recorded, tail>>
  BY DEF WritePatch
<1>2. stage = "done"
  BY <1>1 DEF WriterInv, NothingYet
<1>3. PatchedInv /\ PatchesInv /\ TailInv /\ AudioInv
  BY <1>2 DEF WriterInv
<1>4. /\ req' = req /\ stage' = "done" /\ header_len' = header_len /\ offsets' = offsets
      /\ PatchList' = PatchList /\ Spots' = Spots /\ recorded' = recorded
      /\ req.seekable
  BY <1>1, <1>2, <1>3, SameFile DEF vars, PatchedInv
<1>5. PICK L : L = Len(PatchList)
  OBVIOUS
<1>6. /\ L \in {2, 3} /\ DOMAIN PatchList = 1 .. L
      /\ PatchList[1].at = offsets.riff /\ PatchList[1].number = FileEnd - 8
      /\ PatchList[2].at = offsets.data /\ PatchList[2].number = recorded
      /\ L = 3 => PatchList[3].at = offsets.count
      /\ \A i \in 1 .. L : PatchList[i].at \in Spots
  BY <1>2, <1>3, <1>5, PatchListFacts
<1>7. PICK k \in 0 .. L - 1 : Patching(k)
  BY <1>1, <1>3, <1>5 DEF PatchesInv
<1>8. /\ Len(patches) = L - k
      /\ \A i \in DOMAIN patches : patches[i] = PatchList[k + i]
      /\ \A i \in 1 .. k : /\ PatchList[i].at \in DOMAIN patched
                           /\ patched[PatchList[i].at] = PatchList[i].number
  BY <1>5, <1>7 DEF Patching
<1>9. patches \in Seq(E)
  BY <1>3 DEF PatchesInv
<1> HIDE DEF E
<1>10. /\ Head(patches) = PatchList[k + 1] /\ Len(patches') = L - (k + 1)
       /\ patches' \in Seq(E)
       /\ \A i \in 1 .. L - (k + 1) : patches'[i] = PatchList[k + 1 + i]
  <2>1. /\ Head(patches) = patches[1] /\ Tail(patches) \in Seq(E)
        /\ Len(Tail(patches)) = Len(patches) - 1 /\ DOMAIN patches = 1 .. Len(patches)
        /\ \A i \in 1 .. Len(patches) - 1 : Tail(patches)[i] = patches[i + 1]
    BY <1>1, <1>9, TailOf
  <2>2. patches[1] = PatchList[k + 1]
    BY <1>6, <1>8, <2>1
  <2>3. ASSUME NEW i \in 1 .. L - (k + 1)
        PROVE  patches'[i] = PatchList[k + 1 + i]
    <3>1. i \in 1 .. Len(patches) - 1 /\ i + 1 \in DOMAIN patches
      BY <1>6, <1>8, <2>1
    <3>2. patches'[i] = PatchList[k + (i + 1)]
      BY <1>1, <1>8, <2>1, <3>1
    <3>3. k + (i + 1) = k + 1 + i
      OBVIOUS
    <3> QED
      BY <3>2, <3>3
  <2> QED
    BY <1>1, <1>6, <1>8, <2>1, <2>2, <2>3
<1> DEFINE p == PatchList[k + 1]
<1>11. /\ DOMAIN patched' = DOMAIN patched \cup {p.at}
       /\ patched'[p.at] = p.number
       /\ \A z \in DOMAIN patched : z # p.at => patched'[z] = patched[z]
  BY <1>1, <1>10, PatchOne
<1>12. /\ offsets.riff # offsets.data /\ offsets.riff # offsets.count
       /\ offsets.data # offsets.count
  BY <1>2, PlacesFacts
<1>13. /\ recorded \in Nat /\ FileEnd \in Nat /\ FileEnd >= 44
       /\ AudioEnd = header_len + recorded /\ header_len \in Nat
       /\ FileEnd >= AudioEnd
       /\ tail = << >> => FileEnd = AudioEnd
       /\ tail # << >> => /\ Len(tail) \in DOMAIN tail
                          /\ FileEnd = EndOf(tail[Len(tail)])
  BY <1>2, <1>3, EndFacts, DoneFacts
\* The patches before the next one.
<1>14. \A i \in 1 .. k + 1 : /\ PatchList[i].at \in DOMAIN patched'
                             /\ patched'[PatchList[i].at] = PatchList[i].number
  <2> TAKE i \in 1 .. k + 1
  <2>1. CASE i = k + 1
    BY <1>11, <2>1
  <2>2. CASE i # k + 1
    <3>1. i \in 1 .. k
      BY <2>2
    <3>2. PatchList[i].at # p.at
      <4>1. CASE k = 1
        BY <1>6, <1>12, <3>1, <4>1
      <4>2. CASE k = 2
        BY <1>6, <1>12, <3>1, <4>2
      <4> QED
        BY <1>6, <3>1, <4>1, <4>2
    <3> QED
      BY <1>8, <1>11, <3>1, <3>2
  <2> QED
    BY <2>1, <2>2
<1>15. TailInv' /\ AudioInv'
  BY <1>1, <1>3, TailStill
<1>16. NothingYet'
  BY <1>4 DEF NothingYet
<1>17. PatchesInv'
  <2>1. /\ life' \in {"writing", "finalized", "released", "killed"}
        /\ patches' \in Seq(E)
    BY <1>1, <1>10
  <2>2. CASE k + 1 = L
    <3>1. patches' = << >>
      BY <1>6, <1>10, <2>2
    <3>2. Whole'
      BY <1>4, <1>6, <1>14, <2>2 DEF Whole
    <3> QED
      BY <1>4, <2>1, <3>1, <3>2 DEF PatchesInv, E
  <2>3. CASE k + 1 # L
    <3>1. life' = "writing"
      BY <1>1, <1>6, <1>8, <2>3
    <3>2. DOMAIN patches' = 1 .. L - (k + 1)
      BY <1>10
    <3>3. Patching(k + 1)'
      BY <1>4, <1>5, <1>10, <1>14, <3>2 DEF Patching
    <3>4. k + 1 \in 0 .. Len(PatchList') - 1
      BY <1>4, <1>5, <1>6, <2>3
    <3> QED
      BY <2>1, <3>1, <3>3, <3>4 DEF PatchesInv, E
  <2> QED
    BY <2>2, <2>3
<1>18. PatchedInv'
  <2>1. /\ DOMAIN patched \subseteq Spots /\ promised \in Nat
        /\ offsets.data \in DOMAIN patched =>
            /\ offsets.riff \in DOMAIN patched
            /\ patched[offsets.data] \in promised .. recorded
        /\ offsets.data \notin DOMAIN patched => promised = 0
        /\ offsets.riff \in DOMAIN patched => patched[offsets.riff] \in Nat
        /\ ~HalfPatched /\ offsets.riff \in DOMAIN patched =>
            /\ offsets.data \in DOMAIN patched
            /\ Agree(patched[offsets.riff] + 8, patched[offsets.data])
    BY <1>3 DEF PatchedInv
  <2>2. DOMAIN patched' \subseteq Spots
    BY <1>6, <1>11, <2>1
  <2>3. promised' \in Nat
    BY <1>1, <1>13, <2>1
  <2>4. \A e, d : Agree(e, d)' <=> Agree(e, d)
    BY <1>1, <1>4 DEF Agree
  <2>5. CASE k = 0
    <3>1. p.at = offsets.riff /\ p.number = FileEnd - 8 /\ promised' = promised
      BY <1>1, <1>6, <1>8, <2>5
    <3>2. HalfPatched'
      <4>1. Len(patches') = L - 1 /\ L - 1 # 0
        BY <1>6, <1>10, <2>5
      <4>2. patches' # << >>
        BY <1>10, <4>1
      <4> QED
        BY <1>4, <1>5, <4>1, <4>2 DEF HalfPatched
    <3>3. /\ offsets.riff \in DOMAIN patched' /\ patched'[offsets.riff] \in Nat
      BY <1>11, <1>13, <3>1
    <3>4. offsets.data \in DOMAIN patched' <=> offsets.data \in DOMAIN patched
      BY <1>11, <1>12, <3>1
    <3>5. offsets.data \in DOMAIN patched => patched'[offsets.data] = patched[offsets.data]
      BY <1>11, <1>12, <3>1
    <3> QED
      BY <1>4, <2>1, <2>2, <2>3, <3>1, <3>2, <3>3, <3>4, <3>5 DEF PatchedInv
  <2>6. CASE k >= 1
    <3>1. /\ offsets.riff \in DOMAIN patched' /\ patched'[offsets.riff] = FileEnd - 8
      BY <1>6, <1>14, <2>6
    <3>2. /\ offsets.data \in DOMAIN patched' /\ patched'[offsets.data] = recorded
      <4>1. 2 \in 1 .. k + 1
        BY <2>6
      <4> QED
        BY <1>6, <1>14, <4>1
    <3>3. Agree(FileEnd - 8 + 8, recorded)
      <4>1. FileEnd - 8 + 8 = FileEnd
        BY <1>13
      <4> QED
        BY <1>13, <4>1 DEF Agree
    <3>4. promised' <= recorded
      BY <1>1, <1>13, <2>1
    <3>5. recorded \in promised' .. recorded /\ FileEnd - 8 \in Nat
      BY <1>13, <2>3, <3>4
    <3> QED
      BY <1>4, <2>2, <2>3, <2>4, <3>1, <3>2, <3>3, <3>5 DEF PatchedInv
  <2> QED
    BY <2>5, <2>6
<1> QED
  BY <1>15, <1>16, <1>17, <1>18 DEF WriterInv

-----------------------------------------------------------------------------
(* Things with places, in the order of their places.                       *)

\* Things at different places are as many as the places.
LEMMA CountingUpTo ==
    ASSUME NEW n \in Nat, NEW e, \A i \in 1 .. n : e[i].at \in Int,
           \A i, j \in 1 .. n : i < j => e[i].at < e[j].at,
           NEW m \in 0 .. n
    PROVE  Cardinality({e[i] : i \in 1 .. m}) = m
<1> DEFINE S == {e[i] : i \in 1 .. m}
           g == [i \in 1 .. m |-> e[i]]
<1>1. g \in [1 .. m -> S]
  OBVIOUS
<1>2. ASSUME NEW i \in 1 .. m, NEW j \in 1 .. m, g[i] = g[j]
      PROVE  i = j
  <2>1. i \in 1 .. n /\ j \in 1 .. n /\ e[i].at = e[j].at
    BY <1>2
  <2>2. ~(e[i].at < e[j].at) /\ ~(e[j].at < e[i].at)
    BY <2>1
  <2> QED
    BY <2>1, <2>2
<1>3. \A s \in S : \E i \in 1 .. m : g[i] = s
  OBVIOUS
<1> HIDE DEF g, S
<1>4. g \in Bijection(1 .. m, S)
  BY <1>1, <1>2, <1>3 DEF Bijection, Injection, Surjection, IsInjective
<1>5. ExistsBijection(1 .. m, S)
  BY <1>4 DEF ExistsBijection
<1>6. m \in Nat
  OBVIOUS
<1> QED
  BY <1>5, <1>6, FS_CountingElements DEF S

\* Ordering the things of a list whose places grow gives that list back.
LEMMA InOrderIs ==
    ASSUME NEW n \in Nat, NEW e, \A i \in 1 .. n : e[i].at \in Int,
           \A i, j \in 1 .. n : i < j => e[i].at < e[j].at
    PROVE  InOrder({e[i] : i \in 1 .. n}) = [i \in 1 .. n |-> e[i]]
<1> DEFINE S == {e[i] : i \in 1 .. n}
           Before(x) == {y \in S : y.at < x.at}
<1>1. Cardinality(S) = n
  <2>1. PICK m : m = n
    OBVIOUS
  <2>2. m \in 0 .. n
    BY <2>1
  <2>3. Cardinality({e[i] : i \in 1 .. m}) = m
    BY <2>2, CountingUpTo
  <2> QED
    BY <2>1, <2>3
<1>2. ASSUME NEW i \in 1 .. n
      PROVE  Before(e[i]) = {e[j] : j \in 1 .. i - 1} /\ Cardinality(Before(e[i])) = i - 1
  <2>1. ASSUME NEW j \in 1 .. n
        PROVE  e[j].at < e[i].at <=> j < i
    <3>1. CASE j = i
      BY <3>1
    <3>2. CASE j < i
      BY <3>2
    <3>3. CASE i < j
      <4>1. e[i].at < e[j].at /\ e[i].at \in Int /\ e[j].at \in Int
        BY <3>3
      <4> QED
        BY <3>3, <4>1
    <3> QED
      BY <3>1, <3>2, <3>3
  <2>2. \A j \in 1 .. n : j < i <=> j \in 1 .. i - 1
    OBVIOUS
  <2>3. \A j \in 1 .. i - 1 : j \in 1 .. n
    OBVIOUS
  <2>4. Before(e[i]) = {e[j] : j \in 1 .. i - 1}
    BY <2>1, <2>2, <2>3
  <2>5. i - 1 \in 0 .. n
    OBVIOUS
  <2> HIDE DEF Before, S
  <2> QED
    BY <2>4, <2>5, CountingUpTo
<1>3. ASSUME NEW i \in 1 .. n
      PROVE  (CHOOSE x \in S : Cardinality(Before(x)) = i - 1) = e[i]
  <2>1. e[i] \in S
    OBVIOUS
  <2>2. ASSUME NEW x \in S, Cardinality(Before(x)) = i - 1
        PROVE  x = e[i]
    <3>1. PICK j \in 1 .. n : x = e[j]
      OBVIOUS
    <3>2. Cardinality(Before(x)) = j - 1
      BY <1>2, <3>1
    <3>3. i = j
      BY <2>2, <3>2
    <3> QED
      BY <3>1, <3>3
  <2> HIDE DEF S, Before
  <2>3. Cardinality(Before(e[i])) = i - 1
    BY <1>2
  <2> QED
    BY <2>1, <2>2, <2>3
<1>4. InOrder(S) = [i \in 1 .. Cardinality(S) |->
                        CHOOSE x \in S : Cardinality(Before(x)) = i - 1]
  BY DEF InOrder
<1> HIDE DEF S, Before
<1>5. InOrder(S) = [i \in 1 .. n |-> e[i]]
  BY <1>1, <1>3, <1>4
<1> QED
  BY <1>5 DEF S

-----------------------------------------------------------------------------
(* What the walk comes upon.                                               *)

\* The numbers of a whole file.
LEMMA NumberFacts ==
    ASSUME Inv, HeaderInv, WriterInv, stage = "done"
    PROVE  /\ DataLen \in Nat /\ RiffLen \in Nat
           /\ DOMAIN patched \subseteq Spots
           /\ req.rf64 => Spots \subseteq {20, 28, 36}
           /\ ~req.rf64 => Spots \subseteq {4, header_len - 4, offsets.count}
           /\ offsets.data \in DOMAIN patched => DataLen \in promised .. recorded
<1>1. PatchedInv
  BY DEF WriterInv
<1>2. recorded \in Nat
  BY EndFacts DEF WriterInv
<1>3. offsets.data \in DOMAIN patched => DataLen \in promised .. recorded
  BY <1>1 DEF PatchedInv, DataLen
<1>4. promised \in Nat /\ DOMAIN patched \subseteq Spots
  BY <1>1 DEF PatchedInv
<1>5. DataLen \in Nat
  <2>1. CASE offsets.data \in DOMAIN patched
    BY <1>2, <1>3, <1>4, <2>1
  <2>2. CASE offsets.data \notin DOMAIN patched
    BY <2>2, LimitsAssumption DEF DataLen
  <2> QED
    BY <2>1, <2>2
<1>6. RiffLen \in Nat
  <2>1. CASE offsets.riff \in DOMAIN patched
    BY <1>1, <2>1 DEF PatchedInv, RiffLen
  <2>2. CASE offsets.riff \notin DOMAIN patched
    BY <2>2, LimitsAssumption DEF RiffLen
  <2> QED
    BY <2>1, <2>2
<1>7. req.rf64 => Spots \subseteq {20, 28, 36}
  BY PlacesFacts DEF Spots
<1>8. ~req.rf64 => Spots \subseteq {4, header_len - 4, offsets.count}
  BY PlacesFacts DEF Spots
<1> QED
  BY <1>3, <1>4, <1>5, <1>6, <1>7, <1>8

\* Before the header is whole the file is the header.
LEMMA UnpatchedYet ==
    ASSUME WriterInv, stage # "done"
    PROVE  DOMAIN patched = {} /\ DOMAIN tail = {} /\ FileEnd = emitted
BY DEF WriterInv, NothingYet, FileEnd

\* Which fields are sizes, and where.
LEMMA SizesInPlace ==
    ASSUME NEW at, Laid(at), NEW f \in fields, f.name = "size"
    PROVE  \/ f = RiffField
           \/ \E i \in 1 .. Len(at) - 1 : f = SizeOf(i, at[i])
           \/ stage = "done" /\ f = DataField
<1>1. Accounted(at, f)
  BY DEF Laid
<1>2. \A g \in Numbers : g.name # "size"
  BY DEF Numbers, Field
<1> QED
  BY <1>1, <1>2 DEF Accounted

\* What the size field of a chunk is.
LEMMA SizeFieldFacts ==
    ASSUME NEW id, NEW a, NEW v, NEW n
    PROVE  LET f == SizeField(id, a, v, n)
           IN  /\ f.chunk = id /\ f.name = "size" /\ f.at = a /\ f.value = v
               /\ f.number = (IF v = "size" THEN n ELSE U32Max)
BY DEF SizeField, Field

\* Where the size fields of the header are, and what they were written as.
LEMMA HeaderSizes ==
    /\ RiffField.at = 4 /\ RiffField.chunk = "RIFF" /\ RiffField.name = "size"
    /\ RiffField.number = U32Max
    /\ DataField.at = header_len - 4 /\ DataField.chunk = "data"
    /\ DataField.name = "size" /\ DataField.number = U32Max
    /\ \A i, s : /\ SizeOf(i, s).at = s + 4 /\ SizeOf(i, s).chunk = IdOf(i)
                 /\ SizeOf(i, s).name = "size" /\ SizeOf(i, s).number = LenOf(i)
<1>1. /\ RiffField.at = 4 /\ RiffField.chunk = "RIFF" /\ RiffField.name = "size"
      /\ RiffField.number = U32Max
  <2>1. CASE req.rf64
    BY <2>1, SizeFieldFacts DEF RiffField
  <2>2. CASE ~req.rf64
    BY <2>2, SizeFieldFacts DEF RiffField
  <2> QED
    BY <2>1, <2>2
<1>2. /\ DataField.at = header_len - 4 /\ DataField.chunk = "data"
      /\ DataField.name = "size" /\ DataField.number = U32Max
  <2>1. CASE req.rf64
    BY <2>1, SizeFieldFacts DEF DataField
  <2>2. CASE ~req.rf64
    BY <2>2, SizeFieldFacts DEF DataField
  <2> QED
    BY <2>1, <2>2
<1>3. \A i, s : /\ SizeOf(i, s).at = s + 4 /\ SizeOf(i, s).chunk = IdOf(i)
                /\ SizeOf(i, s).name = "size" /\ SizeOf(i, s).number = LenOf(i)
  BY SizeFieldFacts DEF SizeOf
<1> QED
  BY <1>1, <1>2, <1>3

WrittenAt(x) ==
    {[id |-> f.chunk, len |-> NumberIn(f)] :
        f \in {g \in fields : g.name = "size" /\ g.at = x + 4}}

AttachedAt(x) ==
    {[id |-> c.id, len |-> c.size] : c \in {tail[i] : i \in
        {j \in DOMAIN tail : tail[j].at = x}}}

\* The chunk headers at a place: those written or attached there, else whatever the
\* audio may look like.
LEMMA HeadersAtIs ==
    ASSUME NEW x
    PROVE  HeadersAt(x) = IF WrittenAt(x) \cup AttachedAt(x) # {}
                          THEN WrittenAt(x) \cup AttachedAt(x) ELSE Looks
BY DEF HeadersAt, WrittenAt, AttachedAt

\* A place with the size field of one chunk of the header has that header.
LEMMA OneWritten ==
    ASSUME NEW x, NEW f \in fields, f.name = "size", f.at = x + 4,
           \A g \in fields : g.name = "size" /\ g.at = x + 4 => g = f,
           \A j \in DOMAIN tail : tail[j].at # x
    PROVE  HeadersAt(x) = {[id |-> f.chunk, len |-> NumberIn(f)]}
<1>1. {g \in fields : g.name = "size" /\ g.at = x + 4} = {f}
  OBVIOUS
<1>2. WrittenAt(x) = {[id |-> f.chunk, len |-> NumberIn(f)]}
  BY <1>1 DEF WrittenAt
<1>3. AttachedAt(x) = {}
  BY DEF AttachedAt
<1>4. WrittenAt(x) \cup AttachedAt(x) = {[id |-> f.chunk, len |-> NumberIn(f)]}
  BY <1>2, <1>3
<1>5. WrittenAt(x) \cup AttachedAt(x) # {}
  BY <1>4
<1> QED
  BY <1>4, <1>5, HeadersAtIs

\* A chunk of the header.
LEMMA HeaderChunkHere ==
    ASSUME Inv, HeaderInv, WriterInv, emitted # 0,
           NEW at, Laid(at), NEW k \in 1 .. Len(at) - 1
    PROVE  HeadersAt(at[k]) = {[id |-> IdOf(k), len |-> LenOf(k)]}
<1> DEFINE f == SizeOf(k, at[k])
<1>1. f \in fields
  BY DEF Laid
<1>2. f.name = "size" /\ f.at = at[k] + 4 /\ f.chunk = IdOf(k) /\ f.number = LenOf(k)
  BY HeaderSizes
<1>3. PICK n : n = Len(at)
  OBVIOUS
<1>4. /\ n \in Nat \ {0}
      /\ \A i \in 1 .. n : at[i] \in Nat /\ at[i] >= 12
      /\ \A i, j \in 1 .. n : i < j => at[i] + 8 <= at[j]
      /\ k \in 1 .. n /\ k < n /\ at[1] = 12
  <2>1. /\ n \in Nat \ {0} /\ at[1] = 12
        /\ \A i \in 1 .. n : at[i] \in Nat /\ at[i] >= 12
        /\ \A i, j \in 1 .. n : i < j => at[i] + 8 <= at[j]
    BY <1>3, LaidFacts
  <2>2. k \in 1 .. n - 1
    BY <1>3
  <2>3. k \in 1 .. n /\ k < n
    BY <2>1, <2>2
  <2> QED
    BY <2>1, <2>3
<1>5. stage = "done" => at[n] = header_len - 8 /\ header_len \in Nat
  BY <1>3, DoneFacts DEF Laid, Contiguous
<1>6. ASSUME NEW g \in fields, g.name = "size", g.at = at[k] + 4
      PROVE  g = f
  <2>1. CASE g = RiffField
    <3>1. at[k] + 4 = 4
      BY <1>6, <2>1, HeaderSizes
    <3> QED
      BY <1>4, <3>1
  <2>2. ASSUME NEW i \in 1 .. n - 1, g = SizeOf(i, at[i])
        PROVE  g = f
    <3>1. at[i] + 4 = at[k] + 4
      BY <1>6, <2>2, HeaderSizes
    <3>2. i \in 1 .. n /\ at[i] = at[k]
      BY <1>4, <3>1
    <3>3. ~(i < k) /\ ~(k < i)
      BY <1>4, <3>2
    <3>4. i = k
      BY <1>4, <3>3
    <3> QED
      BY <2>2, <3>4
  <2>3. CASE stage = "done" /\ g = DataField
    <3>1. at[k] + 4 = header_len - 4
      BY <1>6, <2>3, HeaderSizes
    <3>2. at[k] + 8 <= at[n]
      BY <1>4
    <3> QED
      BY <1>4, <1>5, <2>3, <3>1, <3>2
  <2> QED
    BY <1>3, <1>6, <2>1, <2>2, <2>3, SizesInPlace
<1>7. \A j \in DOMAIN tail : tail[j].at # at[k]
  <2>1. CASE stage = "done"
    <3>1. at[k] + 8 <= at[n] /\ at[k] \in Nat
      BY <1>4
    <3>2. \A j \in DOMAIN tail : /\ tail[j].at \in Nat
                                 /\ tail[j].at >= AudioEnd + PadOf(recorded)
      BY <2>1, EndFacts DEF WriterInv
    <3>3. AudioEnd \in Nat /\ AudioEnd = header_len + recorded /\ recorded \in Nat
      BY <2>1, EndFacts DEF WriterInv
    <3>4. PadOf(recorded) \in {0, 1}
      BY <3>3, PadFacts
    <3>5. at[k] < header_len
      BY <1>5, <2>1, <3>1
    <3> QED
      BY <1>5, <2>1, <3>1, <3>2, <3>3, <3>4, <3>5
  <2>2. CASE stage # "done"
    BY <2>2, UnpatchedYet
  <2> QED
    BY <2>1, <2>2
<1>8. at[k] + 4 \notin DOMAIN patched
  <2>1. CASE stage # "done"
    BY <2>1, UnpatchedYet
  <2>2. CASE stage = "done"
    <3>1. SUFFICES ASSUME at[k] + 4 \in Spots PROVE FALSE
      BY <2>2, NumberFacts
    <3>2. at[k] \in Nat /\ at[k] >= 12 /\ at[k] + 8 <= header_len - 8
      BY <1>4, <1>5, <2>2
    <3>3. k = 1 => at[k] = 12
      BY <1>4
    <3>4. k > 2 => at[2] + 8 <= at[k] /\ at[2] \in Nat
      <4>1. 2 \in 1 .. n \/ k <= 2
        BY <1>4
      <4> QED
        BY <1>4, <4>1
    <3>5. CASE req.rf64
      <4>1. at[k] + 4 \in {20, 28, 36}
        BY <2>2, <3>1, <3>5, NumberFacts
      <4>2. at[2] = 48
        BY <2>2, <3>5, PlacesFacts
      <4>3. k = 2 => at[k] = 48
        BY <4>2
      <4> QED
        BY <1>4, <3>2, <3>3, <3>4, <4>1, <4>2, <4>3
    <3>6. CASE ~req.rf64
      <4>1. at[k] + 4 \in {4, header_len - 4, offsets.count}
        BY <2>2, <3>1, <3>6, NumberFacts
      <4>2. at[k] + 4 = offsets.count
        BY <1>5, <2>2, <3>2, <4>1
      <4>3. offsets.count = (IF FactToWrite = "counted" THEN CountAt ELSE Absent)
        BY <2>2, <3>6, PlacesFacts
      <4>4. FactToWrite = "counted" /\ at[k] + 4 = CountAt
        BY <3>2, <4>2, <4>3 DEF Absent
      <4>5. HasFact
        BY <3>6, <4>4 DEF HasFact
      <4>6. at[2] = CountAt - 8 /\ CountAt \in Nat /\ CountAt >= 44
        BY <2>2, <4>5, PlacesFacts
      <4>7. k = 2 => at[k] = CountAt - 8
        BY <4>6
      <4> QED
        BY <1>4, <3>2, <3>3, <3>4, <4>4, <4>6, <4>7
    <3> QED
      BY <3>5, <3>6
  <2> QED
    BY <2>1, <2>2
<1> HIDE DEF f
<1>9. NumberIn(f) = LenOf(k)
  BY <1>2, <1>8 DEF NumberIn
<1>10. HeadersAt(at[k]) = {[id |-> f.chunk, len |-> NumberIn(f)]}
  BY <1>1, <1>2, <1>6, <1>7, OneWritten
<1> QED
  BY <1>2, <1>9, <1>10

\* The header of the data chunk.
LEMMA DataHeaderHere ==
    ASSUME Inv, HeaderInv, WriterInv, stage = "done"
    PROVE  HeadersAt(header_len - 8)
                = {[id |-> "data", len |-> IF req.rf64 THEN U32Max ELSE DataLen]}
<1> DEFINE x == header_len - 8
           f == DataField
<1>1. emitted # 0 /\ header_len \in Nat /\ header_len >= 44
  BY DoneFacts, PlacesFacts
<1>2. PICK at \in Seq(Nat) : Laid(at)
  BY DoneFacts
<1>3. f \in fields
  BY <1>2 DEF Laid
<1>4. f.name = "size" /\ f.at = x + 4 /\ f.chunk = "data" /\ f.number = U32Max
      /\ f.at = header_len - 4
  BY <1>1, HeaderSizes
<1>5. PICK n : n = Len(at)
  OBVIOUS
<1>6. /\ n \in Nat \ {0} /\ at[n] = header_len - 8
      /\ \A i \in 1 .. n : at[i] \in Nat /\ at[i] >= 12
      /\ \A i, j \in 1 .. n : i < j => at[i] + 8 <= at[j]
  BY <1>1, <1>2, <1>5, LaidFacts, PlacesFacts
<1>7. ASSUME NEW g \in fields, g.name = "size", g.at = x + 4
      PROVE  g = f
  <2>1. CASE g = RiffField
    <3>1. x + 4 = 4
      BY <1>7, <2>1, HeaderSizes
    <3> QED
      BY <1>1, <3>1
  <2>2. ASSUME NEW i \in 1 .. n - 1, g = SizeOf(i, at[i])
        PROVE  FALSE
    <3>1. at[i] + 4 = x + 4
      BY <1>7, <2>2, HeaderSizes
    <3>2. i \in 1 .. n /\ n \in 1 .. n /\ i < n
      BY <1>6
    <3>3. at[i] + 8 <= at[n]
      BY <1>6, <3>2
    <3> QED
      BY <1>1, <1>6, <3>1, <3>2, <3>3
  <2> QED
    BY <1>2, <1>5, <1>7, <2>1, <2>2, SizesInPlace
<1>8. \A j \in DOMAIN tail : tail[j].at # x
  <2>1. \A j \in DOMAIN tail : /\ tail[j].at \in Nat
                               /\ tail[j].at >= AudioEnd + PadOf(recorded)
    BY EndFacts DEF WriterInv
  <2>2. AudioEnd \in Nat /\ AudioEnd = header_len + recorded /\ recorded \in Nat
    BY EndFacts DEF WriterInv
  <2>3. PadOf(recorded) \in {0, 1}
    BY <2>2, PadFacts
  <2>4. x < header_len
    BY <1>1
  <2> QED
    BY <1>1, <2>1, <2>2, <2>3, <2>4
<1> HIDE DEF f, x
<1>9. HeadersAt(x) = {[id |-> f.chunk, len |-> NumberIn(f)]}
  BY <1>3, <1>4, <1>7, <1>8, OneWritten
<1>10. NumberIn(f) = (IF req.rf64 THEN U32Max ELSE DataLen)
  <2>1. CASE req.rf64
    <3>1. header_len >= 80
      BY <2>1, PlacesFacts
    <3>2. header_len - 4 \notin {20, 28, 36}
      BY <1>1, <3>1
    <3>3. f.at \notin DOMAIN patched
      BY <1>4, <2>1, <3>2, NumberFacts
    <3> QED
      BY <1>4, <2>1, <3>3 DEF NumberIn
  <2>2. CASE ~req.rf64
    <3>1. offsets.data = f.at
      BY <1>4, <2>2, PlacesFacts
    <3> QED
      BY <1>4, <2>2, <3>1 DEF NumberIn, DataLen
  <2> QED
    BY <2>1, <2>2
<1> QED
  BY <1>4, <1>9, <1>10 DEF x

\* A chunk behind the audio.
LEMMA TailChunkHere ==
    ASSUME Inv, HeaderInv, WriterInv, stage = "done", NEW j \in DOMAIN tail
    PROVE  HeadersAt(tail[j].at) = {[id |-> tail[j].id, len |-> tail[j].size]}
<1> DEFINE x == tail[j].at
<1>1. header_len \in Nat /\ emitted # 0
  BY DoneFacts
<1>2. /\ recorded \in Nat /\ AudioEnd = header_len + recorded
      /\ \A i \in DOMAIN tail : /\ tail[i].at \in Nat
                                /\ tail[i].at >= AudioEnd + PadOf(recorded)
                                /\ EndOf(tail[i]) \in Nat
                                /\ EndOf(tail[i]) >= tail[i].at + 8 + tail[i].size
                                /\ tail[i].size \in Nat
      /\ DOMAIN tail = 1 .. Len(tail) /\ Len(tail) \in Nat
  BY EndFacts DEF WriterInv
<1>3. x \in Nat /\ x >= header_len
  <2>1. PadOf(recorded) \in {0, 1}
    BY <1>2, PadFacts
  <2> QED
    BY <1>1, <1>2, <2>1
<1>4. PICK at \in Seq(Nat) : Laid(at)
  BY DoneFacts
<1>5. PICK n : n = Len(at)
  OBVIOUS
<1>6. /\ n \in Nat \ {0} /\ at[n] = header_len - 8
      /\ \A i \in 1 .. n : at[i] \in Nat
      /\ \A i, l \in 1 .. n : i < l => at[i] + 8 <= at[l]
  BY <1>1, <1>4, <1>5, LaidFacts, PlacesFacts
<1>7. ASSUME NEW g \in fields, g.name = "size", g.at = x + 4
      PROVE  FALSE
  <2>1. CASE g = RiffField
    <3>1. x + 4 = 4
      BY <1>7, <2>1, HeaderSizes
    <3>2. header_len >= 44
      BY PlacesFacts
    <3> QED
      BY <1>1, <1>3, <3>1, <3>2
  <2>2. ASSUME NEW i \in 1 .. n - 1, g = SizeOf(i, at[i])
        PROVE  FALSE
    <3>1. at[i] + 4 = x + 4
      BY <1>7, <2>2, HeaderSizes
    <3>2. i \in 1 .. n /\ n \in 1 .. n /\ i < n
      BY <1>6
    <3>3. at[i] + 8 <= at[n]
      BY <1>6, <3>2
    <3> QED
      BY <1>1, <1>3, <1>6, <3>1, <3>2, <3>3
  <2>3. CASE g = DataField
    <3>1. header_len - 4 = x + 4
      BY <1>7, <2>3, HeaderSizes
    <3> QED
      BY <1>1, <1>3, <3>1
  <2> QED
    BY <1>4, <1>5, <1>7, <2>1, <2>2, <2>3, SizesInPlace
<1>8. WrittenAt(x) = {}
  BY <1>7 DEF WrittenAt
<1>9. ASSUME NEW i \in DOMAIN tail, tail[i].at = x
      PROVE  i = j
  <2>1. \A k, l \in DOMAIN tail : k < l => EndOf(tail[k]) <= tail[l].at
    BY DEF WriterInv, TailInv
  <2>2. CASE i < j
    <3>1. EndOf(tail[i]) <= tail[j].at
      BY <2>1, <2>2
    <3>2. /\ EndOf(tail[i]) \in Nat /\ tail[i].at \in Nat /\ tail[i].size \in Nat
          /\ EndOf(tail[i]) >= tail[i].at + 8 + tail[i].size
      BY <1>2
    <3>3. tail[i].at = tail[j].at
      BY <1>9
    <3> QED
      BY <3>1, <3>2, <3>3
  <2>3. CASE j < i
    <3>1. EndOf(tail[j]) <= tail[i].at
      BY <2>1, <2>3
    <3> QED
      BY <1>2, <1>9, <3>1
  <2> QED
    BY <1>2, <2>2, <2>3
<1>10. {i \in DOMAIN tail : tail[i].at = x} = {j}
  BY <1>9
<1>11. AttachedAt(x) = {[id |-> tail[j].id, len |-> tail[j].size]}
  BY <1>10 DEF AttachedAt
<1> HIDE DEF x
<1>12. WrittenAt(x) \cup AttachedAt(x) = {[id |-> tail[j].id, len |-> tail[j].size]}
  BY <1>8, <1>11
<1>13. WrittenAt(x) \cup AttachedAt(x) # {}
  BY <1>12
<1>14. HeadersAt(x) = {[id |-> tail[j].id, len |-> tail[j].size]}
  BY <1>12, <1>13, HeadersAtIs
<1> QED
  BY <1>14 DEF x

-----------------------------------------------------------------------------
(* The walk over the header.                                               *)

\* Sums of positions that fit 64 bits do not saturate.
LEMMA NoOverflow ==
    ASSUME NEW a \in Nat, NEW b \in Nat, a + b <= U64Max
    PROVE  Walk!SatAdd(a, b) = a + b
BY DEF Walk!SatAdd, Walk!Least

\* What the parser and the writer agree on, and the limits.
LEMMA WalkConstants ==
    /\ Walk!ChunkHeaderSize = 8
    /\ \A n : Walk!PadOf(n) = PadOf(n)
    /\ U64Max \in Nat /\ U32Max \in Nat /\ U64Max > U32Max /\ U32Max >= 28
BY RoundTripAssumption, LimitsAssumption DEF Walk!ChunkHeaderSize, Walk!PadOf, PadOf

\* A chunk that is in the file is found to be.
LEMMA WholeChunk ==
    ASSUME next \in Nat, NEW n \in Nat, next + ChunkLen(n) <= FileEnd,
           FileEnd \in Nat, FileEnd < U64Max
    PROVE  /\ Walk!SatAdd(next, Walk!ChunkHeaderSize) = next + 8
           /\ Walk!BodyEnd(n) = next + 8 + n
           /\ Walk!BodyEnd(n) <= FileEnd
           /\ Walk!SatAdd(Walk!BodyEnd(n), Walk!PadOf(n)) = next + ChunkLen(n)
           /\ Walk!SatAdd(next, Walk!ChunkHeaderSize + n) <= FileEnd
           /\ Walk!SatAdd(next, Walk!ChunkHeaderSize + n + Walk!PadOf(n))
                    = next + ChunkLen(n)
<1>1. ChunkLen(n) = 8 + n + PadOf(n) /\ PadOf(n) \in {0, 1}
  BY PadFacts DEF ChunkLen, ChunkHeaderSize
<1>2. U64Max \in Nat
  BY WalkConstants
<1>3. Walk!SatAdd(next, 8) = next + 8
  BY <1>1, <1>2, NoOverflow
<1>4. Walk!BodyEnd(n) = next + 8 + n
  BY <1>1, <1>2, <1>3, NoOverflow, WalkConstants DEF Walk!BodyEnd
<1>5. Walk!SatAdd(next + 8 + n, PadOf(n)) = next + 8 + n + PadOf(n)
  BY <1>1, <1>2, NoOverflow
<1>6. Walk!SatAdd(next, 8 + n) = next + (8 + n)
  BY <1>1, <1>2, NoOverflow
<1>7. Walk!SatAdd(next, 8 + n + PadOf(n)) = next + (8 + n + PadOf(n))
  BY <1>1, <1>2, NoOverflow
<1>8. next + 8 + n <= FileEnd
  BY <1>1
<1> QED
  BY <1>1, <1>3, <1>4, <1>5, <1>6, <1>7, <1>8, WalkConstants

\* Which chunk is which.
LEMMA WhichChunk ==
    ASSUME req \in RequestType, Acceptable, NEW k \in 1 .. ChunkCount
    PROVE  /\ IdOf(k) = "ds64" <=> k = 1 /\ req.rf64
           /\ IdOf(k) = "fmt " <=> k = (IF req.rf64 THEN 2 ELSE 1)
           /\ IdOf(k) = "fact" <=> k = 2 /\ HasFact
           /\ IdOf(k) # "data" /\ IdOf(k) # "RIFF"
           /\ IdOf(k) \notin Walk!Owned <=> k > OwnCount
           /\ k = 1 /\ req.rf64 => LenOf(k) = 28
           /\ IdOf(k) = "fmt " => LenOf(k) = FmtBodySize
           /\ LenOf(k) \in Nat
<1>1. OwnCount \in {1, 2} /\ LenOf(k) \in Nat
  BY PlanFacts
<1>2. CASE k > OwnCount
  <2>1. IdOf(k) \notin ReservedIds
    BY <1>2, PlanFacts
  <2>2. IdOf(k) \notin {"RIFF", "fmt ", "data", "fact", "ds64"}
    BY <2>1 DEF ReservedIds
  <2>3. IdOf(k) \notin Walk!Owned
    BY <2>2 DEF Walk!Owned
  <2>4. k # 1 /\ (k = 2 => OwnCount = 1)
    BY <1>1, <1>2
  <2>5. OwnCount = 1 => ~req.rf64 /\ ~HasFact
    BY DEF OwnCount, HasFact
  <2> QED
    BY <1>1, <1>2, <2>2, <2>3, <2>4, <2>5
<1>3. CASE ~(k > OwnCount) /\ k = 1
  <2>1. IdOf(k) = (IF req.rf64 THEN "ds64" ELSE "fmt ")
    BY <1>3 DEF IdOf
  <2>2. LenOf(k) = (IF req.rf64 THEN 28 ELSE FmtBodySize)
    BY <1>3 DEF LenOf
  <2>0. k = 1 /\ k # 2 /\ 1 # 2 /\ ~(k > OwnCount)
    BY <1>3
  <2>3. CASE req.rf64
    <3>1. IdOf(k) = "ds64" /\ LenOf(k) = 28
      BY <2>1, <2>2, <2>3
    <3>2. IdOf(k) \in Walk!Owned
      BY <3>1 DEF Walk!Owned
    <3> QED
      BY <1>1, <2>0, <2>3, <3>1, <3>2, Zenon
  <2>4. CASE ~req.rf64
    <3>1. IdOf(k) = "fmt " /\ LenOf(k) = FmtBodySize
      BY <2>1, <2>2, <2>4
    <3>2. IdOf(k) \in Walk!Owned
      BY <3>1 DEF Walk!Owned
    <3> QED
      BY <1>1, <2>0, <2>4, <3>1, <3>2, Zenon
  <2> QED
    BY <2>3, <2>4
<1>4. CASE ~(k > OwnCount) /\ k # 1
  <2>1. k = 2 /\ OwnCount = 2
    BY <1>1, <1>4
  <2>2. IdOf(k) = (IF req.rf64 THEN "fmt " ELSE "fact")
    BY <2>1, <1>4 DEF IdOf
  <2>3. req.rf64 => LenOf(k) = FmtBodySize
    BY <2>1, <1>4 DEF LenOf
  <2>4. CASE req.rf64
    BY <1>1, <1>4, <2>1, <2>2, <2>3, <2>4 DEF Walk!Owned, HasFact
  <2>5. CASE ~req.rf64
    <3>1. HasFact
      BY <2>1, <2>5 DEF OwnCount, HasFact
    <3> QED
      BY <1>1, <1>4, <2>1, <2>2, <2>5, <3>1 DEF Walk!Owned
  <2> QED
    BY <2>4, <2>5
<1> QED
  BY <1>2, <1>3, <1>4

\* The sizes that the file's first bytes and ds64 give.
LEMMA NamedIs ==
    ASSUME NEW c, NEW n, NEW f \in fields, f.chunk = c, f.name = n,
           \A g \in fields : g.chunk = c /\ g.name = n => g = f
    PROVE  Named(c, n) = f
BY DEF Named

\* The sizes a reader finds are the patched ones, or the ones the header began with.
LEMMA DeclaredSizes ==
    ASSUME Inv, HeaderInv, WriterInv, stage = "done"
    PROVE  /\ NumberIn(Named("RIFF", "size")) = (IF req.rf64 THEN U32Max ELSE RiffLen)
           /\ req.rf64 => Ds64Here = Ds64Now
<1>1. PICK at \in Seq(Nat) : Laid(at)
  BY DoneFacts
<1>2. /\ req \in RequestType /\ Acceptable /\ emitted # 0
      /\ header_len \in Nat /\ header_len >= 44
  BY DoneFacts, PlacesFacts
<1>3. NumberIn(Named("RIFF", "size")) = (IF req.rf64 THEN U32Max ELSE RiffLen)
  <2>1. RiffField \in fields
    BY <1>1 DEF Laid
  <2>2. ASSUME NEW g \in fields, g.chunk = "RIFF", g.name = "size"
        PROVE  g = RiffField
    <3>1. ASSUME NEW i \in 1 .. Len(at) - 1, g = SizeOf(i, at[i])
          PROVE  FALSE
      <4>1. i \in 1 .. ChunkCount
        BY <1>1, <1>2, LaidFacts
      <4>2. IdOf(i) = "RIFF"
        BY <2>2, <3>1, HeaderSizes
      <4> QED
        BY <1>2, <4>1, <4>2, WhichChunk
    <3>2. g # DataField
      BY <2>2, HeaderSizes
    <3> QED
      BY <1>1, <2>2, <3>1, <3>2, SizesInPlace
  <2>3. Named("RIFF", "size") = RiffField
    BY <2>1, <2>2, HeaderSizes, NamedIs
  <2>4. RiffField.at = 4 /\ RiffField.number = U32Max
    BY HeaderSizes
  <2>5. CASE req.rf64
    <3>1. 4 \notin DOMAIN patched
      BY <2>5, NumberFacts
    <3> QED
      BY <2>3, <2>4, <2>5, <3>1 DEF NumberIn
  <2>6. CASE ~req.rf64
    <3>1. offsets.riff = 4
      BY <2>6, PlacesFacts
    <3> QED
      BY <2>3, <2>4, <2>6, <3>1 DEF NumberIn, RiffLen
  <2> QED
    BY <2>5, <2>6
<1>4. ASSUME req.rf64
      PROVE  Ds64Here = Ds64Now
  <2> DEFINE r == Field("ds64", "riffSize", 20, 8, "unset", 0)
             d == Field("ds64", "dataSize", 28, 8, "unset", 0)
             s == Field("ds64", "sampleCount", 36, 8, "zero", 0)
  <2>1. Numbers = {r, d, s}
    BY <1>4 DEF Numbers
  <2>2. /\ r.chunk = "ds64" /\ r.name = "riffSize" /\ r.at = 20 /\ r.number = 0
        /\ d.chunk = "ds64" /\ d.name = "dataSize" /\ d.at = 28 /\ d.number = 0
        /\ s.name = "sampleCount"
    BY DEF Field
  <2>3. r \in fields /\ d \in fields
    <3>1. Numbers \subseteq fields
      <4>1. PICK m : m = Len(at)
        OBVIOUS
      <4>2. m = ChunkCount + 1 /\ ChunkCount >= 1 /\ ChunkCount \in Nat
        BY <1>1, <1>2, <4>1, PlacesFacts, PlanFacts
      <4>3. m > 1
        BY <4>2
      <4> QED
        BY <1>1, <1>4, <4>1, <4>3 DEF Laid
    <3> QED
      BY <2>1, <3>1
  <2> HIDE DEF r, d, s
  <2>4. ASSUME NEW g \in fields, g.name \in {"riffSize", "dataSize"}
        PROVE  g \in Numbers
    <3>1. Accounted(at, g)
      BY <1>1 DEF Laid
    <3>2. g # RiffField /\ g # DataField /\ \A i, x : g # SizeOf(i, x)
      <4>1. g.name # "size"
        BY <2>4
      <4> QED
        BY <4>1, HeaderSizes
    <3> QED
      BY <2>4, <3>1, <3>2 DEF Accounted
  <2>5. Named("ds64", "riffSize") = r
    <3>1. \A g \in fields : g.chunk = "ds64" /\ g.name = "riffSize" => g = r
      BY <2>1, <2>2, <2>4
    <3> QED
      BY <2>2, <2>3, <3>1, NamedIs
  <2>6. Named("ds64", "dataSize") = d
    <3>1. \A g \in fields : g.chunk = "ds64" /\ g.name = "dataSize" => g = d
      BY <2>1, <2>2, <2>4
    <3> QED
      BY <2>2, <2>3, <3>1, NamedIs
  <2>7. offsets.riff = 20 /\ offsets.data = 28
    BY <1>4, PlacesFacts
  <2>8. NumberIn(r) = RiffLen
    BY <1>4, <2>2, <2>7 DEF NumberIn, RiffLen
  <2>9. NumberIn(d) = DataLen
    BY <1>4, <2>2, <2>7 DEF NumberIn, DataLen
  <2> QED
    BY <2>5, <2>6, <2>8, <2>9 DEF Ds64Here, Ds64Now
<1> QED
  BY <1>3, <1>4

\* What an iteration of the walk does at a chunk of the header.
LEMMA HeaderChunkWalked ==
    ASSUME Inv, HeaderInv, WriterInv, emitted # 0, FileKnown, FileEnd < U64Max,
           status = "walking", NEW at, Laid(at), NEW k \in 1 .. Len(at) - 1,
           InHeader(at, k), NEW h \in HeadersAt(next), WalkOver(h)
    PROVE  /\ next' = at[k + 1] /\ bodies' = bodies \cup {HeadBody(k, at[k])}
           /\ UNCHANGED <<file, status, scan_end, audio>>
           /\ ds64' = (IF IdOf(k) = "ds64" THEN Ds64Here ELSE ds64)
           /\ fmt' = (IF IdOf(k) = "fmt " THEN TRUE ELSE fmt)
           /\ fact' = (IF IdOf(k) = "fact" THEN TRUE ELSE fact)
<1> DEFINE n == LenOf(k)
<1>1. h.id = IdOf(k) /\ h.len = n
  <2>1. next = at[k]
    BY DEF InHeader
  <2>2. h = [id |-> IdOf(k), len |-> LenOf(k)]
    BY <2>1, HeaderChunkHere
  <2> QED
    BY <2>2
<1>2. /\ req \in RequestType /\ Acceptable /\ k \in 1 .. ChunkCount
      /\ at[k] \in Nat /\ at[k + 1] \in Nat /\ at[k + 1] = at[k] + ChunkLen(n)
      /\ k + 1 \in 1 .. Len(at)
  BY LaidFacts
<1>3. n \in Nat
  BY <1>2, WhichChunk
\* The chunk is in the file.
<1>4. FileEnd \in Nat /\ at[k + 1] <= FileEnd
  <2>1. PICK m : m = Len(at)
    OBVIOUS
  <2>2. /\ m \in Nat /\ k + 1 \in 1 .. m /\ m \in 1 .. m
        /\ \A i \in 1 .. m : at[i] \in Nat
        /\ \A i, j \in 1 .. m : i < j => at[i] + 8 <= at[j]
    <3>1. /\ m \in Nat \ {0}
          /\ \A i \in 1 .. m : at[i] \in Nat
          /\ \A i, j \in 1 .. m : i < j => at[i] + 8 <= at[j]
      BY <2>1, LaidFacts
    <3>2. k + 1 \in 1 .. m
      BY <1>2, <2>1
    <3> QED
      BY <3>1, <3>2
  <2>3. at[k + 1] <= at[m]
    <3>1. CASE k + 1 = m
      BY <1>2, <3>1
    <3>2. CASE k + 1 # m
      <4>1. at[k + 1] + 8 <= at[m]
        BY <2>2, <3>2
      <4> QED
        BY <1>2, <2>2, <4>1
    <3> QED
      BY <3>1, <3>2
  <2>4. CASE stage = "done"
    <3>1. at[m] = header_len - 8 /\ header_len \in Nat
      BY <2>1, <2>4, DoneFacts DEF Laid, Contiguous
    <3>2. FileEnd \in Nat /\ FileEnd >= AudioEnd /\ AudioEnd = header_len + recorded
          /\ recorded \in Nat
      BY <2>4, EndFacts DEF WriterInv
    <3> QED
      BY <1>2, <2>3, <3>1, <3>2
  <2>5. CASE stage # "done"
    <3>1. at[m] = emitted /\ FileEnd = emitted /\ emitted \in Nat
      BY <2>1, <2>5, UnpatchedYet DEF Laid, Contiguous, Inv, FieldsInv
    <3> QED
      BY <2>3, <3>1
  <2> QED
    BY <2>4, <2>5
<1>5. /\ next = at[k] /\ scan_end = FileEnd /\ audio = Walk!NoAudio
      /\ file.size = FileEnd /\ (file.rf64 <=> req.rf64) /\ ~Walk!FoundData
  BY DEF InHeader, FileKnown, Walk!FoundData
<1>6. /\ Walk!BodyEnd(n) <= file.size
      /\ Walk!SatAdd(Walk!BodyEnd(n), Walk!PadOf(n)) = at[k + 1]
      /\ Walk!SatAdd(next, Walk!ChunkHeaderSize + n) <= file.size
      /\ Walk!SatAdd(next, Walk!ChunkHeaderSize + n + Walk!PadOf(n)) = at[k + 1]
  BY <1>2, <1>3, <1>4, <1>5, WholeChunk
\* Only a data chunk would have its length from ds64.
<1>7. IdOf(k) # "data" /\ ds64.table = << >>
  <2>1. IdOf(k) # "data"
    BY <1>2, WhichChunk
  <2>2. ds64.table = << >>
    <3>1. CASE req.rf64 /\ k > 1
      BY <3>1 DEF InHeader, Passed
    <3>2. CASE ~(req.rf64 /\ k > 1)
      <4>1. ds64 = Walk!NoDs64
        BY <3>2 DEF InHeader, Passed
      <4> QED
        BY <4>1 DEF Walk!NoDs64
    <3> QED
      BY <3>1, <3>2
  <2> QED
    BY <2>1, <2>2
<1>8. Walk!BodyLen(IdOf(k), n) = n
  <2>1. DOMAIN ds64.table = {}
    BY <1>7
  <2>2. Walk!SizeFor(IdOf(k), n) = n
    BY <1>7, <2>1 DEF Walk!SizeFor
  <2> QED
    BY <2>2 DEF Walk!BodyLen
<1>9. HeadBody(k, at[k]) = [id |-> IdOf(k), at |-> next + Walk!ChunkHeaderSize, len |-> n,
                            after |-> Walk!FoundData]
  <2>1. Walk!FoundData = FALSE
    BY <1>5 DEF Walk!FoundData
  <2> QED
    BY <1>5, <2>1, WalkConstants DEF HeadBody
<1>10. Walk!ReadBody(IdOf(k), n) => bodies' = bodies \cup {HeadBody(k, at[k])}
  BY <1>9 DEF Walk!ReadBody
<1>11. Walk!Advance(n) => next' = at[k + 1]
  BY <1>6 DEF Walk!Advance
<1> HIDE DEF n
<1>12. CASE h.id = "ds64" /\ Walk!Ds64ChunkHolding(h.len, Ds64Here)
  <2>1. IdOf(k) = "ds64" /\ k = 1 /\ req.rf64
    BY <1>1, <1>2, <1>12, WhichChunk
  <2>2. ~ds64.found
    <3>1. ds64 = Walk!NoDs64
      BY <2>1 DEF InHeader, Passed
    <3> QED
      BY <3>1 DEF Walk!NoDs64
  <2>3. Walk!HonorsDs64(n)
    BY <1>5, <1>6, <2>1, <2>2 DEF Walk!HonorsDs64
  <2>4. /\ ds64' = Ds64Here /\ Walk!ReadBody("ds64", n)
        /\ next' = at[k + 1]
        /\ UNCHANGED <<file, status, scan_end, fmt, fact, audio>>
    BY <1>1, <1>6, <1>12, <2>3 DEF Walk!Ds64ChunkHolding
  <2> QED
    BY <1>10, <2>1, <2>4
<1>13. CASE h.id = "fact" /\ Walk!FactChunk(h.len)
  <2>1. IdOf(k) = "fact" /\ k = 2
    BY <1>1, <1>2, <1>13, WhichChunk
  <2>2. ~fact
    <3>1. ~(k > 2)
      BY <2>1
    <3>2. fact = (HasFact /\ k > 2)
      BY DEF InHeader
    <3> QED
      BY <3>1, <3>2, Zenon
  <2>3. /\ fact' = TRUE /\ Walk!ReadBody("fact", n) /\ Walk!Advance(n)
        /\ UNCHANGED <<file, status, scan_end, ds64, fmt, audio>>
    BY <1>1, <1>6, <1>8, <1>13, <2>1, <2>2 DEF Walk!FactChunk
  <2> QED
    BY <1>10, <1>11, <2>1, <2>3
<1>14. CASE h.id = "fmt " /\ Walk!FmtChunk(h.len)
  <2>1. IdOf(k) = "fmt " /\ n = FmtBodySize /\ k = (IF req.rf64 THEN 2 ELSE 1)
    BY <1>1, <1>2, <1>14, WhichChunk DEF n
  <2>2. ~fmt
    <3>1. \A i \in 1 .. k - 1 : IdOf(i) # "fmt "
      <4> TAKE i \in 1 .. k - 1
      <4>1. i \in 1 .. ChunkCount /\ i < k
        BY <1>2, PlanFacts
      <4>2. i # (IF req.rf64 THEN 2 ELSE 1)
        <5>1. i # k
          BY <4>1
        <5> QED
          BY <2>1, <5>1, Zenon
      <4>3. req \in RequestType /\ Acceptable /\ i \in 1 .. ChunkCount
        BY <1>2, <4>1
      <4>4. IdOf(i) = "fmt " <=> i = (IF req.rf64 THEN 2 ELSE 1)
        BY <4>3, WhichChunk
      <4> QED
        BY <4>2, <4>4, Zenon
    <3> QED
      BY <3>1 DEF InHeader, Passed
  <2>3. n >= 16
    BY <1>2, <2>1, PlanFacts
  <2>4. Walk!TakesFmt(n)
    BY <1>6, <1>8, <2>1, <2>2, <2>3 DEF Walk!TakesFmt
  <2>5. /\ fmt' = TRUE /\ Walk!ReadBody("fmt ", n) /\ Walk!Advance(n)
        /\ UNCHANGED <<file, status, scan_end, ds64, fact, audio>>
    BY <1>1, <1>8, <1>14, <2>1, <2>4 DEF Walk!FmtChunk
  <2> QED
    BY <1>10, <1>11, <2>1, <2>5
<1>15. CASE h.id \notin Walk!Owned /\ Walk!OtherChunk(h.id, h.len)
  <2>1. /\ Walk!ReadBody(IdOf(k), n) /\ Walk!Advance(n)
        /\ UNCHANGED <<file, status, scan_end, ds64, fmt, fact, audio>>
    BY <1>1, <1>8, <1>15 DEF Walk!OtherChunk
  <2>2. IdOf(k) \notin {"fmt ", "fact", "ds64"}
    BY <1>1, <1>15 DEF Walk!Owned
  <2> QED
    BY <1>10, <1>11, <2>1, <2>2
<1>16. ~(h.id \notin Walk!Owned /\ Walk!CutOffChunk(h.id, h.len))
  <2>1. SUFFICES ASSUME Walk!CutOffChunk(IdOf(k), n) PROVE FALSE
    BY <1>1
  <2>2. Walk!BodyEnd(n) > file.size
    BY <1>8, <2>1 DEF Walk!CutOffChunk
  <2>3. Walk!BodyEnd(n) = at[k] + 8 + n /\ file.size \in Nat
    BY <1>2, <1>3, <1>4, <1>5, WholeChunk
  <2> QED
    BY <1>2, <1>3, <1>6, <2>2, <2>3
<1>17. ~Walk!WalkedIntoAudio
  BY <1>5 DEF Walk!WalkedIntoAudio
<1>18. h.id # "data"
  BY <1>1, <1>7
<1> QED
  BY <1>12, <1>13, <1>14, <1>15, <1>16, <1>17, <1>18 DEF WalkOver

\* Reading changes nothing of the file.
LEMMA FileStays ==
    ASSUME UNCHANGED <<vars, writing>>
    PROVE  /\ req' = req /\ stage' = stage /\ header_len' = header_len /\ tail' = tail
           /\ offsets' = offsets /\ patched' = patched /\ life' = life
           /\ recorded' = recorded /\ patches' = patches /\ promised' = promised
           /\ emitted' = emitted /\ UNCHANGED vars
           /\ FileEnd' = FileEnd /\ DataLen' = DataLen /\ RiffLen' = RiffLen
           /\ Ds64Now' = Ds64Now /\ (HasFact' <=> HasFact) /\ (Torn' <=> Torn)
           /\ \A i : IdOf(i)' = IdOf(i) /\ LenOf(i)' = LenOf(i)
           /\ \A i, s : HeadBody(i, s)' = HeadBody(i, s)
<1>1. /\ req' = req /\ stage' = stage /\ header_len' = header_len /\ tail' = tail
      /\ offsets' = offsets /\ patched' = patched /\ life' = life
      /\ recorded' = recorded /\ patches' = patches /\ promised' = promised
      /\ emitted' = emitted /\ UNCHANGED vars
  BY DEF vars, writing
<1>2. FileEnd' = FileEnd /\ PatchList' = PatchList
  BY <1>1, SameFile
<1>3. Torn' <=> Torn
  BY <1>1, <1>2 DEF Torn
<1>4. DataLen' = DataLen /\ RiffLen' = RiffLen
  BY <1>1 DEF DataLen, RiffLen
<1>5. Ds64Now' = Ds64Now
  BY <1>4 DEF Ds64Now
<1>6. /\ HasFact' <=> HasFact
      /\ \A i : IdOf(i)' = IdOf(i) /\ LenOf(i)' = LenOf(i)
  BY <1>1, SamePlan
<1>7. \A i, s : HeadBody(i, s)' = HeadBody(i, s)
  BY <1>6 DEF HeadBody
<1> QED
  BY <1>1, <1>2, <1>3, <1>4, <1>5, <1>6, <1>7

\* It is then past that chunk, and at the next one.
LEMMA HeaderStep ==
    ASSUME Inv, HeaderInv, WriterInv, emitted # 0, FileKnown, FileEnd < U64Max,
           status = "walking", NEW at, Laid(at), NEW k \in 1 .. Len(at) - 1,
           InHeader(at, k), NEW h \in HeadersAt(next), WalkOver(h),
           UNCHANGED <<vars, writing>>
    PROVE  /\ InHeader(at, k + 1)' /\ k + 1 \in 1 .. Len(at)
           /\ status' = "walking" /\ file' = file
<1>1. /\ next' = at[k + 1] /\ bodies' = bodies \cup {HeadBody(k, at[k])}
      /\ UNCHANGED <<file, status, scan_end, audio>>
      /\ ds64' = (IF IdOf(k) = "ds64" THEN Ds64Here ELSE ds64)
      /\ fmt' = (IF IdOf(k) = "fmt " THEN TRUE ELSE fmt)
      /\ fact' = (IF IdOf(k) = "fact" THEN TRUE ELSE fact)
  BY HeaderChunkWalked
<1>2. req \in RequestType /\ Acceptable /\ k \in 1 .. ChunkCount /\ k + 1 \in 1 .. Len(at)
  BY LaidFacts
<1>3. k \in Nat /\ k >= 1
  OBVIOUS
<1>4. HeadBody(k, at[k]).after = FALSE
  BY DEF HeadBody
<1>5. \A b \in bodies' : ~b.after
  BY <1>1, <1>4 DEF InHeader
<1>6. Passed(at, k) /\ \A b \in bodies : ~b.after
  BY DEF InHeader
<1>7. \A i \in 1 .. k : i \in 1 .. k - 1 \/ i = k
  BY <1>3
<1>8. k \in 1 .. k /\ \A i \in 1 .. k - 1 : i \in 1 .. k
  BY <1>3
<1>9. {b \in bodies' : ~b.after} = {HeadBody(i, at[i]) : i \in 1 .. k}
  <2>1. bodies = {HeadBody(i, at[i]) : i \in 1 .. k - 1}
    BY <1>6 DEF Passed
  <2>2. {b \in bodies' : ~b.after} = bodies'
    BY <1>5
  <2> QED
    BY <1>1, <1>7, <1>8, <2>1, <2>2
<1>10. fmt' = (\E i \in 1 .. k : IdOf(i) = "fmt ")
  <2>1. fmt = (\E i \in 1 .. k - 1 : IdOf(i) = "fmt ")
    BY <1>6 DEF Passed
  <2>2. CASE IdOf(k) = "fmt "
    <3>1. fmt' = TRUE
      BY <1>1, <2>2
    <3> QED
      BY <1>8, <2>2, <3>1, Zenon
  <2>3. CASE IdOf(k) # "fmt "
    <3>1. fmt' = fmt
      BY <1>1, <2>3
    <3>2. (\E i \in 1 .. k : IdOf(i) = "fmt ") <=> (\E i \in 1 .. k - 1 : IdOf(i) = "fmt ")
      BY <1>7, <1>8, <2>3, Zenon
    <3> QED
      BY <2>1, <3>1, <3>2, Zenon
  <2> QED
    BY <2>2, <2>3
<1>11. IF req.rf64
       THEN ds64'.found /\ ds64'.table = << >> /\ (stage = "done" => ds64' = Ds64Now)
       ELSE ds64' = Walk!NoDs64
  <2>1. CASE req.rf64 /\ k = 1
    <3>1. ds64' = Ds64Here
      BY <1>1, <1>2, <2>1, WhichChunk
    <3>2. Ds64Here.found /\ Ds64Here.table = << >>
      BY DEF Ds64Here
    <3>3. stage = "done" => Ds64Here = Ds64Now
      BY <2>1, DeclaredSizes
    <3> QED
      BY <2>1, <3>1, <3>2, <3>3
  <2>2. CASE req.rf64 /\ k # 1
    <3>1. IdOf(k) # "ds64"
      BY <1>2, <2>2, WhichChunk
    <3>2. ds64' = ds64 /\ k > 1
      <4>1. ds64' = ds64
        BY <1>1, <3>1
      <4>2. k > 1
        BY <1>3, <2>2
      <4> QED
        BY <4>1, <4>2
    <3>3. ds64.found /\ ds64.table = << >> /\ (stage = "done" => ds64 = Ds64Now)
      BY <1>6, <2>2, <3>2 DEF Passed
    <3> QED
      BY <2>2, <3>2, <3>3
  <2>3. CASE ~req.rf64
    <3>1. IdOf(k) # "ds64"
      BY <1>2, <2>3, WhichChunk
    <3>2. ds64' = ds64 /\ ds64 = Walk!NoDs64
      BY <1>1, <1>6, <2>3, <3>1 DEF Passed
    <3> QED
      BY <2>3, <3>2
  <2> QED
    BY <2>1, <2>2, <2>3
<1>12. k + 1 - 1 = k /\ k + 1 > 1
  BY <1>3
<1>13. /\ req' = req /\ stage' = stage /\ Ds64Now' = Ds64Now /\ FileEnd' = FileEnd
       /\ HasFact' <=> HasFact
       /\ \A i : IdOf(i)' = IdOf(i)
       /\ \A i, s : HeadBody(i, s)' = HeadBody(i, s)
  BY FileStays
<1>14. Passed(at, k + 1)'
  <2>1. {b \in bodies' : ~b.after} = {HeadBody(i, at[i])' : i \in 1 .. k}
    BY <1>9, <1>13
  <2>2. fmt' = (\E i \in 1 .. k : IdOf(i)' = "fmt ")
    BY <1>10, <1>13
  <2>3. /\ {b \in bodies' : ~b.after} = {HeadBody(i, at[i])' : i \in 1 .. (k + 1) - 1}
        /\ fmt' = (\E i \in 1 .. (k + 1) - 1 : IdOf(i)' = "fmt ")
    <3>1. 1 .. (k + 1) - 1 = 1 .. k
      BY <1>12
    <3> QED
      BY <2>1, <2>2, <3>1
  <2>4. IF req'.rf64 /\ k + 1 > 1
        THEN ds64'.found /\ ds64'.table = << >> /\ (stage' = "done" => ds64' = Ds64Now')
        ELSE ds64' = Walk!NoDs64
    BY <1>11, <1>12, <1>13
  <2> QED
    BY <2>3, <2>4, Zenon DEF Passed
<1>15. fact' = (HasFact /\ k + 1 > 2)
  <2>1. fact = (HasFact /\ k > 2)
    BY DEF InHeader
  <2>2. CASE IdOf(k) = "fact"
    <3>1. k = 2 /\ HasFact
      BY <1>2, <2>2, WhichChunk
    <3>2. k + 1 > 2
      BY <3>1
    <3>3. fact' = TRUE
      BY <1>1, <2>2
    <3> QED
      BY <3>1, <3>2, <3>3, Zenon
  <2>3. CASE IdOf(k) # "fact"
    <3>1. ~(k = 2 /\ HasFact) /\ fact' = fact
      BY <1>1, <1>2, <2>3, WhichChunk
    <3>2. k # 2 => (k > 2 <=> k + 1 > 2)
      BY <1>3
    <3>3. k = 2 => ~HasFact
      BY <3>1
    <3> QED
      BY <2>1, <3>1, <3>2, <3>3, Zenon
  <2> QED
    BY <2>2, <2>3
<1>16. /\ next' = at[k + 1] /\ scan_end' = FileEnd' /\ audio' = Walk!NoAudio
  BY <1>1, <1>13 DEF InHeader
<1>17. InHeader(at, k + 1)'
  BY <1>5, <1>13, <1>14, <1>15, <1>16, Zenon DEF InHeader
<1> QED
  BY <1>1, <1>2, <1>17

-----------------------------------------------------------------------------
(* The walk behind the header.                                             *)

\* All sizes are patched in a file that was finished.
LEMMA FinalizedFacts ==
    ASSUME Inv, HeaderInv, WriterInv, stage = "done", life = "finalized"
    PROVE  /\ req.seekable
           /\ offsets.riff \in DOMAIN patched /\ RiffLen = FileEnd - 8
           /\ offsets.data \in DOMAIN patched /\ DataLen = recorded
           /\ Counting \/ HasFixedCount =>
                /\ offsets.count \in DOMAIN patched
                /\ patched[offsets.count] = (IF Counting THEN recorded ELSE req.fact.count)
<1>1. req.seekable /\ Whole
  BY DEF WriterInv, PatchesInv
<1>2. /\ Len(PatchList) \in {2, 3}
      /\ Len(PatchList) = 3 <=> Counting \/ HasFixedCount
      /\ DOMAIN PatchList = 1 .. Len(PatchList)
      /\ PatchList[1].at = offsets.riff /\ PatchList[1].number = FileEnd - 8
      /\ PatchList[2].at = offsets.data /\ PatchList[2].number = recorded
      /\ Counting \/ HasFixedCount =>
            /\ PatchList[3].at = offsets.count
            /\ PatchList[3].number = (IF Counting THEN recorded ELSE req.fact.count)
  BY PatchListFacts DEF WriterInv
<1>3. 1 \in DOMAIN PatchList /\ 2 \in DOMAIN PatchList
  <2>1. PICK n : n = Len(PatchList)
    OBVIOUS
  <2>2. n \in {2, 3} /\ DOMAIN PatchList = 1 .. n
    BY <1>2, <2>1
  <2> QED
    BY <2>2
<1>4. Counting \/ HasFixedCount => 3 \in DOMAIN PatchList
  <2>1. SUFFICES ASSUME Counting \/ HasFixedCount PROVE 3 \in DOMAIN PatchList
    OBVIOUS
  <2>2. PICK n : n = Len(PatchList)
    OBVIOUS
  <2>3. n = 3 /\ DOMAIN PatchList = 1 .. n
    BY <1>2, <2>1, <2>2
  <2> QED
    BY <2>3
<1>5. /\ offsets.riff \in DOMAIN patched /\ patched[offsets.riff] = FileEnd - 8
      /\ offsets.data \in DOMAIN patched /\ patched[offsets.data] = recorded
  BY <1>1, <1>2, <1>3 DEF Whole
<1>6. Counting \/ HasFixedCount =>
        /\ offsets.count \in DOMAIN patched
        /\ patched[offsets.count] = (IF Counting THEN recorded ELSE req.fact.count)
  <2>1. SUFFICES ASSUME Counting \/ HasFixedCount
                 PROVE  /\ offsets.count \in DOMAIN patched
                        /\ patched[offsets.count]
                                = (IF Counting THEN recorded ELSE req.fact.count)
    OBVIOUS
  <2>2. /\ PatchList[3].at \in DOMAIN patched
        /\ patched[PatchList[3].at] = PatchList[3].number
    BY <1>1, <1>4, <2>1 DEF Whole
  <2>3. /\ PatchList[3].at = offsets.count
        /\ PatchList[3].number = (IF Counting THEN recorded ELSE req.fact.count)
    BY <1>2, <2>1
  <2> QED
    BY <2>2, <2>3
<1> QED
  BY <1>1, <1>5, <1>6 DEF RiffLen, DataLen

\* The sizes of a RIFF file that is patched fit.
LEMMA SizedAudio ==
    ASSUME Inv, HeaderInv, WriterInv, stage = "done", ~req.rf64,
           offsets.data \in DOMAIN patched
    PROVE  /\ req.seekable /\ DataLen # U32Max /\ recorded < U32Max
           /\ recorded # 0 => AudioEnd - 8 <= U32Max
<1>1. req.seekable
  <2>1. DOMAIN patched # {}
    OBVIOUS
  <2>2. patched # << >>
    BY <2>1
  <2>3. req.seekable \in BOOLEAN
    BY DoneFacts, RequestFacts
  <2> QED
    BY <2>2, <2>3 DEF WriterInv, PatchedInv
<1>2. recorded # 0 => AudioEnd - 8 <= U32Max
  BY <1>1 DEF WriterInv, AudioInv
<1>3. /\ recorded \in Nat /\ AudioEnd = header_len + recorded
      /\ header_len \in Nat /\ header_len >= 44
  BY EndFacts, DoneFacts, PlacesFacts DEF WriterInv
<1>4. DataLen \in promised .. recorded /\ promised \in Nat
  BY NumberFacts DEF WriterInv, PatchedInv
<1>5. recorded < U32Max
  BY <1>2, <1>3, WalkConstants
<1> QED
  BY <1>1, <1>2, <1>3, <1>4, <1>5, WalkConstants

\* Where the walk will end, unless the file is torn: with the audio as the
\* data size has it, or with a chunk behind all the audio.
ScanEndsWell(s) ==
    \/ /\ DataLen \in 0 .. recorded /\ s <= header_len + DataLen
       /\ life = "finalized" => tail = << >>
    \/ /\ DataLen = recorded
       /\ \E t \in DOMAIN tail : /\ s = EndOf(tail[t])
                                 /\ life = "finalized" => t = Len(tail)

\* Behind the audio the walk ends with the file or with a chunk of it.
LEMMA ScanEnd ==
    ASSUME Inv, HeaderInv, WriterInv, stage = "done", FileKnown, FileEnd < U64Max,
           req.rf64 \/ offsets.data \in DOMAIN patched, req.rf64 => ds64 = Ds64Now,
           scan_end = FileEnd, life # "writing", ~Torn
    PROVE  /\ Walk!ScanEndAfterData \in 0 .. FileEnd
           /\ ScanEndsWell(Walk!ScanEndAfterData)
<1>1. /\ recorded \in Nat /\ AudioEnd \in Nat /\ AudioEnd = header_len + recorded
      /\ FileEnd \in Nat /\ FileEnd >= AudioEnd /\ DOMAIN tail = 1 .. Len(tail)
      /\ tail = << >> => FileEnd = AudioEnd
      /\ tail # << >> => /\ Len(tail) \in DOMAIN tail
                         /\ FileEnd = EndOf(tail[Len(tail)]) /\ FileEnd > AudioEnd
      /\ \A i \in DOMAIN tail : EndOf(tail[i]) \in Nat /\ EndOf(tail[i]) <= FileEnd
  BY EndFacts DEF WriterInv
<1>2. header_len \in Nat /\ header_len >= 44
  BY DoneFacts, PlacesFacts
<1>3. DataLen \in Nat /\ RiffLen \in Nat
  BY NumberFacts
<1>4. ~HalfPatched
  <2>1. patches # << >> => life = "killed"
    BY DEF WriterInv, PatchesInv
  <2> QED
    BY <2>1 DEF Torn, HalfPatched
<1>5. /\ file.size = FileEnd /\ (file.rf64 <=> req.rf64)
      /\ file.declared = (IF req.rf64 THEN U32Max ELSE RiffLen)
  BY DEF FileKnown
<1>6. RiffLen + 8 <= FileEnd =>
        Walk!ScanEndAfterData = (IF req.rf64 \/ RiffLen # U32Max THEN RiffLen + 8 ELSE FileEnd)
  <2>1. SUFFICES ASSUME RiffLen + 8 <= FileEnd
                 PROVE  Walk!ScanEndAfterData
                            = (IF req.rf64 \/ RiffLen # U32Max THEN RiffLen + 8 ELSE FileEnd)
    OBVIOUS
  <2>2. Walk!SatAdd(RiffLen, 8) = RiffLen + 8
    BY <1>1, <1>3, <2>1, NoOverflow, WalkConstants
  <2>3. CASE req.rf64
    <3>1. ds64.riff = RiffLen
      BY <2>3 DEF Ds64Now
    <3> QED
      BY <1>5, <2>1, <2>2, <2>3, <3>1 DEF Walk!ScanEndAfterData
  <2>4. CASE ~req.rf64
    BY <1>5, <2>1, <2>2, <2>4 DEF Walk!ScanEndAfterData
  <2> QED
    BY <2>3, <2>4
<1>7. PICK s : s = Walk!ScanEndAfterData
  OBVIOUS
<1>8. CASE offsets.riff \notin DOMAIN patched
  <2>1. offsets.data \notin DOMAIN patched
    BY <1>8 DEF WriterInv, PatchedInv
  <2>2. req.rf64 /\ RiffLen = 0 /\ DataLen = 0
    BY <1>8, <2>1 DEF RiffLen, DataLen
  <2>3. s = 8
    BY <1>1, <1>2, <1>6, <1>7, <2>2
  <2>4. life # "finalized"
    BY <1>8, FinalizedFacts
  <2> QED
    BY <1>1, <1>2, <1>7, <2>2, <2>3, <2>4 DEF ScanEndsWell
<1>9. CASE offsets.riff \in DOMAIN patched
  <2>1. /\ offsets.data \in DOMAIN patched
        /\ Agree(RiffLen + 8, DataLen)
    BY <1>4, <1>9 DEF WriterInv, PatchedInv, RiffLen, DataLen
  <2>2. DataLen \in 0 .. recorded
    <3>1. DataLen \in promised .. recorded /\ promised \in Nat
      BY <2>1, NumberFacts DEF WriterInv, PatchedInv
    <3> QED
      BY <1>1, <1>3, <3>1
  <2>3. \/ RiffLen + 8 = header_len + DataLen
        \/ DataLen = recorded /\ \E i \in DOMAIN tail : RiffLen + 8 = EndOf(tail[i])
    BY <2>1 DEF Agree
  <2>4. RiffLen + 8 <= FileEnd
    BY <1>1, <1>2, <1>3, <2>2, <2>3
  <2>5. life = "finalized" => RiffLen + 8 = FileEnd /\ DataLen = recorded
    BY <1>1, FinalizedFacts
  <2>6. CASE req.rf64 \/ RiffLen # U32Max
    <3>1. s = RiffLen + 8 /\ s \in 0 .. FileEnd
      BY <1>1, <1>3, <1>6, <1>7, <2>4, <2>6
    <3>2. CASE RiffLen + 8 = header_len + DataLen
      <4>1. life = "finalized" => tail = << >>
        BY <1>1, <1>2, <2>5, <3>2
      <4>2. s <= header_len + DataLen
        BY <1>2, <1>3, <3>1, <3>2
      <4> QED
        BY <1>7, <2>2, <3>1, <4>1, <4>2 DEF ScanEndsWell
    <3>3. ASSUME DataLen = recorded, NEW i \in DOMAIN tail, RiffLen + 8 = EndOf(tail[i])
          PROVE  ScanEndsWell(s)
      <4>1. CASE life = "finalized"
        <5>1. tail # << >>
          BY <1>1, <3>3
        <5>2. s = EndOf(tail[Len(tail)]) /\ Len(tail) \in DOMAIN tail
          BY <1>1, <2>5, <3>1, <4>1, <5>1
        <5> QED
          BY <3>3, <5>2 DEF ScanEndsWell
      <4>2. CASE life # "finalized"
        BY <3>1, <3>3, <4>2 DEF ScanEndsWell
      <4> QED
        BY <4>1, <4>2
    <3> QED
      BY <1>7, <2>3, <3>1, <3>2, <3>3
  <2>7. CASE ~(req.rf64 \/ RiffLen # U32Max)
    <3>1. s = FileEnd
      BY <1>6, <1>7, <2>4, <2>7
    <3>2. DataLen = recorded
      <4>1. SUFFICES ASSUME RiffLen + 8 = header_len + DataLen
                     PROVE  DataLen = recorded
        BY <2>3
      <4>2. recorded # 0 => AudioEnd - 8 <= U32Max
        BY <2>1, <2>7, SizedAudio
      <4> QED
        BY <1>1, <1>2, <1>3, <2>2, <2>7, <4>1, <4>2, WalkConstants
    <3>3. CASE tail = << >>
      <4>1. s <= header_len + DataLen
        BY <1>1, <1>2, <3>1, <3>2, <3>3
      <4> QED
        BY <1>1, <1>7, <2>2, <3>1, <3>3, <4>1 DEF ScanEndsWell
    <3>4. CASE tail # << >>
      <4>1. s = EndOf(tail[Len(tail)]) /\ Len(tail) \in DOMAIN tail
        BY <1>1, <3>1, <3>4
      <4>2. ScanEndsWell(s)
        BY <3>2, <4>1 DEF ScanEndsWell
      <4> QED
        BY <1>1, <1>7, <3>1, <4>2
    <3> QED
      BY <3>3, <3>4
  <2> QED
    BY <2>6, <2>7
<1> QED
  BY <1>8, <1>9

\* Chunks of the header stay passed.
LEMMA PassedStill ==
    ASSUME UNCHANGED <<vars, writing>>, UNCHANGED <<fmt, ds64>>,
           {b \in bodies' : ~b.after} = {b \in bodies : ~b.after},
           NEW at, NEW k, Passed(at, k)
    PROVE  Passed(at, k)'
<1>1. /\ req' = req /\ stage' = stage /\ Ds64Now' = Ds64Now
      /\ \A i : IdOf(i)' = IdOf(i)
      /\ \A i, s : HeadBody(i, s)' = HeadBody(i, s)
  BY FileStays
<1>2. {b \in bodies' : ~b.after} = {HeadBody(i, at[i])' : i \in 1 .. k - 1}
  BY <1>1 DEF Passed
<1>3. fmt' = (\E i \in 1 .. k - 1 : IdOf(i)' = "fmt ")
  BY <1>1 DEF Passed
<1>4. IF req'.rf64 /\ k > 1
      THEN ds64'.found /\ ds64'.table = << >> /\ (stage' = "done" => ds64' = Ds64Now')
      ELSE ds64' = Walk!NoDs64
  <2>1. CASE req.rf64 /\ k > 1
    BY <1>1, <2>1 DEF Passed
  <2>2. CASE ~(req.rf64 /\ k > 1)
    BY <1>1, <2>2 DEF Passed
  <2> QED
    BY <2>1, <2>2
<1> QED
  BY <1>2, <1>3, <1>4, Zenon DEF Passed

\* A chunk header is only looked at where there is one.
LEMMA LooksWhereThereIsMore ==
    ASSUME NEW h, WalkOver(h)
    PROVE  Walk!MoreToScan /\ status = "walking"
BY DEF WalkOver, Walk!Ds64ChunkHolding, Walk!FactChunk, Walk!FmtChunk,
       Walk!OpenEndedData, Walk!DataChunk, Walk!OtherChunk, Walk!CutOffChunk,
       Walk!WalkedIntoAudio, Walk!AtChunk

\* A walk with no room for a chunk header is over.
LEMMA NoMore ==
    ASSUME next \in Nat, scan_end \in Nat, scan_end < U64Max, next + 8 > scan_end
    PROVE  ~Walk!MoreToScan
BY WalkConstants DEF Walk!MoreToScan, Walk!SatAdd, Walk!Least

\* A header with all its chunks passed has a fmt chunk, and all of ds64.
LEMMA AllPassed ==
    ASSUME Inv, HeaderInv, stage = "done", NEW at, Laid(at), Passed(at, Len(at))
    PROVE  /\ fmt = TRUE
           /\ req.rf64 => ds64 = Ds64Now
           /\ ~req.rf64 => ds64 = Walk!NoDs64
           /\ HasFact => Len(at) > 2
<1>1. /\ req \in RequestType /\ Acceptable
  BY DoneFacts
<1>2. PICK n : n = Len(at)
  OBVIOUS
<1>3. /\ n = ChunkCount + 1 /\ OwnCount \in {1, 2} /\ ChunkCount \in Nat
      /\ ChunkCount >= OwnCount
  BY <1>1, <1>2, PlacesFacts, PlanFacts
<1>4. fmt = TRUE
  <2>1. PICK k : k = (IF req.rf64 THEN 2 ELSE 1)
    OBVIOUS
  <2>2. req.rf64 => OwnCount = 2
    BY DEF OwnCount
  <2>3. k \in 1 .. ChunkCount /\ k \in 1 .. n - 1
    BY <1>3, <2>1, <2>2
  <2>4. IdOf(k) = "fmt " <=> k = (IF req.rf64 THEN 2 ELSE 1)
    BY <1>1, <2>3, WhichChunk
  <2>5. IdOf(k) = "fmt "
    BY <2>1, <2>4, Zenon
  <2>6. \E i \in 1 .. n - 1 : IdOf(i) = "fmt "
    BY <2>3, <2>5
  <2>7. fmt = (\E i \in 1 .. n - 1 : IdOf(i) = "fmt ")
    BY <1>2, Zenon DEF Passed
  <2> QED
    BY <2>6, <2>7, Zenon
<1>5. /\ req.rf64 => ds64 = Ds64Now
      /\ ~req.rf64 => ds64 = Walk!NoDs64
  <2>1. n > 1
    BY <1>3
  <2> QED
    BY <1>2, <2>1 DEF Passed
<1>6. HasFact => n > 2
  <2>1. HasFact => OwnCount = 2
    BY DEF HasFact, OwnCount
  <2> QED
    BY <1>3, <2>1
<1> QED
  BY <1>2, <1>4, <1>5, <1>6

\* At the data chunk the walk goes on behind the audio, or stops if the header does
\* not say how much there is.
LEMMA DataStep ==
    ASSUME Inv, HeaderInv, WriterInv, stage = "done", FileKnown, FileEnd < U64Max,
           life # "writing", status = "walking", NEW at, Laid(at),
           InHeader(at, Len(at)), NEW h \in HeadersAt(next), WalkOver(h),
           UNCHANGED <<vars, writing>>
    PROVE  PastHeader(at)' /\ status' \in {"walking", "stopped"} /\ file' = file
<1>1. /\ header_len \in Nat /\ header_len >= 44
      /\ next = header_len - 8
  <2>1. at[Len(at)] = header_len - 8
    BY PlacesFacts
  <2> QED
    BY <2>1, DoneFacts, PlacesFacts DEF InHeader
<1>2. h.id = "data" /\ h.len = (IF req.rf64 THEN U32Max ELSE DataLen)
  <2>1. h = [id |-> "data", len |-> IF req.rf64 THEN U32Max ELSE DataLen]
    BY <1>1, DataHeaderHere
  <2> QED
    BY <2>1
<1>3. Walk!OpenEndedData(h.len) \/ Walk!DataChunk(h.len)
  <2>1. "data" # "ds64" /\ "data" # "fact" /\ "data" # "fmt " /\ "data" \in Walk!Owned
        /\ "data" # Walk!NoId
    BY DEF Walk!Owned, Walk!NoId
  <2> QED
    BY <1>2, <2>1 DEF WalkOver
<1>4. /\ file.size = FileEnd /\ (file.rf64 <=> req.rf64) /\ scan_end = FileEnd
      /\ ~Walk!FoundData /\ Passed(at, Len(at)) /\ \A b \in bodies : ~b.after
      /\ fact = (HasFact /\ Len(at) > 2)
  BY DEF InHeader, FileKnown, Walk!FoundData
<1>5. /\ req.rf64 => ds64 = Ds64Now
      /\ HasFact => Len(at) > 2
  BY <1>4, AllPassed
<1>6. DataLen \in Nat
  BY NumberFacts
<1>7. /\ recorded \in Nat /\ AudioEnd = header_len + recorded /\ AudioEnd \in Nat
      /\ FileEnd \in Nat /\ FileEnd >= AudioEnd
      /\ Len(tail) \in Nat /\ DOMAIN tail = 1 .. Len(tail)
      /\ tail = << >> => FileEnd = AudioEnd
      /\ \A i \in DOMAIN tail : EndOf(tail[i]) \in Nat /\ EndOf(tail[i]) <= FileEnd
  BY EndFacts DEF WriterInv
<1>8. Walk!SatAdd(next, Walk!ChunkHeaderSize) = header_len
  BY <1>1, <1>7, NoOverflow, WalkConstants
<1>9. next + Walk!ChunkHeaderSize = header_len
  BY <1>1, WalkConstants
<1>10. /\ req' = req /\ stage' = stage /\ header_len' = header_len /\ tail' = tail
       /\ offsets' = offsets /\ patched' = patched /\ life' = life
       /\ FileEnd' = FileEnd /\ DataLen' = DataLen
       /\ HasFact' <=> HasFact
       /\ Torn' <=> Torn
  BY FileStays
<1>11. fact <=> HasFact
  BY <1>4, <1>5
<1>12. {b \in bodies : b.after} = {}
  BY <1>4
<1>13. {TailBody(tail[i]) : i \in 1 .. 0} = {}
  OBVIOUS
<1>14. CASE Walk!OpenEndedData(h.len)
  <2>1. /\ ~file.rf64 /\ h.len = U32Max
        /\ audio' = [at |-> header_len, len |-> h.len]
        /\ status' = "stopped"
        /\ UNCHANGED <<file, next, scan_end, ds64, fmt, fact, bodies>>
    BY <1>9, <1>14 DEF Walk!OpenEndedData, Walk!UnsizedData
  <2>2. ~req.rf64 /\ h.len = DataLen /\ DataLen = U32Max
    BY <1>2, <1>4, <2>1
  <2>3. offsets.data \notin DOMAIN patched
    BY <2>2, SizedAudio
  <2>4. Passed(at, Len(at))'
    BY <1>4, <2>1, PassedStill
  <2>5. InTail(0)'
    BY <1>10, <1>12, <1>13, <2>1, <2>2, <2>3 DEF InTail
  <2>6. next' \in Nat /\ scan_end' \in 0 .. FileEnd'
    BY <1>1, <1>4, <1>7, <1>10, <2>1
  <2>7. audio' = [at |-> header_len', len |-> DataLen']
    BY <1>10, <2>1, <2>2
  <2>8. fact' <=> HasFact'
    BY <1>10, <1>11, <2>1
  <2>9. 0 \in 0 .. Len(tail')
    BY <1>7, <1>10
  <2>10. PastHeader(at)'
    BY <1>10, <2>4, <2>5, <2>6, <2>7, <2>8, <2>9 DEF PastHeader
  <2> QED
    BY <2>1, <2>10
<1>15. CASE Walk!DataChunk(h.len)
  <2> DEFINE n == Walk!BodyLen("data", h.len)
  <2>1. /\ ~Walk!UnsizedData(h.len)
        /\ audio' = [at |-> header_len, len |-> n]
        /\ scan_end' = Walk!ScanEndAfterData
        /\ next' = Walk!SatAdd(Walk!BodyEnd(n), Walk!PadOf(n))
        /\ UNCHANGED <<file, status, ds64, fmt, fact, bodies>>
    BY <1>4, <1>9, <1>15 DEF Walk!DataChunk, Walk!Advance
  <2>2. n = DataLen
    <3>1. CASE req.rf64
      <4>1. ds64.data = DataLen
        BY <1>5, <3>1 DEF Ds64Now
      <4> QED
        BY <1>2, <1>4, <3>1, <4>1 DEF Walk!BodyLen, Walk!SizeFor
    <3>2. CASE ~req.rf64
      BY <1>2, <1>4, <3>2 DEF Walk!BodyLen
    <3> QED
      BY <3>1, <3>2
  <2>3. req.rf64 \/ offsets.data \in DOMAIN patched
    <3>1. CASE ~req.rf64 /\ offsets.data \notin DOMAIN patched
      <4>1. h.len = U32Max
        BY <1>2, <3>1 DEF DataLen
      <4> QED
        BY <1>4, <2>1, <3>1, <4>1 DEF Walk!UnsizedData
    <3> QED
      BY <3>1
  <2> HIDE DEF n
  <2>4. Passed(at, Len(at))'
    BY <1>4, <2>1, PassedStill
  <2>5. audio' = [at |-> header_len', len |-> DataLen']
    BY <1>10, <2>1, <2>2
  <2>6. ASSUME ~Torn
        PROVE  /\ next' \in Nat /\ scan_end' \in 0 .. FileEnd'
               /\ (fact' <=> HasFact') /\ InTail(0)'
    <3>1. /\ Walk!ScanEndAfterData \in 0 .. FileEnd
          /\ ScanEndsWell(Walk!ScanEndAfterData)
      BY <1>4, <1>5, <2>3, <2>6, ScanEnd
    <3>2. DataLen \in 0 .. recorded
      BY <1>7, <3>1 DEF ScanEndsWell
    <3>3. PadOf(DataLen) \in {0, 1}
      BY <1>6, PadFacts
    <3>4. Walk!BodyEnd(DataLen) = header_len + DataLen
      <4>1. header_len + DataLen \in Nat /\ header_len + DataLen <= U64Max
        BY <1>1, <1>7, <3>2, WalkConstants
      <4>2. Walk!BodyEnd(DataLen) = Walk!SatAdd(header_len, DataLen)
        BY <1>8 DEF Walk!BodyEnd
      <4>3. Walk!SatAdd(header_len, DataLen) = header_len + DataLen
        BY <1>1, <1>6, <4>1, NoOverflow
      <4> QED
        BY <4>2, <4>3
    <3>5. next' = header_len + DataLen + PadOf(DataLen)
      <4>1. header_len + DataLen + PadOf(DataLen) <= U64Max
        BY <1>1, <1>7, <3>2, <3>3, WalkConstants
      <4>2. header_len + DataLen \in Nat /\ PadOf(DataLen) \in Nat
        BY <1>1, <1>6, <3>3
      <4> QED
        BY <2>1, <2>2, <3>4, <4>1, <4>2, NoOverflow, WalkConstants
    <3>6. scan_end' \in 0 .. FileEnd /\ ScanEndsWell(scan_end')
      BY <2>1, <3>1
    <3>7. next' \in Nat
      BY <1>1, <1>6, <3>3, <3>5
    <3>8. \/ /\ next' + 8 > scan_end'
             /\ life = "finalized" => 0 = Len(tail)
          \/ /\ 0 < Len(tail) /\ next' = tail[0 + 1].at
             /\ \E t \in 0 + 1 .. Len(tail) :
                    /\ scan_end' = EndOf(tail[t])
                    /\ life = "finalized" => t = Len(tail)
      <4>1. CASE /\ scan_end' <= header_len + DataLen
                 /\ life = "finalized" => tail = << >>
        <5>1. next' + 8 > scan_end'
          BY <1>1, <1>6, <1>7, <3>3, <3>5, <3>6, <4>1
        <5>2. tail = << >> => Len(tail) = 0
          OBVIOUS
        <5> QED
          BY <4>1, <5>1, <5>2
      <4>2. ASSUME DataLen = recorded, NEW t \in DOMAIN tail, scan_end' = EndOf(tail[t]),
                   life = "finalized" => t = Len(tail)
            PROVE  /\ 0 < Len(tail) /\ next' = tail[1].at
                   /\ t \in 1 .. Len(tail)
        <5>1. t \in 1 .. Len(tail) /\ tail # << >> /\ 0 < Len(tail)
          BY <1>7, <4>2
        <5>2. tail[1].at = AudioEnd + PadOf(recorded)
          BY <5>1 DEF WriterInv, TailInv
        <5> QED
          BY <1>7, <3>5, <4>2, <5>1, <5>2
      <4> QED
        BY <3>6, <4>1, <4>2 DEF ScanEndsWell
    <3>9. InTail(0)'
      <4>1. ~(~req'.rf64 /\ offsets'.data \notin DOMAIN patched')
        BY <1>10, <2>3
      <4>2. {b \in bodies' : b.after} = {TailBody(tail'[i]) : i \in 1 .. 0}
        BY <1>12, <1>13, <2>1
      <4>3. status' = "walking"
        BY <2>1
      <4> QED
        BY <1>10, <3>8, <4>1, <4>2, <4>3 DEF InTail, EndOf
    <3> QED
      BY <1>10, <1>11, <2>1, <3>6, <3>7, <3>9
  <2>7. 0 \in 0 .. Len(tail')
    BY <1>7, <1>10
  <2>8. PastHeader(at)'
    BY <1>10, <2>4, <2>5, <2>6, <2>7 DEF PastHeader
  <2> QED
    BY <2>1, <2>8
<1> QED
  BY <1>3, <1>14, <1>15

\* The ids that the reader consumes are reserved.
LEMMA TailIds ==
    ASSUME WriterInv, NEW i \in DOMAIN tail
    PROVE  tail[i].id \notin Walk!Owned /\ tail[i].id # Walk!NoId /\ tail[i].size \in Nat
<1>1. tail[i].id \notin ReservedIds \cup {Walk!NoId} /\ tail[i].size \in Nat
  <2>1. tail \in Seq([id : STRING, size : Nat, at : Nat])
    BY DEF WriterInv, TailInv
  <2>2. i \in 1 .. Len(tail)
    BY <2>1
  <2>3. tail[i] \in [id : STRING, size : Nat, at : Nat]
    BY <2>1, <2>2, ElementOfSeq
  <2> QED
    BY <2>3 DEF WriterInv, TailInv
<1> QED
  BY <1>1 DEF ReservedIds, Walk!Owned

\* Once the audio is found nothing ahead of it changes.
LEMMA PastStep ==
    ASSUME Inv, HeaderInv, WriterInv, stage = "done", FileKnown, status = "walking",
           NEW at, Laid(at), PastHeader(at), NEW h, WalkOver(h),
           UNCHANGED <<vars, writing>>
    PROVE  /\ UNCHANGED <<file, audio, fmt, ds64, scan_end>>
           /\ status' \in {"walking", "stopped"}
           /\ {b \in bodies' : ~b.after} = {b \in bodies : ~b.after}
           /\ Passed(at, Len(at))'
           /\ audio' = [at |-> header_len', len |-> DataLen']
           /\ stage' = "done"
<1>1. Passed(at, Len(at)) /\ audio = [at |-> header_len, len |-> DataLen]
  BY DEF PastHeader
<1>2. Walk!FoundData = TRUE
  <2>1. audio.at = header_len /\ header_len >= 44 /\ header_len \in Nat
    BY <1>1, DoneFacts, PlacesFacts
  <2>2. audio # Walk!NoAudio
    BY <2>1 DEF Walk!NoAudio
  <2> QED
    BY <2>2 DEF Walk!FoundData
<1>3. /\ fmt = TRUE /\ (req.rf64 => ds64 = Ds64Now) /\ (~req.rf64 => ds64 = Walk!NoDs64)
      /\ (file.rf64 <=> req.rf64)
  BY <1>1, AllPassed DEF FileKnown
<1>4. ASSUME NEW id, NEW n, Walk!ReadBody(id, n)
      PROVE  {b \in bodies' : ~b.after} = {b \in bodies : ~b.after}
  <2>1. PICK new : new = [id |-> id, at |-> next + Walk!ChunkHeaderSize, len |-> n,
                          after |-> Walk!FoundData]
    OBVIOUS
  <2>2. bodies' = bodies \cup {new}
    BY <1>4, <2>1 DEF Walk!ReadBody
  <2>3. new.after
    BY <1>2, <2>1
  <2> QED
    BY <2>2, <2>3
<1>5. /\ UNCHANGED <<file, audio, fmt, ds64, scan_end>>
      /\ status' \in {"walking", "stopped"}
      /\ {b \in bodies' : ~b.after} = {b \in bodies : ~b.after}
  <2>1. CASE Walk!Ds64ChunkHolding(h.len, Ds64Here)
    <3>1. ~Walk!HonorsDs64(h.len)
      BY <1>3 DEF Walk!HonorsDs64, Ds64Now
    <3> QED
      BY <2>1, <3>1 DEF Walk!Ds64ChunkHolding
  <2>2. CASE Walk!FactChunk(h.len)
    <3>1. /\ UNCHANGED <<file, status, scan_end, ds64, fmt, audio>>
          /\ (\E n : Walk!ReadBody("fact", n)) \/ bodies' = bodies
      BY <2>2 DEF Walk!FactChunk
    <3> QED
      BY <1>4, <3>1
  <2>3. CASE Walk!FmtChunk(h.len)
    <3>1. ~Walk!TakesFmt(h.len)
      BY <1>3 DEF Walk!TakesFmt
    <3> QED
      BY <2>3, <3>1 DEF Walk!FmtChunk
  <2>4. CASE Walk!OpenEndedData(h.len)
    BY <1>2, <2>4 DEF Walk!OpenEndedData
  <2>5. CASE Walk!DataChunk(h.len)
    BY <1>2, <2>5 DEF Walk!DataChunk
  <2>6. CASE Walk!OtherChunk(h.id, h.len)
    <3>1. /\ UNCHANGED <<file, status, scan_end, ds64, fmt, fact, audio>>
          /\ \E n : Walk!ReadBody(h.id, n)
      BY <2>6 DEF Walk!OtherChunk
    <3> QED
      BY <1>4, <3>1
  <2>7. CASE Walk!CutOffChunk(h.id, h.len)
    BY <2>7 DEF Walk!CutOffChunk
  <2>8. CASE Walk!WalkedIntoAudio
    BY <2>8 DEF Walk!WalkedIntoAudio
  <2> QED
    BY <2>1, <2>2, <2>3, <2>4, <2>5, <2>6, <2>7, <2>8 DEF WalkOver
<1>6. Passed(at, Len(at))'
  BY <1>1, <1>5, PassedStill
<1>7. /\ audio' = [at |-> header_len', len |-> DataLen'] /\ stage' = "done"
  BY <1>1, <1>5, FileStays
<1> QED
  BY <1>5, <1>6, <1>7

\* Behind the audio the walk goes from one attached chunk to the next.
LEMMA TailStep ==
    ASSUME Inv, HeaderInv, WriterInv, stage = "done", FileKnown, FileEnd < U64Max,
           status = "walking", NEW at, Laid(at), PastHeader(at), ~Torn,
           NEW h \in HeadersAt(next), WalkOver(h), UNCHANGED <<vars, writing>>
    PROVE  /\ next' \in Nat /\ scan_end' \in 0 .. FileEnd' /\ (fact' <=> HasFact')
           /\ \E j \in 0 .. Len(tail') : InTail(j)'
<1>1. /\ next \in Nat /\ scan_end \in 0 .. FileEnd /\ (fact <=> HasFact)
      /\ Passed(at, Len(at)) /\ audio = [at |-> header_len, len |-> DataLen]
  BY DEF PastHeader
<1>2. PICK j \in 0 .. Len(tail) : InTail(j)
  BY DEF PastHeader
<1>3. /\ FileEnd \in Nat /\ Len(tail) \in Nat /\ DOMAIN tail = 1 .. Len(tail)
      /\ \A i \in DOMAIN tail :
            /\ tail[i].at \in Nat /\ tail[i].size \in Nat
            /\ EndOf(tail[i]) \in Nat /\ EndOf(tail[i]) <= FileEnd
  BY EndFacts DEF WriterInv
<1>4. ~(next + 8 > scan_end)
  <2>1. Walk!MoreToScan
    BY LooksWhereThereIsMore
  <2>2. scan_end \in Nat /\ scan_end < U64Max
    BY <1>1, <1>3, WalkConstants
  <2> QED
    BY <1>1, <2>1, <2>2, NoMore
<1>5. /\ ~(~req.rf64 /\ offsets.data \notin DOMAIN patched)
      /\ {b \in bodies : b.after} = {TailBody(tail[i]) : i \in 1 .. j}
      /\ j < Len(tail) /\ next = tail[j + 1].at
  BY <1>2, <1>4 DEF InTail
<1>6. PICK t \in j + 1 .. Len(tail) : /\ scan_end = EndOf(tail[t])
                                      /\ life = "finalized" => t = Len(tail)
  BY <1>2, <1>4, <1>5 DEF InTail
<1>7. j \in Nat /\ t \in Nat /\ j + 1 \in DOMAIN tail /\ j + 1 <= t /\ t <= Len(tail)
  <2>1. PICK n : n = Len(tail)
    OBVIOUS
  <2>2. n \in Nat /\ DOMAIN tail = 1 .. n /\ j \in 0 .. n /\ j < n /\ t \in j + 1 .. n
    BY <1>3, <1>5, <2>1
  <2> QED
    BY <2>1, <2>2
<1>8. PICK c : c = tail[j + 1]
  OBVIOUS
<1>9. h = [id |-> c.id, len |-> c.size]
  BY <1>5, <1>7, <1>8, TailChunkHere
<1>10. /\ c.id \notin Walk!Owned /\ c.id # Walk!NoId /\ c.size \in Nat
       /\ c.id # "fmt " /\ c.id # "data" /\ c.id # "fact" /\ c.id # "ds64"
  BY <1>7, <1>8, TailIds DEF Walk!Owned
<1>11. Walk!OtherChunk(c.id, c.size) \/ Walk!CutOffChunk(c.id, c.size)
  BY <1>9, <1>10 DEF WalkOver
<1>12. next = c.at /\ c.at \in Nat /\ next + ChunkLen(c.size) = EndOf(c) /\ EndOf(c) <= FileEnd
       /\ EndOf(c) \in Nat
  BY <1>3, <1>5, <1>7, <1>8 DEF EndOf
<1>13. /\ Walk!BodyEnd(c.size) = next + 8 + c.size
       /\ Walk!BodyEnd(c.size) <= FileEnd
       /\ Walk!SatAdd(Walk!BodyEnd(c.size), Walk!PadOf(c.size)) = EndOf(c)
  BY <1>1, <1>3, <1>10, <1>12, WholeChunk
<1>14. Walk!BodyLen(c.id, c.size) = c.size
  <2>1. ds64.table = << >>
    <3>1. ds64 = Ds64Now \/ ds64 = Walk!NoDs64
      BY <1>1, AllPassed
    <3> QED
      BY <3>1 DEF Ds64Now, Walk!NoDs64
  <2>2. DOMAIN ds64.table = {}
    BY <2>1
  <2>3. Walk!SizeFor(c.id, c.size) = c.size
    BY <1>10, <2>2 DEF Walk!SizeFor
  <2> QED
    BY <2>3 DEF Walk!BodyLen
<1>15. ~Walk!CutOffChunk(c.id, c.size)
  <2>1. SUFFICES ASSUME Walk!CutOffChunk(c.id, c.size) PROVE FALSE
    OBVIOUS
  <2>2. Walk!BodyEnd(c.size) > file.size /\ file.size = FileEnd
    BY <1>14, <2>1 DEF Walk!CutOffChunk, FileKnown
  <2>3. Walk!BodyEnd(c.size) \in Int
    <3>1. c.size \in Nat
      BY <1>10
    <3> QED
      BY <1>1, <1>13, <3>1
  <2> QED
    BY <1>3, <1>13, <2>2, <2>3
<1>16. /\ Walk!ReadBody(c.id, c.size)
       /\ next' = EndOf(c)
       /\ UNCHANGED <<file, status, scan_end, ds64, fmt, fact, audio>>
  BY <1>11, <1>13, <1>14, <1>15 DEF Walk!OtherChunk, Walk!Advance
<1>17. Walk!FoundData = TRUE
  <2>1. audio.at = header_len /\ header_len >= 44 /\ header_len \in Nat
    BY <1>1, DoneFacts, PlacesFacts
  <2>2. audio # Walk!NoAudio
    BY <2>1 DEF Walk!NoAudio
  <2> QED
    BY <2>2 DEF Walk!FoundData
<1>18. bodies' = bodies \cup {TailBody(c)}
  BY <1>12, <1>16, <1>17, WalkConstants DEF Walk!ReadBody, TailBody
<1>19. {b \in bodies' : b.after} = {TailBody(tail[i]) : i \in 1 .. j + 1}
  <2>1. TailBody(c).after
    BY DEF TailBody
  <2>2. {b \in bodies' : b.after} = {b \in bodies : b.after} \cup {TailBody(c)}
    BY <1>18, <2>1
  <2>3. \A i \in 1 .. j + 1 : i \in 1 .. j \/ i = j + 1
    BY <1>7
  <2>4. j + 1 \in 1 .. j + 1 /\ \A i \in 1 .. j : i \in 1 .. j + 1
    BY <1>7
  <2> QED
    BY <1>5, <1>8, <2>2, <2>3, <2>4
<1>20. PICK k : k = j + 1
  OBVIOUS
<1>21. k \in Nat /\ k \in 0 .. Len(tail) /\ k \in DOMAIN tail
  BY <1>3, <1>7, <1>20
<1>22. \/ next' + 8 > scan_end /\ (life = "finalized" => k = Len(tail))
       \/ /\ status = "walking" /\ k < Len(tail) /\ next' = tail[k + 1].at
          /\ \E u \in k + 1 .. Len(tail) : /\ scan_end = EndOf(tail[u])
                                           /\ life = "finalized" => u = Len(tail)
  <2>1. CASE k = t
    <3>1. next' = scan_end
      BY <1>6, <1>8, <1>16, <1>20, <2>1
    <3>2. next' + 8 > scan_end
      BY <1>1, <1>3, <3>1
    <3>3. life = "finalized" => k = Len(tail)
      BY <1>6, <2>1
    <3> QED
      BY <3>2, <3>3
  <2>2. CASE k # t
    <3>1. k < t /\ k \in 1 .. Len(tail) - 1 /\ t \in k + 1 .. Len(tail) /\ k < Len(tail)
      BY <1>3, <1>7, <1>20, <1>21, <2>2
    <3>2. tail[k + 1].at = EndOf(tail[k])
      BY <3>1 DEF WriterInv, TailInv
    <3>3. next' = tail[k + 1].at
      BY <1>8, <1>16, <1>20, <3>2
    <3> QED
      BY <1>6, <3>1, <3>3
  <2> QED
    BY <2>1, <2>2
<1>23. /\ req' = req /\ offsets' = offsets /\ patched' = patched /\ tail' = tail
       /\ life' = life /\ FileEnd' = FileEnd /\ (HasFact' <=> HasFact)
  BY FileStays
<1>24. InTail(k)'
  <2>1. {b \in bodies' : b.after} = {TailBody(tail[i]) : i \in 1 .. k}
    BY <1>19, <1>20
  <2>2. ~(~req'.rf64 /\ offsets'.data \notin DOMAIN patched')
    BY <1>5, <1>23
  <2>3. status' = status /\ status' # "stopped" /\ scan_end' = scan_end
    BY <1>16
  <2> QED
    BY <1>22, <1>23, <2>1, <2>2, <2>3 DEF InTail, EndOf, TailBody
<1> QED
  BY <1>1, <1>12, <1>16, <1>21, <1>23, <1>24

\* What an iteration has to show.
LEMMA StillWalking ==
    ASSUME Inv, HeaderInv, ReadInv, status = "walking", UNCHANGED <<vars, writing>>,
           file' = file, status' \in {"walking", "stopped"},
           NEW at \in Seq(Nat), Laid(at),
           \/ PastHeader(at)'
           \/ status' = "walking" /\ \E k \in 1 .. Len(at) : InHeader(at, k)'
    PROVE  ReadInv'
<1>1. /\ life # "writing" /\ FileKnown /\ FileEnd < U64Max /\ emitted # 0
  BY DEF ReadInv
<1>2. /\ FileEnd' = FileEnd /\ RiffLen' = RiffLen /\ UNCHANGED vars /\ req' = req
      /\ stage' = stage /\ life' = life /\ emitted' = emitted
  BY FileStays
<1>3. Laid(at)'
  BY <1>2, HeaderStill
<1>4. FileKnown'
  BY <1>1, <1>2 DEF FileKnown
<1> QED
  BY <1>1, <1>2, <1>3, <1>4 DEF ReadInv

\* Every iteration keeps the invariant of the walk.
LEMMA IterationKeeps ==
    ASSUME Inv, HeaderInv, WriterInv, ReadInv, NEW h \in HeadersAt(next), WalkOver(h),
           UNCHANGED <<vars, writing>>
    PROVE  ReadInv'
<1>1. Walk!MoreToScan /\ status = "walking"
  BY LooksWhereThereIsMore
<1>2. /\ life # "writing" /\ FileKnown /\ FileEnd < U64Max /\ emitted # 0
  BY <1>1 DEF ReadInv
<1>3. PICK at \in Seq(Nat) :
        /\ Laid(at)
        /\ PastHeader(at) \/ \E k \in 1 .. Len(at) : InHeader(at, k)
  BY <1>1 DEF ReadInv
<1>4. CASE PastHeader(at)
  <2>1. /\ file' = file /\ status' \in {"walking", "stopped"}
        /\ Passed(at, Len(at))' /\ audio' = [at |-> header_len', len |-> DataLen']
        /\ stage' = "done"
    BY <1>1, <1>2, <1>3, <1>4, PastStep DEF PastHeader
  <2>2. ~Torn => /\ next' \in Nat /\ scan_end' \in 0 .. FileEnd' /\ (fact' <=> HasFact')
                 /\ \E j \in 0 .. Len(tail') : InTail(j)'
    BY <1>1, <1>2, <1>3, <1>4, TailStep DEF PastHeader
  <2>3. Torn' <=> Torn
    BY FileStays
  <2>4. PastHeader(at)'
    BY <2>1, <2>2, <2>3 DEF PastHeader
  <2> QED
    BY <1>1, <1>3, <2>1, <2>4, StillWalking
<1>5. ASSUME NEW k \in 1 .. Len(at), InHeader(at, k)
      PROVE  ReadInv'
  <2>1. CASE k \in 1 .. Len(at) - 1
    <3>1. /\ InHeader(at, k + 1)' /\ k + 1 \in 1 .. Len(at)
          /\ status' = "walking" /\ file' = file
      BY <1>1, <1>2, <1>3, <1>5, <2>1, HeaderStep
    <3> QED
      BY <1>1, <1>3, <3>1, StillWalking
  <2>2. CASE k \notin 1 .. Len(at) - 1
    <3>1. k = Len(at)
      <4>1. PICK n : n = Len(at)
        OBVIOUS
      <4>2. n \in Nat
        BY <1>3, <4>1
      <4> QED
        BY <2>2, <4>1, <4>2
    <3>2. CASE stage = "done"
      <4>1. PastHeader(at)' /\ status' \in {"walking", "stopped"} /\ file' = file
        BY <1>1, <1>2, <1>3, <1>5, <3>1, <3>2, DataStep
      <4> QED
        BY <1>1, <1>3, <4>1, StillWalking
    <3>3. CASE stage # "done"
      <4>1. at[k] = emitted
        BY <1>3, <3>1, <3>3 DEF Laid, Contiguous
      <4>2. next = emitted /\ scan_end = emitted /\ FileEnd = emitted
        BY <1>5, <3>3, <4>1, UnpatchedYet DEF InHeader
      <4>3. next \in Nat
        BY <1>2, <1>3, <4>1, <4>2, LaidFacts
      <4>4. ~Walk!MoreToScan
        BY <1>2, <4>2, <4>3, NoMore
      <4> QED
        BY <1>1, <4>4
    <3> QED
      BY <3>2, <3>3
  <2> QED
    BY <2>1, <2>2
<1> QED
  BY <1>3, <1>4, <1>5

\* A walk with room for a chunk header goes on.
LEMMA MoreWhereThereIs ==
    ASSUME next \in Nat, scan_end \in Nat, scan_end < U64Max, next + 8 <= scan_end
    PROVE  Walk!MoreToScan
BY WalkConstants DEF Walk!MoreToScan, Walk!SatAdd, Walk!Least

\* What the walk ends with behind the header.
LEMMA ResultBehind ==
    ASSUME Inv, HeaderInv, WriterInv, ReadInv, NEW at, Laid(at), PastHeader(at),
           Walk!Result, UNCHANGED <<vars, writing>>
    PROVE  status' = "ok" /\ file' = file /\ PastHeader(at)'
<1>1. /\ status = "stopped" \/ (status = "walking" /\ ~Walk!MoreToScan)
      /\ status' = (IF Walk!FoundData /\ fmt THEN "ok" ELSE "error")
      /\ UNCHANGED <<file, next, scan_end, ds64, fmt, fact, audio, bodies>>
  BY DEF Walk!Result
<1>2. /\ Passed(at, Len(at)) /\ audio = [at |-> header_len, len |-> DataLen]
      /\ stage = "done" /\ FileEnd < U64Max
  BY <1>1 DEF PastHeader, ReadInv
<1>3. Walk!FoundData
  <2>1. audio.at = header_len /\ header_len >= 44 /\ header_len \in Nat
    BY <1>2, DoneFacts, PlacesFacts
  <2>2. audio # Walk!NoAudio
    BY <2>1 DEF Walk!NoAudio
  <2> QED
    BY <2>2 DEF Walk!FoundData
<1>4. status' = "ok"
  <2>1. fmt = TRUE
    BY <1>2, AllPassed
  <2> QED
    BY <1>1, <1>3, <2>1
<1>5. Passed(at, Len(at))'
  BY <1>1, <1>2, PassedStill
<1>6. /\ req' = req /\ offsets' = offsets /\ patched' = patched /\ tail' = tail
      /\ life' = life /\ FileEnd' = FileEnd /\ (HasFact' <=> HasFact) /\ stage' = stage
      /\ header_len' = header_len /\ DataLen' = DataLen /\ (Torn' <=> Torn)
  BY FileStays
<1>7. ASSUME ~Torn, NEW j \in 0 .. Len(tail), InTail(j)
      PROVE  InTail(j)'
  <2>1. {b \in bodies : b.after} = {TailBody(tail[i]) : i \in 1 .. j}
    BY <1>7 DEF InTail
  <2>2. CASE ~req.rf64 /\ offsets.data \notin DOMAIN patched
    <3>1. j = 0
      BY <1>7, <2>2 DEF InTail
    <3> QED
      BY <1>1, <1>4, <1>6, <2>1, <2>2, <3>1 DEF InTail, TailBody
  <2>3. CASE ~(~req.rf64 /\ offsets.data \notin DOMAIN patched)
    <3>1. status = "walking" /\ ~Walk!MoreToScan
      BY <1>1, <1>7, <2>3 DEF InTail
    <3>2. ~(j < Len(tail) /\ next = tail[j + 1].at
             /\ \E t \in j + 1 .. Len(tail) : scan_end = EndOf(tail[t]))
      <4>1. SUFFICES ASSUME j < Len(tail), next = tail[j + 1].at,
                            NEW t \in j + 1 .. Len(tail), scan_end = EndOf(tail[t])
                     PROVE  FALSE
        OBVIOUS
      <4>2. PICK n : n = Len(tail)
        OBVIOUS
      <4>3. /\ n \in Nat /\ DOMAIN tail = 1 .. n /\ FileEnd \in Nat
            /\ \A i \in DOMAIN tail : /\ tail[i].at \in Nat /\ tail[i].size \in Nat
                                      /\ EndOf(tail[i]) \in Nat
                                      /\ EndOf(tail[i]) >= tail[i].at + 8 + tail[i].size
                                      /\ EndOf(tail[i]) <= FileEnd
        BY <1>2, <4>2, EndFacts DEF WriterInv
      <4>4. j + 1 \in DOMAIN tail /\ t \in DOMAIN tail /\ (j + 1 < t \/ j + 1 = t)
        <5>1. j \in 0 .. n /\ j < n /\ t \in j + 1 .. n /\ n \in Nat
          BY <4>1, <4>2, <4>3
        <5>2. j + 1 \in 1 .. n /\ t \in 1 .. n /\ (j + 1 < t \/ j + 1 = t)
          BY <5>1
        <5> QED
          BY <4>3, <5>2
      <4>5. tail[j + 1].at + 8 <= EndOf(tail[t])
        <5>1. /\ tail[j + 1].at \in Nat /\ tail[j + 1].size \in Nat
              /\ EndOf(tail[j + 1]) >= tail[j + 1].at + 8 + tail[j + 1].size
              /\ EndOf(tail[j + 1]) \in Nat
          BY <4>3, <4>4
        <5>2. /\ tail[t].at \in Nat /\ tail[t].size \in Nat
              /\ EndOf(tail[t]) >= tail[t].at + 8 + tail[t].size
              /\ EndOf(tail[t]) \in Nat
          BY <4>3, <4>4
        <5>3. j + 1 < t => EndOf(tail[j + 1]) <= tail[t].at
          BY <4>4 DEF WriterInv, TailInv
        <5>4. CASE j + 1 < t
          <6>1. PICK a, b, c, d : /\ a = tail[j + 1].at /\ b = EndOf(tail[j + 1])
                                  /\ c = tail[t].at /\ d = EndOf(tail[t])
            OBVIOUS
          <6>2. a \in Nat /\ b \in Nat /\ a + 8 <= b
            BY <5>1, <6>1
          <6>3. c \in Nat /\ d \in Nat /\ c <= d /\ b <= c
            BY <5>2, <5>3, <5>4, <6>1
          <6> QED
            BY <6>1, <6>2, <6>3
        <5>5. CASE j + 1 = t
          <6>1. tail[j + 1] = tail[t]
            BY <5>5
          <6> QED
            BY <5>2, <6>1
        <5> QED
          BY <4>4, <5>4, <5>5
      <4>6. next \in Nat /\ scan_end \in Nat /\ scan_end <= FileEnd
        BY <4>1, <4>3, <4>4
      <4>7. scan_end < U64Max /\ next + 8 <= scan_end
        BY <1>2, <4>1, <4>3, <4>5, <4>6, WalkConstants
      <4> QED
        BY <3>1, <4>6, <4>7, MoreWhereThereIs
    <3>3. next + 8 > scan_end /\ (life = "finalized" => j = Len(tail))
      BY <1>7, <2>3, <3>2 DEF InTail
    <3> QED
      BY <1>1, <1>4, <1>6, <2>1, <2>3, <3>3 DEF InTail, TailBody
  <2> QED
    BY <2>2, <2>3
<1>8. PastHeader(at)'
  <2>1. /\ stage' = "done" /\ audio' = [at |-> header_len', len |-> DataLen']
    BY <1>1, <1>2, <1>6
  <2>2. ~Torn' => /\ next' \in Nat /\ scan_end' \in 0 .. FileEnd'
                  /\ (fact' <=> HasFact')
                  /\ \E j \in 0 .. Len(tail') : InTail(j)'
    BY <1>1, <1>6, <1>7 DEF PastHeader
  <2> QED
    BY <1>5, <2>1, <2>2 DEF PastHeader
<1> QED
  BY <1>1, <1>4, <1>8

\* Inside a whole header there is always more.
LEMMA ResultInside ==
    ASSUME Inv, HeaderInv, WriterInv, ReadInv, status = "walking", NEW at, Laid(at),
           NEW k \in 1 .. Len(at), InHeader(at, k), Walk!Result
    PROVE  status' = "error" /\ file' = file /\ stage # "done"
<1>1. /\ ~Walk!MoreToScan
      /\ status' = (IF Walk!FoundData /\ fmt THEN "ok" ELSE "error") /\ file' = file
  BY DEF Walk!Result
<1>2. ~Walk!FoundData
  BY DEF Walk!FoundData, InHeader
<1>3. stage # "done"
  <2>1. SUFFICES ASSUME stage = "done" PROVE FALSE
    OBVIOUS
  <2>2. PICK n : n = Len(at)
    OBVIOUS
  <2>3. n \in Nat /\ at[n] = header_len - 8 /\ k \in 1 .. n /\ n \in 1 .. n
    <3>1. n \in Nat /\ at[n] = header_len - 8
      BY <2>1, <2>2, DoneFacts, LaidFacts, PlacesFacts
    <3> QED
      BY <2>2, <3>1
  <2>4. at[k] \in Nat /\ (k < n => at[k] + 8 <= at[n])
    <3>1. /\ \A i \in 1 .. n : at[i] \in Nat
          /\ \A i, j \in 1 .. n : i < j => at[i] + 8 <= at[j]
      BY <2>1, <2>2, DoneFacts, LaidFacts
    <3> QED
      BY <2>3, <3>1
  <2>5. /\ header_len \in Nat /\ AudioEnd = header_len + recorded /\ recorded \in Nat
        /\ FileEnd \in Nat /\ FileEnd >= AudioEnd
    BY <2>1, DoneFacts, EndFacts DEF WriterInv
  <2>6. at[k] + 8 <= FileEnd
    BY <2>3, <2>4, <2>5
  <2>7. next = at[k] /\ scan_end = FileEnd /\ FileEnd < U64Max
    BY DEF InHeader, ReadInv
  <2> QED
    BY <1>1, <2>4, <2>5, <2>6, <2>7, MoreWhereThereIs
<1> QED
  BY <1>1, <1>2, <1>3

\* So does every step of the parser.
LEMMA ReadKeeps ==
    ASSUME Inv, HeaderInv, WriterInv, ReadInv, Read
    PROVE  ReadInv'
<1>1. UNCHANGED <<vars, writing>>
  BY DEF Read
<1>2. CASE \E h \in HeadersAt(next) : WalkOver(h)
  BY <1>1, <1>2, IterationKeeps
<1>3. CASE Walk!Result
  <2>1. status \in {"walking", "stopped"} /\ status # "unread"
    BY <1>3 DEF Walk!Result
  <2>2. life # "writing" /\ FileKnown /\ FileEnd < U64Max
    BY <2>1 DEF ReadInv
  <2>3. /\ FileEnd' = FileEnd /\ RiffLen' = RiffLen /\ UNCHANGED vars /\ req' = req
        /\ stage' = stage /\ life' = life
    BY <1>1, FileStays
  <2>4. file' = file => FileKnown'
    BY <2>2, <2>3 DEF FileKnown
  <2>5. ASSUME NEW at \in Seq(Nat), Laid(at), PastHeader(at)
        PROVE  ReadInv'
    <3>1. status' = "ok" /\ file' = file /\ PastHeader(at)'
      BY <1>1, <1>3, <2>5, ResultBehind
    <3>2. Laid(at)'
      BY <2>3, <2>5, HeaderStill
    <3> QED
      BY <2>2, <2>3, <2>4, <2>5, <3>1, <3>2 DEF ReadInv
  <2>6. ASSUME status = "walking", NEW at \in Seq(Nat), Laid(at),
               NEW k \in 1 .. Len(at), InHeader(at, k)
        PROVE  ReadInv'
    <3>1. status' = "error" /\ file' = file /\ stage # "done"
      BY <1>3, <2>6, ResultInside
    <3> QED
      BY <2>2, <2>3, <2>4, <3>1 DEF ReadInv
  <2> QED
    BY <2>1, <2>5, <2>6 DEF ReadInv
<1> QED
  BY <1>1, <1>2, <1>3 DEF Read

\* Nothing is read while the file is written.
LEMMA UnreadStill ==
    ASSUME ReadInv, life = "writing", UNCHANGED reading
    PROVE  ReadInv' /\ status = "unread"
BY DEF ReadInv, reading

\* Opening the file, finalized, released or left by a kill, begins it.
LEMMA OpenKeeps ==
    ASSUME Inv, HeaderInv, WriterInv, ReadInv, Open
    PROVE  ReadInv'
<1>1. /\ status = "unread" /\ FileEnd < U64Max
      /\ life' = (IF life = "writing" THEN "killed" ELSE life)
      /\ file' = [size |-> FileEnd, rf64 |-> req.rf64,
                  declared |-> IF emitted = 0 THEN 0 ELSE NumberIn(Named("RIFF", "size"))]
      /\ status' = (IF FileEnd < 12 THEN "error" ELSE "walking")
      /\ next' = 12 /\ scan_end' = FileEnd
      /\ UNCHANGED vars
      /\ UNCHANGED <<recorded, tail, patches, patched, ds64, fmt, fact, audio, bodies>>
  BY DEF Open
<1>2. /\ req' = req /\ stage' = stage /\ emitted' = emitted /\ offsets' = offsets
      /\ patched' = patched
  BY <1>1 DEF vars
<1>3. FileEnd' = FileEnd
  BY <1>1, SameFile
<1>4. RiffLen' = RiffLen
  BY <1>2 DEF RiffLen
<1>5. /\ ds64 = Walk!NoDs64 /\ fmt = FALSE /\ fact = FALSE
      /\ audio = Walk!NoAudio /\ bodies = {}
  BY <1>1 DEF ReadInv
<1>6. life' # "writing"
  BY <1>1
<1>7. FileKnown'
  <2>1. stage = "done" => file'.declared = (IF req.rf64 THEN U32Max ELSE RiffLen)
    BY <1>1, DoneFacts, DeclaredSizes
  <2> QED
    BY <1>1, <1>2, <1>3, <1>4, <2>1 DEF FileKnown
<1>8. stage = "done" => FileEnd >= 12
  <2>1. stage = "done" => AudioEnd >= 44 /\ AudioEnd \in Nat /\ FileEnd >= AudioEnd
                          /\ FileEnd \in Nat
    BY EndFacts DEF WriterInv
  <2> QED
    BY <2>1
<1>9. status' = "error" => stage # "done"
  <2>1. CASE stage = "done"
    <3>1. ~(FileEnd < 12)
      <4>1. FileEnd \in Nat
        BY <2>1, EndFacts DEF WriterInv
      <4> QED
        BY <1>8, <2>1, <4>1
    <3> QED
      BY <1>1, <3>1
  <2> QED
    BY <2>1
<1>10. ASSUME status' = "walking"
       PROVE  /\ emitted' # 0
              /\ \E at \in Seq(Nat) : /\ Laid(at)'
                                      /\ \E k \in 1 .. Len(at) : InHeader(at, k)'
  <2>1. emitted # 0
    <3>1. SUFFICES ASSUME emitted = 0 PROVE FALSE
      OBVIOUS
    <3>2. stage # "done"
      BY <3>1, DoneFacts
    <3>3. FileEnd = 0
      BY <3>1, <3>2, UnpatchedYet
    <3>4. ~(FileEnd < 12)
      BY <1>1, <1>10
    <3> QED
      BY <3>3, <3>4
  <2>2. PICK at \in Seq(Nat) : Laid(at)
    BY <2>1 DEF HeaderInv
  <2>3. Laid(at)'
    BY <1>1, <2>2, HeaderStill
  <2>4. at[1] = 12 /\ 1 \in 1 .. Len(at)
    BY <2>1, <2>2, LaidFacts
  <2>5. Passed(at, 1)'
    <3>1. 1 .. 1 - 1 = {}
      OBVIOUS
    <3>2. {b \in bodies' : ~b.after} = {HeadBody(i, at[i])' : i \in 1 .. 1 - 1}
      BY <1>1, <1>5, <3>1
    <3>3. fmt' = (\E i \in 1 .. 1 - 1 : IdOf(i)' = "fmt ")
      <4>1. ~ \E i \in 1 .. 1 - 1 : IdOf(i)' = "fmt "
        BY <3>1
      <4>2. fmt' = FALSE
        BY <1>1, <1>5
      <4> QED
        BY <4>1, <4>2, Zenon
    <3>4. ~(1 > 1) /\ ds64' = Walk!NoDs64
      BY <1>1, <1>5
    <3> QED
      BY <3>2, <3>3, <3>4, Zenon DEF Passed
  <2>6. fact' = (HasFact' /\ 1 > 2)
    <3>1. ~(1 > 2) /\ fact' = FALSE
      BY <1>1, <1>5
    <3> QED
      BY <3>1, Zenon
  <2>7. InHeader(at, 1)'
    <3>1. next' = at[1] /\ scan_end' = FileEnd' /\ audio' = Walk!NoAudio /\ bodies' = {}
      BY <1>1, <1>3, <1>5, <2>4
    <3>2. \A b \in bodies' : ~b.after
      BY <3>1
    <3> QED
      BY <2>5, <2>6, <3>1, <3>2, Zenon DEF InHeader
  <2> QED
    BY <1>2, <2>1, <2>2, <2>3, <2>4, <2>7
<1>11. status' \in {"walking", "error"}
  BY <1>1
<1> QED
  BY <1>1, <1>3, <1>6, <1>7, <1>9, <1>10, <1>11, <1>2 DEF ReadInv

\* A step that touches neither the file nor the walk keeps it.
LEMMA ReadStill ==
    ASSUME ReadInv, HeaderInv, UNCHANGED <<vars, writing>>, UNCHANGED reading
    PROVE  ReadInv'
<1>1. UNCHANGED <<file, status, next, scan_end, ds64, fmt, fact, audio, bodies>>
  BY DEF reading
<1>2. /\ req' = req /\ stage' = stage /\ header_len' = header_len /\ tail' = tail
      /\ offsets' = offsets /\ patched' = patched /\ life' = life
      /\ emitted' = emitted /\ UNCHANGED vars
      /\ FileEnd' = FileEnd /\ DataLen' = DataLen /\ RiffLen' = RiffLen
      /\ (HasFact' <=> HasFact) /\ (Torn' <=> Torn)
  BY FileStays
<1>3. FileKnown => FileKnown'
  BY <1>1, <1>2 DEF FileKnown
<1>4. \A at : Laid(at) => Laid(at)'
  BY <1>2, HeaderStill
<1>5. \A at, k : Passed(at, k) => Passed(at, k)'
  BY <1>1, PassedStill
<1>6. ASSUME NEW at, PastHeader(at)
      PROVE  PastHeader(at)'
  <2>1. \A j : InTail(j) => InTail(j)'
    BY <1>1, <1>2 DEF InTail, EndOf, TailBody
  <2> QED
    BY <1>1, <1>2, <1>5, <1>6, <2>1 DEF PastHeader
<1>7. ASSUME NEW at, NEW k, InHeader(at, k)
      PROVE  InHeader(at, k)'
  <2>1. Passed(at, k)'
    BY <1>5, <1>7 DEF InHeader
  <2>2. fact' = (HasFact' /\ k > 2)
    <3>1. fact = (HasFact /\ k > 2)
      BY <1>7 DEF InHeader
    <3> QED
      BY <1>1, <1>2, <3>1, Zenon
  <2> QED
    BY <1>1, <1>2, <1>7, <2>1, <2>2, Zenon DEF InHeader
<1> QED
  BY <1>1, <1>2, <1>3, <1>4, <1>6, <1>7 DEF ReadInv

-----------------------------------------------------------------------------
(* What the reader hands out.                                              *)

\* The leading chunks come back as they were given.
LEMMA LeadingHanded ==
    ASSUME Inv, HeaderInv, stage = "done", NEW at, Laid(at), Passed(at, Len(at))
    PROVE  Handed(FALSE) = req.leading
<1>1. req \in RequestType /\ Acceptable /\ emitted # 0
  BY DoneFacts
<1>2. PICK n : n = Len(req.leading)
  OBVIOUS
<1>3. PICK c : c = Len(at)
  OBVIOUS
<1>4. PICK own : own = OwnCount
  OBVIOUS
<1>5. n \in Nat /\ own \in {1, 2} /\ c - 1 = own + n /\ ChunkCount = own + n /\ c \in Nat
  <2>1. ChunkCount = own + n /\ n \in Nat /\ own \in {1, 2}
    BY <1>1, <1>2, <1>4, PlanFacts
  <2>2. c = ChunkCount + 1
    BY <1>3, PlacesFacts
  <2> QED
    BY <2>1, <2>2
<1>6. PICK e : e = [i \in 1 .. n |-> HeadBody(own + i, at[own + i])]
  OBVIOUS
<1>7. \A i \in 1 .. n : e[i] = HeadBody(own + i, at[own + i])
  BY <1>6
<1>8. \A i \in 1 .. n : own + i \in 1 .. c - 1 /\ own + i \in 1 .. c
                        /\ own + i \in 1 .. ChunkCount /\ own + i > own
                        /\ own + i - own = i
  BY <1>5
<1>9. \A i \in 1 .. n : /\ e[i].id = req.leading[i].id /\ e[i].len = req.leading[i].size
                        /\ e[i].at = at[own + i] + 8
                        /\ e[i].after = FALSE
  <2> TAKE i \in 1 .. n
  <2>1. PICK k : k = own + i
    OBVIOUS
  <2>2. k \in 1 .. ChunkCount /\ k > OwnCount
    BY <1>4, <1>8, <2>1
  <2>3. /\ IdOf(k) = req.leading[k - OwnCount].id
        /\ LenOf(k) = req.leading[k - OwnCount].size
    BY <1>1, <2>2, PlanFacts
  <2>4. k - OwnCount = i
    <3>1. k - own = i
      BY <1>5, <2>1
    <3> QED
      BY <1>4, <3>1
  <2>5. e[i] = HeadBody(k, at[own + i])
    BY <1>7, <2>1
  <2> QED
    BY <2>3, <2>4, <2>5 DEF HeadBody
<1>10. /\ \A i \in 1 .. n : e[i].at \in Int
       /\ \A i, j \in 1 .. n : i < j => e[i].at < e[j].at
  <2>1. /\ \A i \in 1 .. c : at[i] \in Nat
        /\ \A i, j \in 1 .. c : i < j => at[i] + 8 <= at[j]
    BY <1>1, <1>3, LaidFacts
  <2>2. \A i \in 1 .. n : at[own + i] \in Nat
    BY <1>8, <2>1
  <2>3. ASSUME NEW i \in 1 .. n, NEW j \in 1 .. n, i < j
        PROVE  at[own + i] + 8 <= at[own + j]
    <3>1. own + i < own + j
      BY <1>5, <2>3
    <3> QED
      BY <1>8, <2>1, <3>1
  <2>4. \A i, j \in 1 .. n : i < j => at[own + i] + 8 < at[own + j] + 8
    BY <2>2, <2>3
  <2> QED
    BY <1>9, <2>2, <2>4
<1>11. {b \in Walk!Captured : b.after = FALSE} = {e[i] : i \in 1 .. n}
  <2>1. {b \in bodies : ~b.after} = {HeadBody(i, at[i]) : i \in 1 .. c - 1}
    BY <1>3 DEF Passed
  <2>2. \A i \in 1 .. c - 1 : IdOf(i) \notin Walk!Owned <=> i > own
    <3> TAKE i \in 1 .. c - 1
    <3>1. i \in 1 .. ChunkCount
      BY <1>5
    <3> QED
      BY <1>1, <1>4, <3>1, WhichChunk
  <2>3. ASSUME NEW b \in Walk!Captured, b.after = FALSE
        PROVE  \E i \in 1 .. n : b = e[i]
    <3>1. PICK k \in 1 .. c - 1 : b = HeadBody(k, at[k])
      BY <2>1, <2>3 DEF Walk!Captured
    <3>2. k > own
      BY <2>2, <2>3, <3>1 DEF Walk!Captured, HeadBody
    <3>3. k - own \in 1 .. n /\ own + (k - own) = k
      BY <1>5, <3>1, <3>2
    <3> QED
      BY <1>7, <3>1, <3>3
  <2>4. ASSUME NEW i \in 1 .. n
        PROVE  e[i] \in Walk!Captured /\ e[i].after = FALSE
    <3>1. e[i] \in bodies /\ e[i].after = FALSE
      BY <1>7, <1>8, <1>9, <2>1
    <3>2. e[i].id \notin Walk!Owned
      <4>1. IdOf(own + i) \notin Walk!Owned
        BY <1>8, <2>2
      <4>2. e[i].id = IdOf(own + i)
        <5>1. e[i] = HeadBody(own + i, at[own + i])
          BY <1>7
        <5> QED
          BY <5>1 DEF HeadBody
      <4> QED
        BY <4>1, <4>2
    <3> QED
      BY <3>1, <3>2 DEF Walk!Captured
  <2> QED
    BY <2>3, <2>4
<1>12. Handed(FALSE) = [i \in 1 .. n |-> [id |-> e[i].id, size |-> e[i].len]]
  <2>1. PICK found : found = [i \in 1 .. n |-> e[i]]
    OBVIOUS
  <2>2. InOrder({e[i] : i \in 1 .. n}) = found
    BY <1>5, <1>10, <2>1, InOrderIs
  <2>3. InOrder({b \in Walk!Captured : b.after = FALSE}) = found
    BY <1>11, <2>2
  <2>4. Handed(FALSE) = [i \in DOMAIN found |-> [id |-> found[i].id, size |-> found[i].len]]
    BY <2>3 DEF Handed
  <2>5. DOMAIN found = 1 .. n /\ \A i \in 1 .. n : found[i] = e[i]
    BY <2>1
  <2> QED
    BY <2>4, <2>5
<1>13. req.leading = [i \in 1 .. n |-> [id |-> e[i].id, size |-> e[i].len]]
  <2>1. req.leading \in Seq([id : STRING, size : Nat])
    BY <1>1, RequestFacts
  <2>2. req.leading = [i \in 1 .. n |-> req.leading[i]]
    BY <1>2, <2>1
  <2>3. \A i \in 1 .. n : req.leading[i] = [id |-> e[i].id, size |-> e[i].len]
    <3> TAKE i \in 1 .. n
    <3>1. req.leading[i] \in [id : STRING, size : Nat]
      BY <1>2, <2>1, ElementOfSeq
    <3> QED
      BY <1>9, <3>1
  <2> QED
    BY <2>2, <2>3
<1> QED
  BY <1>12, <1>13

\* The chunks behind the audio come back in their order, from the first on.
LEMMA TailHanded ==
    ASSUME Inv, HeaderInv, WriterInv, stage = "done", NEW j \in 0 .. Len(tail), InTail(j)
    PROVE  /\ Handed(TRUE) = [i \in 1 .. j |-> [id |-> tail[i].id, size |-> tail[i].size]]
           /\ j \in Nat /\ Len(tail) \in Nat /\ j <= Len(tail) /\ 1 .. j \subseteq DOMAIN tail
<1>1. PICK n : n = Len(tail)
  OBVIOUS
<1>2. /\ n \in Nat /\ DOMAIN tail = 1 .. n
      /\ \A i \in DOMAIN tail : tail[i].at \in Nat /\ EndOf(tail[i]) \in Nat
                                /\ EndOf(tail[i]) >= tail[i].at + 8 + tail[i].size
                                /\ tail[i].size \in Nat
  BY <1>1, EndFacts DEF WriterInv
<1>3. j \in Nat /\ j <= n /\ \A i \in 1 .. j : i \in DOMAIN tail
  BY <1>1, <1>2
<1>4. PICK e : e = [i \in 1 .. j |-> TailBody(tail[i])]
  OBVIOUS
<1>5. \A i \in 1 .. j : e[i] = TailBody(tail[i])
  BY <1>4
<1>6. \A i \in 1 .. j : /\ e[i].id = tail[i].id /\ e[i].len = tail[i].size
                        /\ e[i].at = tail[i].at + 8 /\ e[i].after = TRUE
  <2> TAKE i \in 1 .. j
  <2>1. e[i] = TailBody(tail[i])
    BY <1>5
  <2> QED
    BY <2>1 DEF TailBody
<1>7. \A i \in 1 .. j : e[i].at \in Int
  BY <1>2, <1>3, <1>6
<1>8. \A i, k \in 1 .. j : i < k => e[i].at < e[k].at
  <2> SUFFICES ASSUME NEW i \in 1 .. j, NEW k \in 1 .. j, i < k
               PROVE  e[i].at < e[k].at
    OBVIOUS
  <2>1. PICK a, b, d, s : /\ a = tail[i].at /\ b = EndOf(tail[i]) /\ d = tail[k].at
                          /\ s = tail[i].size
    OBVIOUS
  <2>2. a \in Nat /\ b \in Nat /\ d \in Nat /\ s \in Nat /\ b >= a + 8 + s
    BY <1>2, <1>3, <2>1
  <2>3. b <= d
    BY <1>3, <2>1 DEF WriterInv, TailInv
  <2>4. a + 8 < d + 8
    BY <2>2, <2>3
  <2> QED
    BY <1>6, <2>1, <2>4
<1>9. {b \in Walk!Captured : b.after = TRUE} = {e[i] : i \in 1 .. j}
  <2>1. {b \in bodies : b.after} = {TailBody(tail[i]) : i \in 1 .. j}
    BY DEF InTail
  <2>2. ASSUME NEW b \in Walk!Captured, b.after = TRUE
        PROVE  \E i \in 1 .. j : b = e[i]
    <3>1. PICK i \in 1 .. j : b = TailBody(tail[i])
      BY <2>1, <2>2 DEF Walk!Captured
    <3> QED
      BY <1>5, <3>1
  <2>3. ASSUME NEW i \in 1 .. j
        PROVE  e[i] \in Walk!Captured /\ e[i].after = TRUE
    <3>1. e[i] \in bodies /\ e[i].after = TRUE
      BY <1>5, <1>6, <2>1
    <3>2. e[i].id \notin Walk!Owned
      BY <1>3, <1>6, TailIds
    <3> QED
      BY <3>1, <3>2 DEF Walk!Captured
  <2> QED
    BY <2>2, <2>3
<1>10. Handed(TRUE) = [i \in 1 .. j |-> [id |-> e[i].id, size |-> e[i].len]]
  <2>1. PICK found : found = [i \in 1 .. j |-> e[i]]
    OBVIOUS
  <2>2. InOrder({e[i] : i \in 1 .. j}) = found
    BY <1>3, <1>7, <1>8, <2>1, InOrderIs
  <2>3. InOrder({b \in Walk!Captured : b.after = TRUE}) = found
    BY <1>9, <2>2
  <2>4. Handed(TRUE) = [i \in DOMAIN found |-> [id |-> found[i].id, size |-> found[i].len]]
    BY <2>3 DEF Handed
  <2>5. DOMAIN found = 1 .. j /\ \A i \in 1 .. j : found[i] = e[i]
    BY <2>1
  <2> QED
    BY <2>4, <2>5
<1>11. Handed(TRUE) = [i \in 1 .. j |-> [id |-> tail[i].id, size |-> tail[i].size]]
  BY <1>6, <1>10
<1> QED
  BY <1>1, <1>2, <1>3, <1>11

\* The fact body is the one in the header.
LEMMA FactReadIs ==
    ASSUME Inv, HeaderInv, WriterInv, NEW at, Laid(at), PastHeader(at), ~Torn
    PROVE  FactRead = (IF HasFact THEN LenOf(2) ELSE Absent)
<1>1. /\ stage = "done" /\ Passed(at, Len(at)) /\ (fact <=> HasFact)
  BY DEF PastHeader
<1>2. PICK j \in 0 .. Len(tail) : InTail(j)
  BY DEF PastHeader
<1>3. req \in RequestType /\ Acceptable
  BY <1>1, DoneFacts
<1>4. CASE ~HasFact
  BY <1>1, <1>4 DEF FactRead
<1>5. CASE HasFact
  <2>1. PICK c : c = Len(at)
    OBVIOUS
  <2>2. c > 2 /\ c - 1 = ChunkCount /\ ChunkCount \in Nat
    <3>1. c > 2
      BY <1>1, <1>5, <2>1, AllPassed
    <3>2. c = ChunkCount + 1 /\ ChunkCount \in Nat
      BY <1>1, <1>3, <2>1, PlacesFacts, PlanFacts
    <3> QED
      BY <3>1, <3>2
  <2>3. {b \in bodies : ~b.after} = {HeadBody(i, at[i]) : i \in 1 .. c - 1}
    BY <1>1, <2>1 DEF Passed
  <2>4. 2 \in 1 .. c - 1 /\ 2 \in 1 .. ChunkCount
    <3>1. c \in Int
      <4>1. c = ChunkCount + 1 /\ ChunkCount \in Nat
        BY <1>1, <1>3, <2>1, PlacesFacts, PlanFacts
      <4> QED
        BY <4>1
    <3> QED
      BY <2>2, <3>1
  <2>5. IdOf(2) = "fact"
    BY <1>3, <1>5, <2>4, WhichChunk
  <2>6. PICK x : x = HeadBody(2, at[2])
    OBVIOUS
  <2>7. x \in bodies /\ x.id = "fact" /\ x.len = LenOf(2)
    BY <2>3, <2>4, <2>5, <2>6 DEF HeadBody
  <2>8. ASSUME NEW b \in bodies, b.id = "fact"
        PROVE  b = x
    <3>1. CASE b.after
      <4>1. PICK i \in 1 .. j : b = TailBody(tail[i])
        BY <1>2, <3>1 DEF InTail
      <4>2. i \in DOMAIN tail
        BY <1>1, <1>2, TailHanded
      <4>3. b.id \notin Walk!Owned
        BY <4>1, <4>2, TailIds DEF TailBody
      <4> QED
        BY <2>8, <4>3 DEF Walk!Owned
    <3>2. CASE ~b.after
      <4>1. PICK i \in 1 .. c - 1 : b = HeadBody(i, at[i])
        BY <2>3, <3>2
      <4>2. i \in 1 .. ChunkCount /\ IdOf(i) = "fact"
        BY <2>2, <2>8, <4>1 DEF HeadBody
      <4>3. i = 2
        BY <1>3, <4>2, WhichChunk
      <4> QED
        BY <2>6, <4>1, <4>3
    <3> QED
      BY <3>1, <3>2
  <2>9. (CHOOSE b \in bodies : b.id = "fact") = x
    BY <2>7, <2>8
  <2>10. FactRead = x.len
    BY <1>1, <1>5, <2>9 DEF FactRead
  <2> QED
    BY <1>5, <2>7, <2>10
<1> QED
  BY <1>4, <1>5

-----------------------------------------------------------------------------
(* The copy.                                                               *)

\* A sequence given by its values is one.
LEMMA FunctionToSeq ==
    ASSUME NEW E, NEW n \in Nat, NEW f \in [1 .. n -> E]
    PROVE  f \in Seq(E) /\ Len(f) = n
OBVIOUS

\* The fact body that was read is one the writer accepts.
LEMMA FactCopied ==
    ASSUME Inv, HeaderInv, WriterInv, NEW at, Laid(at), PastHeader(at), ~Torn,
           req'.fact = (IF fact THEN [kind |-> "Body", len |-> FactRead, count |-> 0]
                        ELSE [kind |-> "None", len |-> 0, count |-> 0]),
           req'.rf64 = req.rf64
    PROVE  /\ req'.fact \in Fact /\ req'.fact.kind \in {"Body", "None"}
           /\ req'.rf64 => req'.fact.kind = "None"
           /\ FactRead = (IF req'.fact.kind = "None" THEN Absent ELSE req'.fact.len)
           /\ ~FactTooLarge'
<1>1. stage = "done" /\ (fact <=> HasFact)
  BY DEF PastHeader
<1>2. req \in RequestType /\ Acceptable
  BY <1>1, DoneFacts
<1>3. FactRead = (IF HasFact THEN LenOf(2) ELSE Absent)
  BY FactReadIs
<1>4. CASE HasFact
  <2>1. ~req.rf64 /\ FactToWrite # "nothing"
    BY <1>4 DEF HasFact
  <2>2. OwnCount = 2
    BY <2>1 DEF OwnCount
  <2>3. LenOf(2) = (IF FactToWrite = "verbatim" THEN req.fact.len ELSE 4)
    BY <2>1, <2>2 DEF LenOf
  <2>4. ~FactTooLarge
    BY <1>1, <2>1 DEF HeaderInv, CheckedInv
  <2>5. req.fact.len \in Nat
    BY <1>2, RequestFacts DEF Fact
  <2>6. LenOf(2) \in Nat /\ LenOf(2) <= U32Max
    <3>1. FactToWrite = "verbatim" => req.fact.len <= U32Max
      BY <2>4, <2>5, LimitsAssumption DEF FactTooLarge
    <3> QED
      BY <2>3, <2>5, <3>1, LimitsAssumption
  <2>7. req'.fact = [kind |-> "Body", len |-> LenOf(2), count |-> 0]
    BY <1>1, <1>3, <1>4
  <2>8. /\ req'.fact.kind = "Body" /\ req'.fact.len = LenOf(2) /\ req'.fact.count = 0
        /\ req'.fact \in Fact
    BY <2>6, <2>7 DEF Fact
  <2>9. FactBody' = "verbatim"
    BY <2>8, Zenon DEF FactBody
  <2>10. FactToWrite' = "verbatim"
    BY <2>9 DEF FactToWrite
  <2>11. ~FactTooLarge'
    BY <2>6, <2>8, <2>10, LimitsAssumption DEF FactTooLarge
  <2> QED
    BY <1>3, <1>4, <2>1, <2>8, <2>11
<1>5. CASE ~HasFact
  <2>1. req'.fact = [kind |-> "None", len |-> 0, count |-> 0]
    BY <1>1, <1>5
  <2>2. req'.fact.kind = "None" /\ req'.fact \in Fact
    BY <2>1 DEF Fact
  <2>3. FactBody' = "nothing"
    BY <2>2, Zenon DEF FactBody
  <2>4. FactToWrite' = "nothing"
    BY <2>3 DEF FactToWrite
  <2>5. ~FactTooLarge'
    BY <2>4 DEF FactTooLarge
  <2> QED
    BY <1>3, <1>5, <2>2, <2>5
<1> QED
  BY <1>4, <1>5

\* The audio that was read, as long as the file has it.
LEMMA AudioRead ==
    ASSUME Inv, HeaderInv, WriterInv, FileKnown, NEW at, PastHeader(at)
    PROVE  LET n == Least(audio.len, SatSub(file.size, audio.at))
           IN  /\ n = Least(DataLen, FileEnd - header_len) /\ n \in Nat
               /\ ~req.seekable => n <= U32Max
<1>1. /\ stage = "done" /\ audio.at = header_len /\ audio.len = DataLen
      /\ file.size = FileEnd
  BY DEF PastHeader, FileKnown
<1>2. /\ header_len \in Nat /\ FileEnd \in Nat /\ FileEnd >= header_len /\ DataLen \in Nat
  <2>1. /\ recorded \in Nat /\ AudioEnd = header_len + recorded
        /\ FileEnd \in Nat /\ FileEnd >= AudioEnd
    BY <1>1, EndFacts DEF WriterInv
  <2>2. header_len \in Nat /\ DataLen \in Nat
    BY <1>1, DoneFacts, NumberFacts
  <2> QED
    BY <2>1, <2>2
<1>3. SatSub(file.size, audio.at) = FileEnd - header_len
  BY <1>1, <1>2 DEF SatSub
<1>4. ~req.seekable => DataLen = U32Max
  <2>1. SUFFICES ASSUME ~req.seekable PROVE DataLen = U32Max
    OBVIOUS
  <2>2. patched = << >>
    BY <1>1, <2>1 DEF WriterInv, PatchedInv
  <2>3. ~req.rf64
    BY <1>1, <2>1, DoneFacts
  <2>4. DOMAIN patched = {}
    BY <2>2
  <2> QED
    BY <2>3, <2>4 DEF DataLen
<1> QED
  BY <1>1, <1>2, <1>3, <1>4, LimitsAssumption DEF Least

\* A copy begins with a request the writer accepts.
LEMMA CopyBegins ==
    ASSUME Inv, RInv, Copy
    PROVE  Inv' /\ RInv'
<1>1. status = "ok" /\ ~Torn /\ Reopen /\ source' = WhatWasRead
  BY DEF Copy
<1>2. /\ stage' = "check" /\ written' = 0 /\ header_len' = 0
      /\ offsets' = [riff |-> Absent, data |-> Absent, count |-> Absent]
      /\ emitted' = 0 /\ fields' = {}
      /\ recorded' = 0 /\ tail' = << >> /\ patches' = << >>
      /\ patched' = << >> /\ promised' = 0 /\ life' = "writing"
      /\ status' = "unread"
      /\ ds64' = Walk!NoDs64 /\ fmt' = FALSE /\ fact' = FALSE
      /\ audio' = Walk!NoAudio /\ bodies' = {}
  BY <1>1 DEF Reopen
<1>3. PICK at \in Seq(Nat) : Laid(at) /\ PastHeader(at)
  BY <1>1 DEF RInv, ReadInv
<1>4. FileKnown
  BY <1>1 DEF RInv, ReadInv
<1>5. stage = "done" /\ Passed(at, Len(at))
  BY <1>3 DEF PastHeader
<1>6. PICK j \in 0 .. Len(tail) : InTail(j)
  BY <1>1, <1>3 DEF PastHeader
<1>7. /\ req \in RequestType /\ (req.rf64 => req.seekable) /\ Acceptable
      /\ req.fmt.extension <= U16Max
  BY <1>5, DoneFacts DEF RInv, HeaderInv, CheckedInv
<1>8. Handed(FALSE) = req.leading
  BY <1>3, <1>5, LeadingHanded DEF RInv
<1>9. req' = [req EXCEPT !.leading = req.leading,
                         !.fact = IF fact
                                  THEN [kind |-> "Body", len |-> FactRead, count |-> 0]
                                  ELSE [kind |-> "None", len |-> 0, count |-> 0]]
  BY <1>8 DEF Copy
<1>10. /\ req'.fmt = req.fmt /\ req'.leading = req.leading /\ req'.rf64 = req.rf64
       /\ req'.seekable = req.seekable
       /\ req'.fact = (IF fact THEN [kind |-> "Body", len |-> FactRead, count |-> 0]
                       ELSE [kind |-> "None", len |-> 0, count |-> 0])
  BY <1>7, <1>9 DEF RequestType
<1>11. /\ req'.fact \in Fact /\ req'.fact.kind \in {"Body", "None"}
       /\ req'.rf64 => req'.fact.kind = "None"
       /\ FactRead = (IF req'.fact.kind = "None" THEN Absent ELSE req'.fact.len)
       /\ ~FactTooLarge'
  BY <1>1, <1>3, <1>10, FactCopied DEF RInv
<1>12. req' \in RequestType
  BY <1>7, <1>9, <1>10, <1>11 DEF RequestType
<1>13. Fresh'
  BY <1>2, <1>7, <1>10, <1>12 DEF Fresh
<1>14. Inv'
  <2>1. Fresh' => Inv'
    BY FreshInv, PTL
  <2> QED
    BY <1>13, <2>1
<1>15. HeaderInv'
  BY <1>2 DEF HeaderInv, OffsetsInv, CheckedInv
<1>16. WriterInv'
  BY <1>2, BlankWriterNext DEF NothingBehind
<1>17. ReadInv'
  BY <1>2 DEF ReadInv
<1>18. /\ source'.fact = FactRead /\ source'.before = req.leading
       /\ source'.after = Handed(TRUE)
       /\ source'.len = Least(audio.len, SatSub(file.size, audio.at))
       /\ source' = [fact |-> FactRead, before |-> req.leading, after |-> Handed(TRUE),
                     len |-> Least(audio.len, SatSub(file.size, audio.at))]
  BY <1>1, <1>8 DEF WhatWasRead
<1>19. source'.len \in Nat /\ (~req.seekable => source'.len <= U32Max)
  BY <1>3, <1>4, <1>18, AudioRead DEF RInv
<1>20. /\ Handed(TRUE) = [i \in 1 .. j |-> [id |-> tail[i].id, size |-> tail[i].size]]
       /\ j \in Nat /\ 1 .. j \subseteq DOMAIN tail
  BY <1>5, <1>6, TailHanded DEF RInv
<1>21. PICK rest : rest = source'.after
  OBVIOUS
<1>22. rest = [i \in 1 .. j |-> [id |-> tail[i].id, size |-> tail[i].size]]
  BY <1>18, <1>20, <1>21, Zenon
<1>23. DOMAIN rest = 1 .. j /\ rest \in Seq([id : STRING, size : Nat])
  <2>1. \A i \in 1 .. j : tail[i].id \in STRING /\ tail[i].size \in Nat
    BY <1>5, <1>20, EndFacts DEF RInv, WriterInv
  <2>2. rest \in [1 .. j -> [id : STRING, size : Nat]]
    BY <1>22, <2>1
  <2>3. j \in Nat
    BY <1>20
  <2>4. rest \in Seq([id : STRING, size : Nat])
    BY <2>2, <2>3, FunctionToSeq
  <2>5. DOMAIN rest = 1 .. j
    BY <2>2
  <2> QED
    BY <2>4, <2>5
<1>24. \A i \in DOMAIN rest : rest[i].id # Walk!NoId
  <2>1. \A i \in 1 .. j : rest[i].id = tail[i].id
    BY <1>22
  <2>2. \A i \in 1 .. j : tail[i].id # Walk!NoId
    BY <1>20, TailIds DEF RInv
  <2> QED
    BY <1>23, <2>1, <2>2
<1>25. ~req.seekable => rest = << >>
  <2>1. SUFFICES ASSUME ~req.seekable PROVE rest = << >>
    OBVIOUS
  <2>2. patched = << >>
    BY <1>5, <2>1 DEF RInv, WriterInv, PatchedInv
  <2>3. DOMAIN patched = {} /\ ~req.rf64
    BY <1>7, <2>1, <2>2
  <2>4. j = 0
    BY <1>6, <2>3 DEF InTail
  <2>5. DOMAIN rest = {}
    BY <1>23, <2>4
  <2> QED
    BY <1>23, <2>5
<1>26. Acceptable'
  BY <1>7, <1>10 DEF Acceptable
<1>27. Len(source'.after) \in Nat /\ Len(tail') = 0 /\ DOMAIN tail' = {}
  BY <1>2, <1>21, <1>23
<1>28. CopyInv'
  <2>1. /\ Acceptable' /\ req'.fmt.extension <= U16Max /\ ~FactTooLarge'
        /\ stage' # "failed"
        /\ source' = [fact |-> source'.fact, before |-> req'.leading,
                      after |-> source'.after, len |-> source'.len]
        /\ req'.fact.kind \in {"Body", "None"}
        /\ req'.rf64 => req'.fact.kind = "None"
        /\ source'.fact = (IF req'.fact.kind = "None" THEN Absent ELSE req'.fact.len)
    BY <1>2, <1>7, <1>10, <1>11, <1>18, <1>26
  <2>2. /\ ~req'.seekable => source'.after = << >> /\ source'.len <= U32Max
        /\ recorded' <= source'.len /\ Len(tail') <= Len(source'.after)
        /\ patches' = << >> /\ life' = "writing" /\ tail' = << >>
    BY <1>2, <1>10, <1>19, <1>21, <1>25, <1>27
  <2> QED
    BY <1>19, <1>21, <1>23, <1>24, <1>27, <2>1, <2>2 DEF CopyInv
<1> QED
  BY <1>14, <1>15, <1>16, <1>17, <1>28 DEF RInv

\* write_header does not fail for such a request.
LEMMA HeaderOfCopy ==
    ASSUME Next
    PROVE  /\ req' = req
           /\ Acceptable /\ req.fmt.extension <= U16Max /\ ~FactTooLarge => stage' # "failed"
BY DEF Next, Check, WriteRiffWave, WriteDs64, WriteFmt, WriteFact, WriteLeading,
       WriteDataHeader, Fail

\* What has to be shown of a step of the copy.
LEMMA CopyOnward ==
    ASSUME CopyInv, source' = source, req' = req,
           Copying =>
                /\ stage' # "failed"
                /\ recorded' <= source.len
                /\ Len(tail') <= Len(source.after)
                /\ \A i \in DOMAIN tail' : SameChunk(tail'[i], source.after[i])
                /\ tail' # << >> => recorded' = source.len
                /\ life' \in {"writing", "finalized", "released"}
                /\ life' = "released" => ~req.seekable
                /\ patches' # << >> \/ life' # "writing" =>
                        recorded' = source.len /\ Len(tail') = Len(source.after)
    PROVE  CopyInv'
<1>1. Acceptable' <=> Acceptable
  BY SamePlan
<1>2. FactTooLarge' <=> FactTooLarge
  BY SamePlan
<1>3. Copying' <=> Copying
  BY DEF Copying
<1>4. CASE ~Copying
  BY <1>3, <1>4 DEF CopyInv
<1>5. CASE Copying
  BY <1>1, <1>2, <1>3, <1>5 DEF CopyInv
<1> QED
  BY <1>4, <1>5

\* Steps that leave what was written and the state of the writer.
LEMMA CopyStill ==
    ASSUME CopyInv, UNCHANGED <<req, source, recorded, tail, patches, life>>,
           Copying => stage' # "failed"
    PROVE  CopyInv'
BY CopyOnward DEF CopyInv

\* The calls of a caller who does what he likes keep the invariant.
LEMMA FreeCallerKeeps ==
    ASSUME Inv, RInv, ~Copying, FreeCaller
    PROVE  UNCHANGED vars /\ WriterInv' /\ ReadInv' /\ CopyInv'
<1>1. WriterInv /\ HeaderInv /\ ReadInv /\ CopyInv
  BY DEF RInv
<1>2. ASSUME UNCHANGED source PROVE CopyInv'
  BY <1>2 DEF CopyInv, Copying
<1>3. ASSUME NEW n \in 1 .. MaxAudio - recorded, Record(n)
      PROVE  UNCHANGED vars /\ WriterInv' /\ ReadInv' /\ CopyInv'
  <2>1. n \in Nat
    BY <1>1, RoundTripAssumption DEF WriterInv, AudioInv
  <2>2. UNCHANGED vars /\ UNCHANGED reading /\ UNCHANGED source /\ life = "writing"
    BY <1>3 DEF Record, Writing
  <2>3. WriterInv'
    BY <1>1, <1>3, <2>1, RecordKeeps
  <2> QED
    BY <1>1, <1>2, <2>2, <2>3, UnreadStill
<1>4. ASSUME NEW c \in Attachable, Attach(c)
      PROVE  UNCHANGED vars /\ WriterInv' /\ ReadInv' /\ CopyInv'
  <2>1. c.id \in STRING \ {Walk!NoId} /\ c.size \in Nat
    BY RoundTripAssumption
  <2>2. UNCHANGED vars /\ UNCHANGED reading /\ UNCHANGED source /\ life = "writing"
    BY <1>4 DEF Attach, Writing
  <2>3. WriterInv'
    BY <1>1, <1>4, <2>1, AttachKeeps
  <2> QED
    BY <1>1, <1>2, <2>2, <2>3, UnreadStill
<1>5. ASSUME NEW last, Refresh(last)
      PROVE  UNCHANGED vars /\ WriterInv' /\ ReadInv' /\ CopyInv'
  <2>1. UNCHANGED vars /\ UNCHANGED reading /\ UNCHANGED source /\ life = "writing"
    BY <1>5 DEF Refresh, Writing
  <2>2. WriterInv'
    BY <1>1, <1>5, RefreshKeeps
  <2> QED
    BY <1>1, <1>2, <2>1, <2>2, UnreadStill
<1>6. ASSUME Release
      PROVE  UNCHANGED vars /\ WriterInv' /\ ReadInv' /\ CopyInv'
  <2>1. /\ UNCHANGED vars /\ UNCHANGED reading /\ UNCHANGED source /\ life = "writing"
        /\ UNCHANGED <<recorded, tail, patches, patched, promised>>
        /\ life' = "released" /\ patches = << >> /\ stage = "done"
    BY <1>6 DEF Release, Writing
  <2>2. WriterInv'
    BY <1>1, <2>1, WriterStill
  <2> QED
    BY <1>1, <1>2, <2>1, <2>2, UnreadStill
<1>7. ASSUME Open
      PROVE  UNCHANGED vars /\ WriterInv' /\ ReadInv' /\ CopyInv'
  <2>1. /\ UNCHANGED vars /\ UNCHANGED source
        /\ UNCHANGED <<recorded, tail, patches, patched, promised>>
        /\ life' = (IF life = "writing" THEN "killed" ELSE life)
    BY <1>7 DEF Open
  <2>2. WriterInv'
    BY <1>1, <2>1, WriterStill
  <2>3. ReadInv'
    BY <1>1, <1>7, OpenKeeps
  <2> QED
    BY <1>2, <2>1, <2>2, <2>3
<1> QED
  BY <1>3, <1>4, <1>5, <1>6, <1>7 DEF FreeCaller

\* So do those of a caller who copies a file.
LEMMA CopyingCallerKeeps ==
    ASSUME Inv, RInv, Copying, CopyingCaller
    PROVE  UNCHANGED vars /\ WriterInv' /\ ReadInv' /\ CopyInv'
<1>1. WriterInv /\ HeaderInv /\ ReadInv /\ CopyInv
  BY DEF RInv
<1>2. /\ source.after \in Seq([id : STRING, size : Nat])
      /\ \A i \in DOMAIN source.after : source.after[i].id # Walk!NoId
      /\ source.len \in Nat /\ stage # "failed"
      /\ recorded <= source.len /\ Len(tail) <= Len(source.after)
      /\ \A i \in DOMAIN tail : SameChunk(tail[i], source.after[i])
      /\ tail # << >> => recorded = source.len
      /\ life \in {"writing", "finalized", "released"}
      /\ life = "released" => ~req.seekable
      /\ patches # << >> \/ life # "writing" =>
            recorded = source.len /\ Len(tail) = Len(source.after)
  BY <1>1 DEF CopyInv
<1>3. recorded \in Nat /\ tail \in Seq([id : STRING, size : Nat, at : Nat])
  BY <1>1 DEF WriterInv, AudioInv, TailInv
<1>4. UNCHANGED vars => req' = req /\ stage' = stage
  BY DEF vars
<1>5. ASSUME recorded < source.len, Record(source.len - recorded)
      PROVE  UNCHANGED vars /\ WriterInv' /\ ReadInv' /\ CopyInv'
  <2>1. source.len - recorded \in Nat /\ recorded + (source.len - recorded) = source.len
    <3>1. source.len \in Nat /\ recorded \in Nat
      BY <1>2, <1>3
    <3> QED
      BY <1>5, <3>1
  <2>2. /\ UNCHANGED vars /\ UNCHANGED reading /\ UNCHANGED source /\ life = "writing"
        /\ recorded' = source.len /\ UNCHANGED <<tail, patches, life>>
        /\ patches = << >> /\ tail = << >>
    BY <1>5, <2>1 DEF Record, Writing
  <2>3. WriterInv'
    BY <1>1, <1>5, <2>1, RecordKeeps
  <2>4. CopyInv'
    BY <1>1, <1>2, <1>4, <2>2, CopyOnward
  <2> QED
    BY <1>1, <2>2, <2>3, <2>4, UnreadStill
<1>6. ASSUME recorded = source.len, Len(tail) < Len(source.after),
             Attach(source.after[Len(tail) + 1])
      PROVE  UNCHANGED vars /\ WriterInv' /\ ReadInv' /\ CopyInv'
  <2>1. PICK k, n : k = Len(tail) /\ n = Len(source.after)
    OBVIOUS
  <2>2. k \in Nat /\ n \in Nat /\ k < n /\ DOMAIN source.after = 1 .. n /\ DOMAIN tail = 1 .. k
    BY <1>2, <1>3, <1>6, <2>1
  <2>3. PICK c : c = source.after[k + 1]
    OBVIOUS
  <2>4. c \in [id : STRING, size : Nat] /\ c.id # Walk!NoId
    <3>1. k + 1 \in 1 .. n /\ k + 1 \in DOMAIN source.after
      BY <2>2
    <3>2. c \in [id : STRING, size : Nat]
      BY <1>2, <2>1, <2>3, <3>1, ElementOfSeq
    <3> QED
      BY <1>2, <2>3, <3>1, <3>2
  <2>5. c.id \in STRING \ {Walk!NoId} /\ c.size \in Nat /\ Attach(c)
    BY <1>6, <2>1, <2>3, <2>4
  <2>6. /\ WriterInv'
        /\ Len(tail') = k + 1
        /\ \A i \in DOMAIN tail : tail'[i] = tail[i]
        /\ SameChunk(tail'[Len(tail')], c)
    BY <1>1, <2>1, <2>5, AttachKeeps
  <2>7. /\ UNCHANGED vars /\ UNCHANGED reading /\ UNCHANGED source /\ life = "writing"
        /\ recorded' = recorded /\ UNCHANGED <<patches, life>>
        /\ patches = << >>
    BY <2>5 DEF Attach, Writing
  <2>8. DOMAIN tail' = 1 .. k + 1
    <3>1. tail' \in Seq([id : STRING, size : Nat, at : Nat])
      BY <2>6 DEF WriterInv, TailInv
    <3> QED
      BY <2>6, <3>1
  <2>9. \A i \in DOMAIN tail' : SameChunk(tail'[i], source.after[i])
    <3> TAKE i \in DOMAIN tail'
    <3>1. CASE i = k + 1
      BY <2>3, <2>6, <3>1
    <3>2. CASE i # k + 1
      <4>1. i \in DOMAIN tail
        BY <2>2, <2>8, <3>2
      <4> QED
        BY <1>2, <2>6, <4>1
    <3> QED
      BY <3>1, <3>2
  <2>10. Len(tail') <= Len(source.after)
    BY <2>1, <2>2, <2>6
  <2>11. recorded' = source.len /\ recorded' <= source.len
    BY <1>2, <1>6, <2>7
  <2>12. life' = "writing" /\ patches' = << >>
    BY <2>7
  <2>13. CopyInv'
    BY <1>1, <1>2, <1>4, <2>7, <2>9, <2>10, <2>11, <2>12, CopyOnward
  <2> QED
    BY <1>1, <2>6, <2>7, <2>13, UnreadStill
<1>7. ASSUME recorded = source.len, Len(tail) = Len(source.after), Refresh(TRUE)
      PROVE  UNCHANGED vars /\ WriterInv' /\ ReadInv' /\ CopyInv'
  <2>1. /\ UNCHANGED vars /\ UNCHANGED reading /\ UNCHANGED source /\ life = "writing"
        /\ UNCHANGED <<recorded, tail, life>>
    BY <1>7 DEF Refresh, Writing
  <2>2. WriterInv'
    BY <1>1, <1>7, RefreshKeeps
  <2>3. CopyInv'
    BY <1>1, <1>2, <1>4, <1>7, <2>1, CopyOnward
  <2> QED
    BY <1>1, <2>1, <2>2, <2>3, UnreadStill
<1>8. ASSUME recorded = source.len, Len(tail) = Len(source.after), ~req.seekable, Release
      PROVE  UNCHANGED vars /\ WriterInv' /\ ReadInv' /\ CopyInv'
  <2>1. /\ UNCHANGED vars /\ UNCHANGED reading /\ UNCHANGED source /\ life = "writing"
        /\ UNCHANGED <<recorded, tail, patches, patched, promised>>
        /\ life' = "released" /\ patches = << >> /\ stage = "done"
    BY <1>8 DEF Release, Writing
  <2>2. WriterInv'
    BY <1>1, <2>1, WriterStill
  <2>3. CopyInv'
    BY <1>1, <1>2, <1>4, <1>8, <2>1, CopyOnward
  <2> QED
    BY <1>1, <2>1, <2>2, <2>3, UnreadStill
<1>9. ASSUME Closed, Open
      PROVE  UNCHANGED vars /\ WriterInv' /\ ReadInv' /\ CopyInv'
  <2>1. /\ UNCHANGED vars /\ UNCHANGED source
        /\ UNCHANGED <<recorded, tail, patches, patched, promised>>
        /\ life' = life
    BY <1>9 DEF Open, Closed
  <2>2. WriterInv'
    BY <1>1, <2>1, WriterStill
  <2>3. ReadInv'
    BY <1>1, <1>9, OpenKeeps
  <2>4. CopyInv'
    BY <1>1, <1>2, <1>4, <2>1, CopyStill
  <2> QED
    BY <2>1, <2>2, <2>3, <2>4
<1> QED
  BY <1>5, <1>6, <1>7, <1>8, <1>9 DEF CopyingCaller

\* Every step keeps all of it.
LEMMA RoundTripStep ==
    ASSUME Inv, RInv, [RoundTripNext]_allvars
    PROVE  Inv' /\ RInv'
<1>1. WriterInv /\ HeaderInv /\ ReadInv /\ CopyInv
  BY DEF RInv
<1>2. UNCHANGED vars => Inv' /\ HeaderInv' /\ req' = req /\ stage' = stage
  BY <1>1, NextInv, HeaderStill DEF vars
<1>3. CASE WriteHeader
  <2>1. Next /\ UNCHANGED writing /\ UNCHANGED reading /\ life = "writing"
    BY <1>3 DEF WriteHeader
  <2>2. Inv' /\ HeaderInv'
    BY <1>1, <2>1, NextInv, HeaderNext
  <2>3. WriterInv' /\ ReadInv'
    BY <1>1, <1>3, <2>1, WriteHeaderKeeps, UnreadStill
  <2>4. UNCHANGED <<req, source, recorded, tail, patches, life>>
    BY <2>1, HeaderOfCopy DEF writing
  <2>5. Copying => stage' # "failed"
    BY <1>1, <2>1, HeaderOfCopy DEF CopyInv
  <2>6. CopyInv'
    BY <1>1, <2>4, <2>5, CopyStill
  <2> QED
    BY <2>2, <2>3, <2>6 DEF RInv
<1>4. CASE ~Copying /\ FreeCaller
  BY <1>2, <1>4, FreeCallerKeeps DEF RInv
<1>5. CASE Copying /\ CopyingCaller
  BY <1>2, <1>5, CopyingCallerKeeps DEF RInv
<1>6. CASE WritePatch
  <2>1. /\ UNCHANGED vars /\ UNCHANGED reading /\ UNCHANGED <<recorded, tail, source>>
        /\ life = "writing" /\ life' \in {"writing", "finalized"} /\ patches # << >>
    BY <1>6 DEF WritePatch
  <2>2. WriterInv'
    BY <1>1, <1>6, WritePatchKeeps
  <2>3. ReadInv'
    BY <1>1, <2>1, UnreadStill
  <2>4. req' = req /\ stage' = stage
    BY <1>2, <2>1
  <2>5. CopyInv'
    BY <1>1, <2>1, <2>4, CopyOnward DEF CopyInv
  <2> QED
    BY <1>2, <2>1, <2>2, <2>3, <2>5 DEF RInv
<1>7. CASE Read
  <2>1. /\ UNCHANGED vars /\ UNCHANGED <<recorded, tail, patches, patched, promised, life>>
        /\ UNCHANGED source
    BY <1>7 DEF Read, writing
  <2>2. WriterInv'
    BY <1>1, <2>1, WriterStill
  <2>3. ReadInv'
    BY <1>1, <1>7, ReadKeeps
  <2>4. CopyInv'
    BY <1>1, <1>2, <2>1, CopyStill DEF CopyInv
  <2> QED
    BY <1>2, <2>1, <2>2, <2>3, <2>4 DEF RInv
<1>8. CASE Copy
  BY <1>8, CopyBegins
<1>9. CASE UNCHANGED allvars
  <2>1. /\ UNCHANGED vars /\ UNCHANGED writing /\ UNCHANGED reading
        /\ UNCHANGED <<recorded, tail, patches, patched, promised, life>>
        /\ UNCHANGED source
    BY <1>9 DEF allvars, writing
  <2>2. WriterInv'
    BY <1>1, <2>1, WriterStill
  <2>3. ReadInv'
    BY <1>1, <2>1, ReadStill
  <2>4. CopyInv'
    BY <1>1, <1>2, <2>1, CopyStill DEF CopyInv
  <2> QED
    BY <1>2, <2>1, <2>2, <2>3, <2>4 DEF RInv
<1> QED
  BY <1>3, <1>4, <1>5, <1>6, <1>7, <1>8, <1>9 DEF RoundTripNext

\* The invariant holds at the start.
LEMMA RoundTripStart == RoundTripInit => Inv /\ RInv
<1> SUFFICES ASSUME RoundTripInit PROVE Inv /\ RInv
  OBVIOUS
<1>1. Init /\ Inv
  BY InitInv DEF RoundTripInit
<1>2. HeaderInv
  BY <1>1 DEF Init, HeaderInv, OffsetsInv, CheckedInv
<1>3. WriterInv
  BY BlankWriter DEF RoundTripInit, NothingBehind
<1>4. ReadInv
  BY DEF RoundTripInit, ReadInv
<1>5. CopyInv
  BY DEF RoundTripInit, CopyInv, Copying
<1> QED
  BY <1>1, <1>2, <1>3, <1>4, <1>5 DEF RInv

\* And so it always does.
LEMMA RoundTripInvariance == RoundTripSpec => [](Inv /\ RInv)
BY RoundTripStart, RoundTripStep, PTL DEF RoundTripSpec

-----------------------------------------------------------------------------
(* What follows.                                                           *)

\* A whole header that was read to the end was walked past.
LEMMA DoneReading ==
    ASSUME Inv, RInv, Done, stage = "done"
    PROVE  /\ status = "ok" /\ FileKnown
           /\ \E at \in Seq(Nat) : Laid(at) /\ PastHeader(at)
BY DEF RInv, ReadInv, Done

\* The length of the audio is known where a size is in the file.
LEMMA LengthKnown ==
    ASSUME Inv, RInv, NEW at, Laid(at), PastHeader(at)
    PROVE  Walk!LengthIsUnknown <=> ~req.rf64 /\ offsets.data \notin DOMAIN patched
<1>1. /\ stage = "done" /\ audio.len = DataLen /\ Passed(at, Len(at))
  BY DEF PastHeader
<1>2. HeaderInv /\ WriterInv
  BY DEF RInv
<1>3. /\ req.rf64 => ds64 = Ds64Now
      /\ ~req.rf64 => ds64 = Walk!NoDs64
  BY <1>1, <1>2, AllPassed
<1>4. CASE req.rf64
  BY <1>3, <1>4 DEF Walk!LengthIsUnknown, Ds64Now
<1>5. CASE ~req.rf64 /\ offsets.data \notin DOMAIN patched
  <2>1. DataLen = U32Max /\ ~ds64.found
    BY <1>3, <1>5 DEF DataLen, Walk!NoDs64
  <2> QED
    BY <1>1, <1>5, <2>1 DEF Walk!LengthIsUnknown
<1>6. CASE ~req.rf64 /\ offsets.data \in DOMAIN patched
  BY <1>1, <1>2, <1>6, SizedAudio DEF Walk!LengthIsUnknown
<1> QED
  BY <1>4, <1>5, <1>6

\* The counts in the file are numbers the header has a place for.
LEMMA CountsAreNumbers ==
    ASSUME NEW at, Laid(at), NEW f \in Counts
    PROVE  f \in Numbers
<1>1. f \in fields /\ f.name \in {"sampleCount", "dwSampleLength"}
  BY DEF Counts
<1>2. Accounted(at, f)
  BY <1>1 DEF Laid
<1>3. RiffField.name = "size" /\ DataField.name = "size" /\ \A i, s : SizeOf(i, s).name = "size"
  BY HeaderSizes
<1> QED
  BY <1>1, <1>2, <1>3 DEF Accounted

\* What is in the fields that hold a count, in a file that was finished.
LEMMA CountsOfFinished ==
    ASSUME Inv, HeaderInv, WriterInv, stage = "done",
           req.seekable => life = "finalized", NEW f \in Numbers,
           f.name \in {"sampleCount", "dwSampleLength"}
    PROVE  /\ f.value = "unset" => NumberIn(f) = recorded
           /\ ~req.fmt.modelled => NumberIn(f) \in {0, req.fact.count}
<1>1. req \in RequestType /\ (req.rf64 => req.seekable) /\ req.seekable \in BOOLEAN
  BY DoneFacts, RequestFacts
<1>2. DOMAIN patched \subseteq Spots
  BY NumberFacts
<1>3. req.fact.kind \in {"Auto", "None", "Samples", "Body"}
  BY <1>1, RequestFacts DEF Fact
<1>4. CASE req.rf64
  <2>1. offsets.riff = 20 /\ offsets.data = 28 /\ offsets.count = 36 /\ life = "finalized"
    BY <1>1, <1>4, PlacesFacts
  <2>2. f = Field("ds64", "sampleCount", 36, 8, "zero", 0)
    BY <1>4 DEF Numbers, Field
  <2>3. f.value = "zero" /\ f.at = 36 /\ f.number = 0
    BY <2>2 DEF Field
  <2>4. ~req.fmt.modelled => ~Counting
    <3>1. SUFFICES ASSUME ~req.fmt.modelled PROVE Ds64SampleCount # "counted"
      BY <1>4 DEF Counting
    <3>2. CASE req.fact.kind = "Auto"
      BY <3>1, <3>2, Zenon DEF Ds64SampleCount
    <3>3. CASE req.fact.kind = "None"
      BY <3>3, Zenon DEF Ds64SampleCount
    <3>4. CASE req.fact.kind = "Samples"
      BY <3>4, Zenon DEF Ds64SampleCount
    <3>5. CASE req.fact.kind = "Body"
      BY <3>5, Zenon DEF Ds64SampleCount
    <3> QED
      BY <1>3, <3>2, <3>3, <3>4, <3>5
  <2>5. CASE HasFixedCount /\ ~Counting
    <3>1. 36 \in DOMAIN patched /\ patched[36] = req.fact.count
      BY <2>1, <2>5, FinalizedFacts
    <3> QED
      BY <2>3, <3>1 DEF NumberIn
  <2>6. CASE ~HasFixedCount /\ ~Counting
    <3>1. 36 \notin DOMAIN patched
      BY <1>2, <2>1, <2>6 DEF Spots
    <3> QED
      BY <2>3, <3>1 DEF NumberIn
  <2> QED
    BY <2>3, <2>4, <2>5, <2>6
<1>5. CASE ~req.rf64 /\ FactToWrite = "counted"
  <2>1. FactBody = "counted" /\ req.seekable
    BY <1>5 DEF FactToWrite
  <2>2. req.fmt.modelled
    <3>1. req.fact.kind = "Auto"
      <4>1. CASE req.fact.kind = "None"
        <5>1. FactBody = "nothing"
          BY <4>1, Zenon DEF FactBody
        <5> QED
          BY <2>1, <5>1
      <4>2. CASE req.fact.kind = "Samples"
        <5>1. FactBody = "fixed"
          BY <4>2, Zenon DEF FactBody
        <5> QED
          BY <2>1, <5>1
      <4>3. CASE req.fact.kind = "Body"
        <5>1. FactBody = "verbatim"
          BY <4>3, Zenon DEF FactBody
        <5> QED
          BY <2>1, <5>1
      <4> QED
        BY <1>3, <4>1, <4>2, <4>3
    <3>2. ~req.fmt.modelled => FactBody = "nothing"
      BY <3>1, Zenon DEF FactBody
    <3> QED
      BY <2>1, <3>2
  <2>3. HasFact
    BY <1>5 DEF HasFact
  <2>4. offsets.count = CountAt /\ CountAt \in Nat
    BY <1>5, <2>3, PlacesFacts
  <2>5. Counting
    BY <1>5, <2>4 DEF Counting, Absent
  <2>6. CountAt \in DOMAIN patched /\ patched[CountAt] = recorded
    BY <2>1, <2>4, <2>5, FinalizedFacts
  <2>7. f = Field("fact", "dwSampleLength", CountAt, 4, "unset", U32Max)
    BY <1>5 DEF Numbers
  <2>8. f.at = CountAt
    BY <2>7 DEF Field
  <2> QED
    BY <2>2, <2>6, <2>8 DEF NumberIn
<1>6. CASE ~req.rf64 /\ FactToWrite = "fixed"
  <2>1. f = Field("fact", "dwSampleLength", CountAt, 4, "fixed", req.fact.count)
    BY <1>6 DEF Numbers
  <2>2. f.at = CountAt /\ f.value = "fixed" /\ f.number = req.fact.count
    BY <2>1 DEF Field
  <2>3. HasFact
    BY <1>6 DEF HasFact
  <2>4. /\ CountAt \in Nat /\ CountAt >= 44 /\ CountAt <= header_len - 8
        /\ offsets.riff = 4 /\ offsets.data = header_len - 4 /\ offsets.count = Absent
        /\ header_len \in Nat
    BY <1>6, <2>3, PlacesFacts, DoneFacts
  <2>5. ~Counting /\ ~HasFixedCount
    BY <1>6, <2>4 DEF Counting, HasFixedCount
  <2>6. Spots = {4, header_len - 4}
    BY <2>4, <2>5 DEF Spots
  <2>7. CountAt \notin DOMAIN patched
    BY <1>2, <2>4, <2>6
  <2> QED
    BY <2>2, <2>7 DEF NumberIn
<1>7. CASE ~req.rf64 /\ FactToWrite \notin {"counted", "fixed"}
  BY <1>7 DEF Numbers
<1> QED
  BY <1>4, <1>5, <1>6, <1>7

\* A file that was finished is read as it was written, whatever its format, its
\* leading chunks, its audio and the chunks attached to it: the audio, every
\* chunk on its side, the counts (write_header, patch_sizes, read_wav_header).
THEOREM FinishedReadBack == RoundTripSpec => []FinishedFilesReadBack
<1>1. ASSUME Inv, RInv PROVE FinishedFilesReadBack
  <2> SUFFICES ASSUME Done, stage = "done", Closed, req.seekable \/ tail = << >>
               PROVE  /\ status = "ok"
                      /\ audio.at = header_len
                      /\ IF req.seekable THEN ~Walk!LengthIsUnknown /\ audio.len = recorded
                         ELSE Walk!LengthIsUnknown
                      /\ Handed(FALSE) = req.leading
                      /\ Handed(TRUE) = [i \in DOMAIN tail |->
                                            [id |-> tail[i].id, size |-> tail[i].size]]
                      /\ \A f \in Counts :
                            /\ f.value = "unset" => NumberIn(f) = recorded
                            /\ ~req.fmt.modelled => NumberIn(f) \in {0, req.fact.count}
    BY DEF FinishedFilesReadBack
  <2>1. HeaderInv /\ WriterInv
    BY <1>1 DEF RInv
  <2>2. status = "ok" /\ FileKnown
    BY <1>1, DoneReading
  <2>3. PICK at \in Seq(Nat) : Laid(at) /\ PastHeader(at)
    BY <1>1, DoneReading
  <2>4. /\ life # "killed" /\ ~Torn
        /\ req.seekable => life = "finalized"
    BY DEF Closed, Torn
  <2>5. audio.at = header_len /\ audio.len = DataLen /\ Passed(at, Len(at))
    BY <2>3 DEF PastHeader
  <2>6. PICK j \in 0 .. Len(tail) : InTail(j)
    BY <2>3, <2>4 DEF PastHeader
  <2>7. /\ req \in RequestType /\ (req.rf64 => req.seekable)
    BY <1>1, <2>1, DoneFacts
  <2>8. ASSUME req.seekable PROVE ~Walk!LengthIsUnknown /\ audio.len = recorded
    <3>1. offsets.data \in DOMAIN patched /\ DataLen = recorded
      BY <1>1, <2>1, <2>4, <2>8, FinalizedFacts
    <3>2. ~Walk!LengthIsUnknown
      BY <1>1, <2>3, <3>1, LengthKnown
    <3> QED
      BY <2>5, <3>1, <3>2
  <2>9. ASSUME ~req.seekable PROVE Walk!LengthIsUnknown
    <3>1. patched = << >> /\ ~req.rf64
      BY <2>1, <2>7, <2>9 DEF WriterInv, PatchedInv
    <3>2. DOMAIN patched = {}
      BY <3>1
    <3>3. Walk!LengthIsUnknown
      BY <1>1, <2>3, <3>1, <3>2, LengthKnown
    <3> QED
      BY <3>3
  <2>10. j = Len(tail)
    <3>1. CASE req.seekable
      <4>1. offsets.data \in DOMAIN patched
        BY <1>1, <2>1, <2>4, <3>1, FinalizedFacts
      <4> QED
        BY <2>2, <2>4, <2>6, <3>1, <4>1 DEF InTail
    <3>2. CASE ~req.seekable
      <4>1. Len(tail) = 0
        BY <3>2
      <4> QED
        BY <4>1
    <3> QED
      BY <3>1, <3>2
  <2>11. Handed(FALSE) = req.leading
    BY <1>1, <2>1, <2>3, <2>5, LeadingHanded
  <2>12. Handed(TRUE) = [i \in DOMAIN tail |-> [id |-> tail[i].id, size |-> tail[i].size]]
    <3>1. Handed(TRUE) = [i \in 1 .. j |-> [id |-> tail[i].id, size |-> tail[i].size]]
      BY <1>1, <2>1, <2>6, TailHanded
    <3>2. DOMAIN tail = 1 .. Len(tail)
      BY <1>1, <2>1, EndFacts DEF WriterInv
    <3>3. DOMAIN tail = 1 .. j
      BY <2>10, <3>2
    <3> QED
      BY <3>1, <3>3, Zenon
  <2>13. \A f \in Counts : /\ f.value = "unset" => NumberIn(f) = recorded
                           /\ ~req.fmt.modelled => NumberIn(f) \in {0, req.fact.count}
    <3> TAKE f \in Counts
    <3>1. f \in Numbers
      BY <2>3, CountsAreNumbers
    <3>2. f.name \in {"sampleCount", "dwSampleLength"}
      BY DEF Counts
    <3> QED
      BY <1>1, <2>1, <2>4, <3>1, <3>2, CountsOfFinished
  <2> QED
    BY <2>2, <2>5, <2>8, <2>9, <2>11, <2>12, <2>13
<1> QED
  BY <1>1, RoundTripInvariance, PTL

\* What a kill leaves behind is a file once the header is whole, and none
\* before: the audio where it is, as far as the last refresh said, and to the
\* end of a RIFF file that had none (update_header, read_wav_header).
THEOREM KilledStayReadable == RoundTripSpec => []KilledFilesStayReadable
<1>1. ASSUME Inv, RInv PROVE KilledFilesStayReadable
  <2>1. ASSUME Done, stage # "done"
        PROVE  status = "error"
    BY <1>1, <2>1 DEF RInv, ReadInv, PastHeader, Done
  <2>2. ASSUME Done, stage = "done", life = "killed"
        PROVE  /\ status = "ok"
               /\ audio.at = header_len
               /\ Handed(FALSE) = req.leading
               /\ promised <= audio.len
               /\ audio.len <= recorded \/ Walk!LengthIsUnknown
               /\ ~req.rf64 /\ offsets.data \notin DOMAIN patched => Walk!LengthIsUnknown
    <3>1. HeaderInv /\ WriterInv
      BY <1>1 DEF RInv
    <3>2. PICK at \in Seq(Nat) : Laid(at) /\ PastHeader(at)
      BY <1>1, <2>2, DoneReading
    <3>3. audio.at = header_len /\ audio.len = DataLen /\ Passed(at, Len(at))
      BY <3>2 DEF PastHeader
    <3>4. Handed(FALSE) = req.leading
      BY <1>1, <2>2, <3>1, <3>2, <3>3, LeadingHanded
    <3>5. Walk!LengthIsUnknown <=> ~req.rf64 /\ offsets.data \notin DOMAIN patched
      BY <1>1, <3>2, LengthKnown
    <3>6. promised \in Nat /\ recorded \in Nat /\ DataLen \in Nat
      BY <1>1, <2>2, <3>1, NumberFacts DEF WriterInv, PatchedInv, AudioInv
    <3>7. CASE offsets.data \in DOMAIN patched
      <4>1. DataLen \in promised .. recorded
        BY <1>1, <2>2, <3>1, <3>7, NumberFacts
      <4>2. promised <= DataLen /\ DataLen <= recorded
        BY <3>6, <4>1
      <4> QED
        BY <1>1, <2>2, <3>3, <3>4, <3>7, <4>2, DoneReading
    <3>8. CASE offsets.data \notin DOMAIN patched
      <4>1. promised = 0
        BY <2>2, <3>1, <3>8 DEF WriterInv, PatchedInv
      <4>2. promised <= DataLen
        BY <3>6, <4>1
      <4>3. req.rf64 => DataLen <= recorded
        BY <3>6, <3>8 DEF DataLen
      <4> QED
        BY <1>1, <2>2, <3>3, <3>4, <3>5, <3>8, <4>2, <4>3, DoneReading
    <3> QED
      BY <3>7, <3>8
  <2> QED
    BY <2>1, <2>2 DEF KilledFilesStayReadable
<1> QED
  BY <1>1, RoundTripInvariance, PTL

\* Unless the writer was killed between the two patches of a refresh, nothing is
\* handed out as a chunk that was not attached as one, whatever the audio looks
\* like and wherever the patching was cut short (patch_sizes, read_wav_header).
THEOREM HandedOutWereAttached == RoundTripSpec => []ChunksHandedOutWereAttached
<1>1. ASSUME Inv, RInv PROVE ChunksHandedOutWereAttached
  <2> SUFFICES ASSUME Done, stage = "done", ~Torn
               PROVE  /\ Len(Handed(TRUE)) <= Len(tail)
                      /\ \A i \in DOMAIN Handed(TRUE) :
                            Handed(TRUE)[i] = [id |-> tail[i].id, size |-> tail[i].size]
    BY Zenon DEF ChunksHandedOutWereAttached
  <2>1. HeaderInv /\ WriterInv
    BY <1>1 DEF RInv
  <2>2. PICK at \in Seq(Nat) : Laid(at) /\ PastHeader(at)
    BY <1>1, DoneReading
  <2>3. PICK j \in 0 .. Len(tail) : InTail(j)
    BY <2>2 DEF PastHeader
  <2>4. PICK chunks : chunks = [i \in 1 .. j |-> [id |-> tail[i].id, size |-> tail[i].size]]
    OBVIOUS
  <2>5. Handed(TRUE) = chunks /\ j \in Nat /\ Len(tail) \in Nat /\ j <= Len(tail)
    BY <1>1, <2>1, <2>3, <2>4, TailHanded
  <2>6. Len(chunks) = j /\ DOMAIN chunks = 1 .. j
    <3>1. j \in Nat
      BY <2>5
    <3> QED
      BY <2>4, <3>1
  <2>7. Len(chunks) <= Len(tail)
    BY <2>5, <2>6
  <2>8. \A i \in DOMAIN chunks : chunks[i] = [id |-> tail[i].id, size |-> tail[i].size]
    BY <2>4
  <2> QED
    BY <2>5, <2>7, <2>8, Zenon
<1> QED
  BY <1>1, RoundTripInvariance, PTL

\* A copy of any file that can be read, finished or left behind by a kill, is
\* accepted by the writer and reads as the original did (write_header,
\* read_wav_header, and the copying the documentation describes).
THEOREM CopiesReadAlike == RoundTripSpec => []CopiesReadTheSame
<1>1. ASSUME Inv, RInv PROVE CopiesReadTheSame
  <2> SUFFICES ASSUME Copying
               PROVE  /\ stage # "failed"
                      /\ Done => status = "ok" /\ WhatWasRead = source
    BY DEF CopiesReadTheSame
  <2>1. HeaderInv /\ WriterInv /\ CopyInv /\ ReadInv
    BY <1>1 DEF RInv
  <2>2. /\ stage # "failed"
        /\ source = [fact |-> source.fact, before |-> req.leading, after |-> source.after,
                     len |-> source.len]
        /\ req.fact.kind \in {"Body", "None"}
        /\ req.rf64 => req.fact.kind = "None"
        /\ source.fact = (IF req.fact.kind = "None" THEN Absent ELSE req.fact.len)
        /\ source.after \in Seq([id : STRING, size : Nat])
        /\ ~req.seekable => source.after = << >> /\ source.len <= U32Max
        /\ \A i \in DOMAIN tail : SameChunk(tail[i], source.after[i])
        /\ life \in {"writing", "finalized", "released"}
        /\ life = "released" => ~req.seekable
        /\ life # "writing" => recorded = source.len /\ Len(tail) = Len(source.after)
    BY <2>1 DEF CopyInv
  <2> SUFFICES ASSUME Done PROVE status = "ok" /\ WhatWasRead = source
    BY <2>2
  <2>3. life # "writing"
    BY <2>1 DEF Done, ReadInv
  <2>4. stage = "done"
    BY <2>1, <2>2, <2>3 DEF WriterInv, NothingYet
  <2>5. status = "ok" /\ FileKnown
    BY <1>1, <2>4, DoneReading
  <2>6. PICK at \in Seq(Nat) : Laid(at) /\ PastHeader(at)
    BY <1>1, <2>4, DoneReading
  <2>7. ~Torn /\ recorded = source.len /\ Len(tail) = Len(source.after)
    BY <2>2, <2>3 DEF Torn
  <2>8. PICK j \in 0 .. Len(tail) : InTail(j)
    BY <2>6, <2>7 DEF PastHeader
  <2>9. req \in RequestType /\ (req.rf64 => req.seekable)
    BY <1>1, <2>1, <2>4, DoneFacts
  <2>10. Handed(FALSE) = req.leading
    BY <1>1, <2>1, <2>4, <2>6, LeadingHanded DEF PastHeader
  <2>11. PICK n : n = Len(tail)
    OBVIOUS
  <2>12. /\ n \in Nat /\ DOMAIN tail = 1 .. n /\ j \in Nat
         /\ Handed(TRUE) = [i \in 1 .. j |-> [id |-> tail[i].id, size |-> tail[i].size]]
    BY <1>1, <2>1, <2>4, <2>8, <2>11, TailHanded, EndFacts DEF WriterInv
  <2>13. j = n
    <3>1. CASE life = "finalized"
      <4>1. offsets.data \in DOMAIN patched
        BY <1>1, <2>1, <2>4, <3>1, FinalizedFacts
      <4> QED
        BY <2>5, <2>8, <2>11, <3>1, <4>1 DEF InTail
    <3>2. CASE life = "released"
      <4>1. Len(source.after) = 0
        BY <2>2, <3>2
      <4>2. n = 0
        BY <2>7, <2>11, <4>1
      <4> QED
        BY <2>8, <2>11, <4>2
    <3> QED
      BY <2>2, <2>3, <3>1, <3>2
  <2>14. Handed(TRUE) = source.after
    <3>1. source.after = [i \in 1 .. n |-> source.after[i]]
      BY <2>2, <2>7, <2>11
    <3>2. \A i \in 1 .. n : [id |-> tail[i].id, size |-> tail[i].size] = source.after[i]
      <4> TAKE i \in 1 .. n
      <4>1. source.after[i] \in [id : STRING, size : Nat]
        BY <2>2, <2>7, <2>11, ElementOfSeq
      <4>2. tail[i].id = source.after[i].id /\ tail[i].size = source.after[i].size
        BY <2>2, <2>12 DEF SameChunk
      <4> QED
        BY <4>1, <4>2
    <3>3. [i \in 1 .. n |-> [id |-> tail[i].id, size |-> tail[i].size]]
            = [i \in 1 .. n |-> source.after[i]]
      BY <3>2
    <3>4. Handed(TRUE) = [i \in 1 .. n |-> [id |-> tail[i].id, size |-> tail[i].size]]
      BY <2>12, <2>13, Zenon
    <3> QED
      BY <3>1, <3>3, <3>4, Zenon
  <2>15. FactRead = source.fact
    <3>1. FactRead = (IF HasFact THEN LenOf(2) ELSE Absent)
      BY <1>1, <2>1, <2>6, <2>7, FactReadIs
    <3>2. CASE req.fact.kind = "None"
      <4>1. FactBody = "nothing"
        BY <3>2, Zenon DEF FactBody
      <4>2. ~HasFact
        BY <4>1 DEF HasFact, FactToWrite
      <4> QED
        BY <2>2, <3>1, <3>2, <4>2
    <3>3. CASE req.fact.kind = "Body"
      <4>1. FactBody = "verbatim"
        BY <3>3, Zenon DEF FactBody
      <4>2. FactToWrite = "verbatim" /\ ~req.rf64
        BY <2>2, <3>3, <4>1 DEF FactToWrite
      <4>3. HasFact /\ OwnCount = 2
        BY <4>2 DEF HasFact, OwnCount
      <4>4. LenOf(2) = req.fact.len
        BY <4>2, <4>3 DEF LenOf
      <4> QED
        BY <2>2, <3>1, <3>3, <4>3, <4>4
    <3> QED
      BY <2>2, <3>2, <3>3
  <2>16. Least(audio.len, SatSub(file.size, audio.at)) = source.len
    <3>1. Least(audio.len, SatSub(file.size, audio.at)) = Least(DataLen, FileEnd - header_len)
      BY <1>1, <2>1, <2>5, <2>6, AudioRead
    <3>2. /\ recorded \in Nat /\ header_len \in Nat /\ AudioEnd = header_len + recorded
          /\ FileEnd \in Nat /\ FileEnd >= AudioEnd
          /\ tail = << >> => FileEnd = AudioEnd
      BY <1>1, <2>1, <2>4, EndFacts, DoneFacts DEF WriterInv
    <3>3. CASE life = "finalized"
      <4>1. DataLen = recorded
        BY <1>1, <2>1, <2>4, <3>3, FinalizedFacts
      <4>2. DataLen <= FileEnd - header_len
        BY <3>2, <4>1
      <4> QED
        BY <2>7, <3>1, <4>1, <4>2 DEF Least
    <3>4. CASE life = "released"
      <4>1. source.after = << >> /\ source.len <= U32Max /\ ~req.seekable
        BY <2>2, <3>4
      <4>2. tail = << >>
        <5>1. Len(tail) = 0
          BY <2>7, <4>1
        <5>2. tail \in Seq([id : STRING, size : Nat, at : Nat])
          BY <2>1 DEF WriterInv, TailInv
        <5> QED
          BY <5>1, <5>2
      <4>3. FileEnd - header_len = recorded
        BY <3>2, <4>2
      <4>4. patched = << >> /\ ~req.rf64
        BY <2>1, <2>4, <2>9, <4>1 DEF WriterInv, PatchedInv
      <4>5. DOMAIN patched = {}
        BY <4>4
      <4>6. DataLen = U32Max
        BY <4>4, <4>5 DEF DataLen
      <4> QED
        BY <2>7, <3>1, <3>2, <4>1, <4>3, <4>6, LimitsAssumption DEF Least
    <3> QED
      BY <2>2, <2>3, <3>3, <3>4
  <2>17. WhatWasRead = source
    BY <2>2, <2>10, <2>14, <2>15, <2>16, Zenon DEF WhatWasRead
  <2> QED
    BY <2>5, <2>17
<1> QED
  BY <1>1, RoundTripInvariance, PTL
=============================================================================
