------------------------- MODULE WavRecoveryProofs -------------------------
(***************************************************************************)
(* The safety properties of WavRecovery, for every choice of its           *)
(* constants, every failure and every kill.                                *)
(*                                                                         *)
(* The inductive invariant is IOInv.  Most of it says what a call that is  *)
(* under way has still to do, in terms of where the writer is: Pending.    *)
(* The steps left are always those the call would plan now, or the last of *)
(* them, so that each step finds the writer where the plan supposed it.    *)
(*                                                                         *)
(* As long as no call fails, the calls implement WavWriter.  The steps of  *)
(* a call but the last map to stuttering: the writer is taken to be where  *)
(* it was when the call began.  What relates that writer to the one        *)
(* half-way through the call is Begun: the checks the call has passed, and *)
(* what its steps have changed so far.                                     *)
(***************************************************************************)
EXTENDS WavRecovery, WavWriterProofs

-----------------------------------------------------------------------------
(* The invariant.                                                          *)

IOType ==
    /\ TypeOK
    /\ doing \in {Idle, "write", "seek", "trim", "chunk", "update"} \cup Consuming
    /\ adrift \in BOOLEAN
    /\ track \in Seq(Cell)
    /\ promised \in Nat
    /\ trimmed \in BOOLEAN
    /\ doing # Idle => settled.pos \in Nat

\* What the writer believes to be in the file is there, failed calls or not.
Extents ==
    /\ data_pos <= data_bytes
    /\ data_bytes + trailing_bytes <= Len(body)
    /\ Len(track) = data_bytes
    /\ promised <= data_bytes
    /\ trailing_bytes # 0 => data_pos = data_bytes

SeekPending ==
    /\ trailing_bytes = 0
    /\ \E offset \in Nat :
        \/ offset <= data_bytes /\ io = SeekSteps(offset)
        \/ offset > data_bytes /\ io = FillSteps(offset)
        \/ /\ offset > data_bytes
           /\ pos = cfg.header_len + data_bytes /\ data_pos = data_bytes
           /\ io = <<Audio(Repeat(Zero, offset - data_bytes))>>

TrimPending ==
    /\ trailing_bytes = 0
    /\ \E len \in Nat :
        \/ len < data_bytes /\ io = TrimSteps(len)
        \/ /\ len < data_bytes
           /\ io = <<Shorten(len), Seek(cfg.header_len + Least(data_pos, len),
                                        Least(data_pos, len))>>
        \/ io = <<Seek(cfg.header_len + data_pos, data_pos)>>

\* The steps of a refresh, from the first to the one that brings the stream back.
Leading == IF doing = "update" THEN <<Flush, StreamPosition>> ELSE <<Flush>>
Return ==
    IF doing = "update" THEN Seek(settled.pos, data_pos)
    ELSE Seek(cfg.header_len + Len(body), data_pos)
Plan == Leading \o PatchSteps \o <<Return>>

\* The sizes patched by the first k steps after the leading ones.
Fresh(k) ==
    /\ k >= 2 => hdr.riff = RiffSize
    /\ k >= 4 => hdr.data = data_bytes
    /\ k >= 6 /\ PatchesCount => hdr.count = PatchedCount
    /\ k >= 1 => SizesFit

RefreshPending ==
    IF cfg.seekable
    THEN \E k \in 0 .. Len(Plan) - 1 :
            io = SubSeq(Plan, k + 1, Len(Plan)) /\ Fresh(k - Len(Leading))
    ELSE io = <<Flush>>

Pending ==
    /\ doing # Idle => phase = "open"
    /\ doing = "write" => /\ ~adrift /\ trailing_bytes = 0
                          /\ \E w \in Writes : io = <<Audio(w)>>
    /\ doing = "seek" => SeekPending
    /\ doing = "trim" => TrimPending
    /\ doing = "chunk" => /\ ~adrift /\ data_pos = data_bytes
                          /\ \E c \in Chunks : io = ChunkSteps(c)
    /\ doing \in {"update", "finalize"} => RefreshPending
    /\ doing = "into_inner" => io = <<Flush>>

\* While the writer is not adrift, the stream is where the writer believes it to be;
\* a refresh has noted that place, and a seek or a trim finds another.
AtCursor(p) == p = cfg.header_len + data_pos + trailing_bytes

StreamRight ==
    phase = "open" /\ ~adrift =>
        /\ doing \in {Idle, "write", "chunk"} => AtCursor(pos)
        /\ doing = "update" => AtCursor(settled.pos) /\ (~cfg.seekable => AtCursor(pos))

\* Without a trim, the sizes on disk describe no more than there is.
SizesNest ==
    ~trimmed =>
        LET data_set  == hdr.data # Placeholder(cfg)
            count_set == hdr.count # Placeholder(cfg)
        IN  /\ hdr.riff # Placeholder(cfg) => hdr.riff + 8 <= cfg.header_len + Len(body)
            /\ data_set => /\ cfg.header_len + hdr.data <= hdr.riff + 8
                           /\ hdr.data <= data_bytes
            /\ cfg.counting /\ count_set => data_set /\ hdr.count <= FramesAt(hdr.data)
            /\ promised # 0 => data_set /\ promised <= hdr.data

IOInv ==
    /\ IOType
    /\ Extents
    /\ Pending
    /\ StreamRight
    /\ SizesNest
    /\ AudioIsWhatSucceeded

-----------------------------------------------------------------------------
(* Lists of steps.                                                         *)

\* A list of one, two or three, and what is left of it after its first step.
LEMMA ListOfOne ==
    ASSUME NEW x, NEW s, s = <<x>>
    PROVE  Len(s) = 1 /\ Head(s) = x /\ SubSeq(s, 2, Len(s)) = << >>
OBVIOUS

LEMMA ListOfTwo ==
    ASSUME NEW x, NEW y, NEW s, s = <<x, y>>
    PROVE  Len(s) = 2 /\ Head(s) = x /\ SubSeq(s, 2, Len(s)) = <<y>>
<1> DEFINE r == SubSeq(s, 2, Len(s))
           q == <<y>>
<1>1. s \in Seq({x, y}) /\ Len(s) = 2 /\ Head(s) = x /\ s[2] = y
  OBVIOUS
<1>2. r \in Seq({x, y}) /\ Len(r) = 1 /\ r[1] = y
  BY <1>1
<1>3. q \in Seq({x, y}) /\ Len(q) = 1 /\ q[1] = y
  OBVIOUS
<1> HIDE DEF r, q
<1>4. r = q
  BY <1>2, <1>3, SameSequence
<1> QED
  BY <1>1, <1>4 DEF r, q

LEMMA ListOfThree ==
    ASSUME NEW x, NEW y, NEW z, NEW s, s = <<x, y, z>>
    PROVE  Len(s) = 3 /\ Head(s) = x /\ SubSeq(s, 2, Len(s)) = <<y, z>>
<1> DEFINE r == SubSeq(s, 2, Len(s))
           q == <<y, z>>
<1>1. s \in Seq({x, y, z}) /\ Len(s) = 3 /\ Head(s) = x /\ s[2] = y /\ s[3] = z
  OBVIOUS
<1>2. r \in Seq({x, y, z}) /\ Len(r) = 2 /\ r[1] = y /\ r[2] = z
  BY <1>1
<1>3. q \in Seq({x, y, z}) /\ Len(q) = 2 /\ q[1] = y /\ q[2] = z
  OBVIOUS
<1> HIDE DEF r, q
<1>4. \A i \in 1 .. Len(r) : r[i] = q[i]
  BY <1>2, <1>3
<1>5. r = q
  BY <1>2, <1>3, <1>4, SameSequence
<1> QED
  BY <1>1, <1>5 DEF r, q

\* The rest of a list, and what is left of that.
LEMMA RestOfList ==
    ASSUME NEW S, NEW p \in Seq(S), NEW k \in 0 .. Len(p) - 1,
           NEW q, q = SubSeq(p, k + 1, Len(p))
    PROVE  /\ Head(q) = p[k + 1] /\ Len(q) = Len(p) - k
           /\ SubSeq(q, 2, Len(q)) = SubSeq(p, k + 2, Len(p))
OBVIOUS

\* What the steps are.
LEMMA StepFields ==
    /\ Flush.op = "flush" /\ StreamPosition.op = "stream_position" /\ Refuse.op = "refuse"
    /\ \A to, cursor : /\ Seek(to, cursor).op = "seek"
                       /\ Seek(to, cursor).to = to
                       /\ Seek(to, cursor).cursor = cursor
    /\ \A cells : Audio(cells).op = "audio" /\ Audio(cells).cells = cells
    /\ \A cells : Behind(cells).op = "tail" /\ Behind(cells).cells = cells
    /\ \A name, number : /\ Field(name, number).op = "field"
                         /\ Field(name, number).name = name
                         /\ Field(name, number).value = number
    /\ \A len : Shorten(len).op = "shorten" /\ Shorten(len).len = len
BY DEF Flush, StreamPosition, Refuse, Seek, Audio, Behind, Field, Shorten

-----------------------------------------------------------------------------
(* The plan of a refresh, step by step.                                    *)

\* How many steps patch the sizes.
PatchCount == IF ~SizesFit THEN 1 ELSE IF PatchesCount THEN 6 ELSE 4

\* The steps of PatchSteps, by number.
IsPatchStep(step, i) ==
    \/ ~SizesFit /\ step = Refuse
    \/ SizesFit /\ i = 1 /\ step = Seek(FieldAt("riff"), data_pos)
    \/ SizesFit /\ i = 2 /\ step = Field("riff", RiffSize)
    \/ SizesFit /\ i = 3 /\ step = Seek(FieldAt("data"), data_pos)
    \/ SizesFit /\ i = 4 /\ step = Field("data", data_bytes)
    \/ SizesFit /\ i = 5 /\ PatchesCount /\ step = Seek(FieldAt("count"), data_pos)
    \/ SizesFit /\ i = 6 /\ PatchesCount /\ step = Field("count", PatchedCount)

\* The steps a refresh may have to take.
PlanSteps ==
    {Flush, StreamPosition, Refuse, Return,
     Seek(FieldAt("riff"), data_pos), Field("riff", RiffSize),
     Seek(FieldAt("data"), data_pos), Field("data", data_bytes),
     Seek(FieldAt("count"), data_pos), Field("count", PatchedCount)}

\* Two lists, one after the other.
IsJoined(st, s, t) ==
    /\ Len(st) = Len(s) + Len(t)
    /\ \A i \in 1 .. Len(s) : st[i] = s[i]
    /\ \A i \in 1 .. Len(t) : st[Len(s) + i] = t[i]

LEMMA Joined ==
    ASSUME NEW S, NEW s \in Seq(S), NEW t \in Seq(S)
    PROVE  s \o t \in Seq(S) /\ IsJoined(s \o t, s, t)
BY DEF IsJoined

LEMMA PatchStepsAre ==
    /\ PatchSteps \in Seq(PlanSteps)
    /\ Len(PatchSteps) = PatchCount
    /\ \A i \in 1 .. PatchCount : IsPatchStep(PatchSteps[i], i)
<1> DEFINE r1 == Seek(FieldAt("riff"), data_pos)
           r2 == Field("riff", RiffSize)
           d1 == Seek(FieldAt("data"), data_pos)
           d2 == Field("data", data_bytes)
           c1 == Seek(FieldAt("count"), data_pos)
           c2 == Field("count", PatchedCount)
           r == <<r1, r2>>
           d == <<d1, d2>>
           c == <<c1, c2>>
           four == r \o d
           six == four \o c
<1>1. CASE ~SizesFit
  <2>1. PatchSteps = <<Refuse>>
    BY <1>1 DEF PatchSteps
  <2>2. Refuse \in PlanSteps
    BY DEF PlanSteps
  <2>3. PatchSteps \in Seq(PlanSteps) /\ Len(PatchSteps) = 1 /\ PatchSteps[1] = Refuse
    BY <2>1, <2>2
  <2> QED
    BY <1>1, <2>3 DEF PatchCount, IsPatchStep
<1>2. CASE SizesFit
  <2>1. /\ r1 \in PlanSteps /\ r2 \in PlanSteps /\ d1 \in PlanSteps
        /\ d2 \in PlanSteps /\ c1 \in PlanSteps /\ c2 \in PlanSteps
    BY DEF PlanSteps
  <2> HIDE DEF r1, r2, d1, d2, c1, c2
  <2>2. /\ Len(r) = 2 /\ r[1] = r1 /\ r[2] = r2
        /\ Len(d) = 2 /\ d[1] = d1 /\ d[2] = d2
        /\ Len(c) = 2 /\ c[1] = c1 /\ c[2] = c2
    OBVIOUS
  <2>3. r \in Seq(PlanSteps) /\ d \in Seq(PlanSteps) /\ c \in Seq(PlanSteps)
    BY <2>1
  <2> HIDE DEF r, d, c
  <2>4. four \in Seq(PlanSteps) /\ IsJoined(four, r, d)
    BY <2>3, Joined
  <2> HIDE DEF four
  <2>5. six \in Seq(PlanSteps) /\ IsJoined(six, four, c)
    BY <2>3, <2>4, Joined
  <2> HIDE DEF six
  <2>6. Len(four) = 4 /\ four[1] = r1 /\ four[2] = r2 /\ four[3] = d1 /\ four[4] = d2
    BY <2>2, <2>4 DEF IsJoined
  <2>7. /\ Len(six) = 6 /\ six[1] = r1 /\ six[2] = r2 /\ six[3] = d1 /\ six[4] = d2
        /\ six[5] = c1 /\ six[6] = c2
    BY <2>2, <2>5, <2>6 DEF IsJoined
  <2>8. CASE PatchesCount
    <3>1. PatchSteps = six
      BY <1>2, <2>8 DEF PatchSteps, Patch, r, d, c, r1, r2, d1, d2, c1, c2, four, six
    <3>2. \A i \in 1 .. 6 : i = 1 \/ i = 2 \/ i = 3 \/ i = 4 \/ i = 5 \/ i = 6
      OBVIOUS
    <3>3. \A i \in 1 .. 6 : IsPatchStep(six[i], i)
      BY <1>2, <2>7, <2>8, <3>2 DEF IsPatchStep, r1, r2, d1, d2, c1, c2
    <3> QED
      BY <1>2, <2>5, <2>7, <2>8, <3>1, <3>3 DEF PatchCount
  <2>9. CASE ~PatchesCount
    <3>1. PatchSteps = four
      <4>1. PatchSteps = four \o << >>
        BY <1>2, <2>9 DEF PatchSteps, Patch, four, r, d, r1, r2, d1, d2
      <4> QED
        BY <2>4, <4>1
    <3>2. \A i \in 1 .. 4 : i = 1 \/ i = 2 \/ i = 3 \/ i = 4
      OBVIOUS
    <3>3. \A i \in 1 .. 4 : IsPatchStep(four[i], i)
      BY <1>2, <2>6, <3>2 DEF IsPatchStep, r1, r2, d1, d2
    <3> QED
      BY <1>2, <2>4, <2>6, <2>9, <3>1, <3>3 DEF PatchCount
  <2> QED
    BY <2>8, <2>9
<1> QED
  BY <1>1, <1>2

\* The plan: the leading steps, the patches and the return.
PlanRight ==
    /\ Plan \in Seq(PlanSteps)
    /\ Len(Plan) = Len(Leading) + PatchCount + 1
    /\ Len(Leading) = (IF doing = "update" THEN 2 ELSE 1)
    /\ PatchCount \in {1, 4, 6}
    /\ Plan[1] = Flush
    /\ doing = "update" => Plan[2] = StreamPosition
    /\ \A i \in 1 .. PatchCount : IsPatchStep(Plan[Len(Leading) + i], i)
    /\ Plan[Len(Plan)] = Return

LEMMA PlanIs == PlanRight
<1> DEFINE last == <<Return>>
           p == PatchSteps
           l == Leading
           lp == l \o p
<1>1. PatchCount \in {1, 4, 6}
  BY DEF PatchCount
<1>2. /\ p \in Seq(PlanSteps) /\ Len(p) = PatchCount
      /\ \A i \in 1 .. PatchCount : IsPatchStep(p[i], i)
  BY PatchStepsAre
<1>3. last \in Seq(PlanSteps) /\ Len(last) = 1 /\ last[1] = Return
  BY DEF PlanSteps
<1>4. /\ Len(l) = (IF doing = "update" THEN 2 ELSE 1)
      /\ l[1] = Flush /\ (doing = "update" => l[2] = StreamPosition)
  BY DEF Leading
<1>5. l \in Seq(PlanSteps)
  <2>1. Flush \in PlanSteps /\ StreamPosition \in PlanSteps
    BY DEF PlanSteps
  <2>2. <<Flush, StreamPosition>> \in Seq(PlanSteps) /\ <<Flush>> \in Seq(PlanSteps)
    BY <2>1
  <2> QED
    BY <2>2 DEF Leading
<1>6. Plan = lp \o last
  BY DEF Plan
<1> HIDE DEF last, p, l
<1>7. lp \in Seq(PlanSteps) /\ IsJoined(lp, l, p)
  BY <1>2, <1>5, Joined
<1> HIDE DEF lp
<1>8. Plan \in Seq(PlanSteps) /\ IsJoined(Plan, lp, last)
  BY <1>3, <1>6, <1>7, Joined
<1>9. Len(lp) = Len(l) + PatchCount /\ Len(Plan) = Len(l) + PatchCount + 1
  BY <1>1, <1>2, <1>3, <1>4, <1>7, <1>8 DEF IsJoined
<1>10. Plan[1] = Flush /\ (doing = "update" => Plan[2] = StreamPosition)
  <2>1. lp[1] = Flush /\ (doing = "update" => lp[2] = StreamPosition)
    BY <1>4, <1>7 DEF IsJoined
  <2> QED
    BY <1>1, <1>4, <1>8, <1>9, <2>1 DEF IsJoined
<1>11. ASSUME NEW i \in 1 .. PatchCount PROVE Plan[Len(l) + i] = p[i]
  <2>1. Len(l) \in Nat /\ i \in Nat /\ Len(l) + i \in 1 .. Len(lp)
    BY <1>1, <1>4, <1>9
  <2>2. Plan[Len(l) + i] = lp[Len(l) + i]
    BY <1>8, <2>1 DEF IsJoined
  <2>3. lp[Len(l) + i] = p[i]
    BY <1>2, <1>7 DEF IsJoined
  <2> QED
    BY <2>2, <2>3
<1>12. Plan[Len(Plan)] = Return
  BY <1>1, <1>3, <1>4, <1>8, <1>9 DEF IsJoined
<1>13. \A i \in 1 .. PatchCount : IsPatchStep(Plan[Len(l) + i], i)
  BY <1>2, <1>11
<1> USE DEF l
<1> QED
  BY <1>1, <1>4, <1>8, <1>9, <1>10, <1>12, <1>13 DEF PlanRight

LEMMA PlanStaysRight == PlanRight'
BY PlanIs, PTL

-----------------------------------------------------------------------------
(* What every step finds, and what most steps leave alone.                 *)

LEMMA IOFacts ==
    ASSUME IOInv
    PROVE  /\ cfg \in Configs /\ cfg.header_len \in Nat /\ cfg.header_len >= 44
           /\ data_bytes \in Nat /\ data_pos \in Nat /\ trailing_bytes \in Nat
           /\ pos \in Nat /\ body \in Seq(Cell) /\ Len(body) \in Nat
           /\ hdr \in [riff : Nat, data : Nat, count : Nat]
           /\ hdr.riff \in Nat /\ hdr.data \in Nat /\ hdr.count \in Nat
           /\ track \in Seq(Cell) /\ Len(track) = data_bytes /\ promised \in Nat
           /\ data_pos <= data_bytes /\ data_bytes + trailing_bytes <= Len(body)
           /\ promised <= data_bytes /\ data_bytes <= Len(body)
           /\ trailing_bytes # 0 => data_pos = data_bytes
<1>1. /\ cfg \in Configs /\ data_bytes \in Nat /\ data_pos \in Nat
      /\ trailing_bytes \in Nat /\ pos \in Nat /\ body \in Seq(Cell)
      /\ hdr \in [riff : Nat, data : Nat, count : Nat]
      /\ track \in Seq(Cell) /\ promised \in Nat
  BY DEF IOInv, IOType, TypeOK, Cell
<1>2. /\ Len(track) = data_bytes
      /\ data_pos <= data_bytes /\ data_bytes + trailing_bytes <= Len(body)
      /\ promised <= data_bytes
      /\ trailing_bytes # 0 => data_pos = data_bytes
  BY DEF IOInv, Extents
<1>3. Len(body) \in Nat
  BY <1>1
<1> QED
  BY <1>1, <1>2, <1>3, ConfigFacts

\* Whole frames grow with the bytes.
LEMMA FramesGrow ==
    ASSUME cfg \in Configs, NEW m \in Nat, NEW n \in Nat, m <= n
    PROVE  /\ FramesAt(m) \in Nat /\ FramesAt(m) <= m
           /\ FramesAt(m) <= FramesAt(n)
<1>1. cfg.frame_bytes \in Nat
  BY ConfigFacts
<1>2. CASE cfg.frame_bytes = 0
  BY <1>2 DEF FramesAt
<1>3. CASE cfg.frame_bytes # 0
  <2> DEFINE f == cfg.frame_bytes
             q == m \div f
  <2>1. f \in Nat \ {0}
    BY <1>1, <1>3
  <2> HIDE DEF f
  <2>2. q \in Nat /\ q <= m
    BY <2>1, WholeFrames
  <2> HIDE DEF q
  <2>3. q * f <= m
    <3>1. q <= m \div f <=> q * f <= m
      BY <2>1, <2>2, WholeFrames
    <3> QED
      BY <2>2, <3>1 DEF q
  <2>4. q * f <= n
    BY <2>1, <2>2, <2>3
  <2>5. q <= n \div f
    BY <2>1, <2>2, <2>4, WholeFrames
  <2>6. FramesAt(m) = q /\ FramesAt(n) = n \div f
    BY <1>3 DEF FramesAt, q, f
  <2> QED
    BY <2>2, <2>5, <2>6
<1> QED
  BY <1>2, <1>3

\* The sizes on disk go on nesting while the file and its audio only grow.
LEMMA SizesKept ==
    ASSUME IOInv, UNCHANGED <<cfg, hdr, promised, trimmed>>,
           Len(body') \in Nat, Len(body') >= Len(body),
           data_bytes' \in Nat, data_bytes' >= data_bytes
    PROVE  SizesNest'
<1>1. CASE trimmed
  BY <1>1 DEF SizesNest
<1>2. CASE ~trimmed
  <2>1. /\ hdr.riff # Placeholder(cfg) => hdr.riff + 8 <= cfg.header_len + Len(body')
        /\ hdr.data <= data_bytes => hdr.data <= data_bytes'
    <3>1. hdr.riff # Placeholder(cfg) => hdr.riff + 8 <= cfg.header_len + Len(body)
      BY <1>2 DEF IOInv, SizesNest
    <3>2. /\ hdr.riff \in Nat /\ hdr.data \in Nat /\ cfg.header_len \in Nat
          /\ Len(body) \in Nat /\ data_bytes \in Nat
      BY IOFacts
    <3> QED
      BY <3>1, <3>2
  <2>2. Placeholder(cfg)' = Placeholder(cfg)
    BY DEF Placeholder
  <2>3. FramesAt(hdr.data)' = FramesAt(hdr.data)
    BY DEF FramesAt
  <2> QED
    BY <1>2, <2>1, <2>2, <2>3 DEF IOInv, SizesNest
<1> QED
  BY <1>1, <1>2

LEMMA AudioKept ==
    ASSUME AudioIsWhatSucceeded, UNCHANGED <<data_bytes, body, track, dirty>>
    PROVE  AudioIsWhatSucceeded'
BY DEF AudioIsWhatSucceeded

\* A step of a call: the last one ends it.
LEMMA TakeFacts ==
    ASSUME NEW op, Take(op)
    PROVE  /\ doing # Idle /\ Head(io).op = op
           /\ io' = SubSeq(io, 2, Len(io))
           /\ cfg' = cfg /\ failed' = failed
           /\ adrift' \in BOOLEAN
           /\ Len(io) # 1 => UNCHANGED <<doing, settled, phase>> /\ (adrift' <=> adrift)
           /\ Len(io) = 1 => /\ doing' = Idle
                             /\ doing \notin {"seek", "trim"} => (adrift' <=> adrift)
                             /\ doing \in {"seek", "trim"} => ~adrift'
                             /\ doing \notin Consuming => phase' = phase
                             /\ doing \in Consuming => phase' \in {"finalized", "released"}
<1>1. /\ doing # Idle /\ Head(io).op = op
      /\ io' = SubSeq(io, 2, Len(io))
      /\ cfg' = cfg /\ failed' = failed
  BY DEF Take
<1>2. Len(io) # 1 => UNCHANGED <<doing, settled, phase>>
  BY DEF Take
<1>3. Len(io) = 1 => /\ doing' = Idle
                     /\ doing \notin Consuming => phase' = phase
                     /\ doing \in Consuming => phase' \in {"finalized", "released"}
  BY DEF Take
<1>4. adrift' = (adrift /\ ~(Len(io) = 1 /\ doing \in {"seek", "trim"}))
  BY DEF Take
<1>5. adrift' \in BOOLEAN
  BY <1>4, Zenon
<1>6. Len(io) # 1 => (adrift' <=> adrift)
  BY <1>4, Zenon
<1>7. Len(io) = 1 => /\ doing \notin {"seek", "trim"} => (adrift' <=> adrift)
                     /\ doing \in {"seek", "trim"} => ~adrift'
  BY <1>4, Zenon
<1> QED
  BY <1>1, <1>2, <1>3, <1>5, <1>6, <1>7

-----------------------------------------------------------------------------
(* The audio in the file and the audio recorded.                           *)

\* Two streams agree on the first n bytes, those in D aside.
Alike(b, t, n, D) == \A i \in (1 .. n) \ D : i <= Len(b) /\ b[i] = t[i]

LEMMA AudioAlike ==
    AudioIsWhatSucceeded <=> Alike(body, track, data_bytes, dirty)
BY DEF AudioIsWhatSucceeded, Alike

\* Writing the same bytes to both leaves them as alike as they were, and alike
\* where they were written.
LEMMA SameAudioPut ==
    ASSUME NEW S, NEW b \in Seq(S), NEW t \in Seq(S), NEW w \in Seq(S), NEW D,
           NEW at \in 0 .. Len(t), Len(t) <= Len(b), Alike(b, t, Len(t), D)
    PROVE  Alike(Put(b, at, w), Put(t, at, w), Greatest(Len(t), at + Len(w)),
                 D \ (at + 1 .. at + Len(w)))
<1> SUFFICES ASSUME NEW i \in (1 .. Greatest(Len(t), at + Len(w)))
                                \ (D \ (at + 1 .. at + Len(w)))
             PROVE  i <= Len(Put(b, at, w)) /\ Put(b, at, w)[i] = Put(t, at, w)[i]
  BY DEF Alike
<1> DEFINE n == Len(w)
           lt == Len(t)
           lb == Len(b)
<1>1. n \in Nat /\ lt \in Nat /\ lb \in Nat /\ lt <= lb /\ at \in Nat /\ at <= lt /\ at <= lb
  OBVIOUS
<1>2. Len(Put(b, at, w)) = Greatest(lb, at + n)
  BY <1>1, PutType
<1>3. Put(b, at, w)[i] = IF at < i /\ i <= at + n THEN w[i - at] ELSE b[i]
  <2>1. i \in 1 .. Greatest(lb, at + n)
    <3> HIDE DEF n, lt, lb
    <3> QED
      BY <1>1 DEF Greatest, lt, n
  <2> QED
    BY <2>1 DEF Put
<1>4. Put(t, at, w)[i] = IF at < i /\ i <= at + n THEN w[i - at] ELSE t[i]
  BY DEF Put
<1>5. i \in Nat /\ i >= 1 /\ i <= Greatest(lt, at + n)
  <2>1. Greatest(lt, at + n) \in Nat
    BY <1>1 DEF Greatest
  <2> QED
    BY <2>1
<1>6. i <= Greatest(lb, at + n)
  <2> HIDE DEF n, lt, lb
  <2> QED
    BY <1>1, <1>5 DEF Greatest
<1>7. CASE at < i /\ i <= at + n
  BY <1>2, <1>3, <1>4, <1>6, <1>7
<1>8. CASE ~(at < i /\ i <= at + n)
  <2>1. i \notin at + 1 .. at + n
    <3> HIDE DEF n, lt, lb
    <3> QED
      BY <1>1, <1>5, <1>8
  <2>2. i \notin D
    BY <2>1 DEF n
  <2>3. i \in 1 .. lt
    <3> HIDE DEF n, lt, lb
    <3> QED
      BY <1>1, <1>5, <1>8 DEF Greatest
  <2>4. b[i] = t[i]
    BY <2>2, <2>3 DEF Alike
  <2> QED
    BY <1>2, <1>3, <1>4, <1>6, <1>8, <2>4
<1> QED
  BY <1>7, <1>8

\* Writing to the one leaves them alike where nothing was written.
LEMMA SameAudioTorn ==
    ASSUME NEW S, NEW b \in Seq(S), NEW t, NEW w \in Seq(S), NEW D,
           NEW at \in 0 .. Len(b), NEW n \in 0 .. Len(b), Alike(b, t, n, D)
    PROVE  Alike(Put(b, at, w), t, n, D \cup ((at + 1 .. at + Len(w)) \cap (1 .. n)))
<1> SUFFICES ASSUME NEW i \in (1 .. n)
                                \ (D \cup ((at + 1 .. at + Len(w)) \cap (1 .. n)))
             PROVE  i <= Len(Put(b, at, w)) /\ Put(b, at, w)[i] = t[i]
  BY DEF Alike
<1>1. Len(w) \in Nat /\ Len(b) \in Nat /\ at \in Nat /\ i \in Nat /\ n \in Nat /\ i <= Len(b)
      /\ i >= 1
  OBVIOUS
<1>2. Len(Put(b, at, w)) = Greatest(Len(b), at + Len(w))
  BY PutType
<1>3. i <= Greatest(Len(b), at + Len(w)) /\ Greatest(Len(b), at + Len(w)) \in Nat
  BY <1>1 DEF Greatest
<1>4. Put(b, at, w)[i] = IF at < i /\ i <= at + Len(w) THEN w[i - at] ELSE b[i]
  <2>1. i \in 1 .. Greatest(Len(b), at + Len(w))
    BY <1>1, <1>3
  <2> QED
    BY <2>1 DEF Put
<1>5. ~(at < i /\ i <= at + Len(w))
  BY <1>1
<1>6. b[i] = t[i]
  BY DEF Alike
<1> QED
  BY <1>2, <1>3, <1>4, <1>5, <1>6

\* Audio written at the cursor.
LEMMA AudioTaken ==
    ASSUME IOInv, NEW cells \in Seq(Cell),
           pos = cfg.header_len + data_pos, trailing_bytes = 0,
           Emit(cells), Advance(Len(cells)),
           track' = Put(track, data_pos, cells),
           dirty' = dirty \ (data_pos + 1 .. data_pos + Len(cells)),
           UNCHANGED <<cfg, trailing_bytes, hdr, promised, trimmed>>
    PROVE  /\ body' \in Seq(Cell) /\ track' \in Seq(Cell)
           /\ data_bytes' \in Nat /\ data_pos' \in Nat /\ pos' \in Nat
           /\ data_pos' = data_pos + Len(cells)
           /\ data_bytes' = Greatest(data_bytes, data_pos + Len(cells))
           /\ pos' = cfg.header_len + data_pos'
           /\ Extents' /\ SizesNest' /\ AudioIsWhatSucceeded'
<1> DEFINE n == Len(cells)
<1>1. /\ cfg.header_len \in Nat /\ data_bytes \in Nat /\ data_pos \in Nat /\ n \in Nat
      /\ body \in Seq(Cell) /\ Len(body) \in Nat /\ track \in Seq(Cell)
      /\ Len(track) = data_bytes /\ data_pos <= data_bytes /\ data_bytes <= Len(body)
      /\ promised \in Nat /\ promised <= data_bytes
  BY IOFacts
<1>2. pos - cfg.header_len = data_pos
  BY <1>1
<1>3. body' = Put(body, data_pos, cells) /\ pos' = pos + n
  BY <1>2 DEF Emit
<1>4. data_pos \in 0 .. Len(body) /\ data_pos \in 0 .. Len(track)
  BY <1>1
<1>5. body' \in Seq(Cell) /\ Len(body') = Greatest(Len(body), data_pos + n)
  BY <1>1, <1>3, <1>4, PutType
<1>6. track' \in Seq(Cell) /\ Len(track') = Greatest(data_bytes, data_pos + n)
  BY <1>1, <1>4, PutType
<1>7. data_pos' = data_pos + n /\ data_bytes' = Greatest(data_bytes, data_pos + n)
  BY DEF Advance
<1>8. AudioIsWhatSucceeded'
  <2>1. Alike(body, track, Len(track), dirty)
    BY <1>1, AudioAlike DEF IOInv
  <2>2. Alike(Put(body, data_pos, cells), Put(track, data_pos, cells),
              Greatest(Len(track), data_pos + n),
              dirty \ (data_pos + 1 .. data_pos + n))
    BY <1>1, <1>4, <2>1, SameAudioPut
  <2>3. Alike(body', track', data_bytes', dirty')
    BY <1>1, <1>3, <1>7, <2>2
  <2> QED
    BY <2>3 DEF AudioIsWhatSucceeded, Alike
<1> HIDE DEF n
<1>9. pos' = cfg.header_len + data_pos' /\ pos' \in Nat /\ data_pos' \in Nat
  <2>1. pos' = cfg.header_len + data_pos + n
    BY <1>1, <1>3
  <2> QED
    BY <1>1, <1>7, <2>1
<1>10. /\ data_bytes' \in Nat /\ data_bytes' >= data_bytes /\ data_pos' <= data_bytes'
       /\ Len(body') \in Nat /\ Len(body') >= Len(body) /\ data_bytes' <= Len(body')
       /\ Len(track') = data_bytes'
  BY <1>1, <1>5, <1>6, <1>7 DEF Greatest
<1>11. SizesNest'
  BY <1>10, SizesKept
<1>12. Extents'
  <2>1. trailing_bytes' = 0 /\ promised' = promised
    OBVIOUS
  <2>2. data_bytes' + trailing_bytes' <= Len(body') /\ promised' <= data_bytes'
    BY <1>1, <1>10, <2>1
  <2> QED
    BY <1>10, <2>1, <2>2 DEF Extents
<1> QED
  BY <1>5, <1>6, <1>7, <1>8, <1>9, <1>10, <1>11, <1>12 DEF n

-----------------------------------------------------------------------------
(* The beginning, and the start of a call.                                 *)

LEMMA IOInitInv == IOInit => IOInv
<1> SUFFICES ASSUME IOInit PROVE IOInv
  OBVIOUS
<1>1. Init /\ Inv
  BY InitInv DEF IOInit
<1>2. /\ data_bytes = 0 /\ data_pos = 0 /\ trailing_bytes = 0 /\ body = << >>
      /\ pos = cfg.header_len /\ cfg \in Configs
      /\ hdr = [riff |-> Placeholder(cfg), data |-> Placeholder(cfg),
                count |-> Placeholder(cfg)]
  BY <1>1 DEF Init
<1>3. /\ doing = Idle /\ adrift = FALSE /\ track = << >> /\ promised = 0 /\ trimmed = FALSE
  BY DEF IOInit
<1>4. IOType
  <2>1. track \in Seq(Cell)
    BY <1>3
  <2>2. doing # Idle => settled.pos \in Nat
    BY <1>3
  <2> QED
    BY <1>1, <1>3, <2>1, <2>2 DEF IOType, Inv
<1>5. Extents
  BY <1>2, <1>3 DEF Extents
<1>6. Pending
  BY <1>3 DEF Pending, Idle, Consuming
<1>7. StreamRight
  BY <1>2, <1>3, ConfigFacts DEF StreamRight, AtCursor, Idle
<1>8. SizesNest
  BY <1>2, <1>3 DEF SizesNest
<1>9. AudioIsWhatSucceeded
  BY <1>2 DEF AudioIsWhatSucceeded
<1> QED
  BY <1>4, <1>5, <1>6, <1>7, <1>8, <1>9 DEF IOInv

LEMMA IdlePending ==
    ASSUME doing' = Idle
    PROVE  Pending'
BY DEF Pending, Idle, Consuming

\* Starting a call changes nothing but what there is to do.
LEMMA StartKeeps ==
    ASSUME IOInv, NEW call, NEW steps, Start(call, steps),
           call \in {"write", "seek", "trim", "chunk", "update"} \cup Consuming,
           Pending'
    PROVE  IOInv'
<1>1. /\ phase = "open" /\ doing = Idle /\ doing' = call
      /\ settled'.pos = pos
      /\ UNCHANGED <<vars, adrift, failed, history>>
  BY DEF Start
<1>2. /\ UNCHANGED <<cfg, phase, data_bytes, data_pos, trailing_bytes, pos, body, hdr>>
      /\ UNCHANGED <<adrift, track, dirty, promised, trimmed>>
  BY <1>1 DEF vars, history
<1>3. IOType'
  <2>1. TypeOK'
    BY <1>2 DEF IOInv, IOType, TypeOK
  <2>2. settled'.pos \in Nat
    BY <1>1, IOFacts
  <2> QED
    BY <1>1, <1>2, <2>1, <2>2 DEF IOInv, IOType
<1>4. Extents'
  BY <1>2 DEF IOInv, Extents
<1>5. StreamRight'
  BY <1>1, <1>2 DEF IOInv, StreamRight, AtCursor, Idle
<1>6. SizesNest'
  BY <1>2, IOFacts, SizesKept
<1>7. AudioIsWhatSucceeded'
  BY <1>2, AudioKept DEF IOInv
<1> QED
  BY <1>3, <1>4, <1>5, <1>6, <1>7 DEF IOInv

LEMMA StartWriteInv ==
    ASSUME IOInv, StartWrite
    PROVE  IOInv'
<1>1. PICK w \in Writes : ~adrift /\ EnsureDataOpen /\ Start("write", <<Audio(w)>>)
  BY DEF StartWrite
<1>2. /\ phase' = "open" /\ doing' = "write" /\ ~adrift' /\ trailing_bytes' = 0
      /\ io' = <<Audio(w)>>
  BY <1>1 DEF Start, EnsureDataOpen, vars
<1>3. Audio(w)' = Audio(w)
  BY DEF Audio
<1>4. Pending'
  BY <1>2, <1>3 DEF Pending, Idle, Consuming
<1> QED
  BY <1>1, <1>4, StartKeeps

LEMMA StartSeekInv ==
    ASSUME IOInv, StartSeek
    PROVE  IOInv'
<1>1. PICK frame \in 0 .. MaxFrame :
        LET offset == cfg.frame_bytes * frame
        IN  /\ EnsureDataOpen
            /\ \/ offset <= data_bytes /\ Start("seek", SeekSteps(offset))
               \/ offset > data_bytes /\ Start("seek", FillSteps(offset))
  BY DEF StartSeek
<1>2. cfg.frame_bytes * frame \in Nat
  BY BoundsAssumption, ConfigFacts, IOFacts
<1>3. PICK offset \in Nat :
        /\ EnsureDataOpen
        /\ \/ offset <= data_bytes /\ Start("seek", SeekSteps(offset))
           \/ offset > data_bytes /\ Start("seek", FillSteps(offset))
  BY <1>1, <1>2
<1>4. /\ phase' = "open" /\ doing' = "seek" /\ trailing_bytes' = 0
      /\ data_bytes' = data_bytes /\ cfg' = cfg
      /\ \/ offset <= data_bytes /\ io' = SeekSteps(offset)
         \/ offset > data_bytes /\ io' = FillSteps(offset)
  BY <1>3 DEF Start, EnsureDataOpen, vars
<1>5. SeekPending'
  BY <1>4 DEF SeekPending, SeekSteps, FillSteps
<1>6. Pending'
  BY <1>4, <1>5 DEF Pending, Idle, Consuming
<1> QED
  BY <1>3, <1>6, StartKeeps

\* A trim with nothing to cut off is a step that changes nothing.
LEMMA StartTrimInv ==
    ASSUME IOInv, StartTrim, ~UNCHANGED iovars
    PROVE  IOInv'
<1>1. PICK frame \in (0 .. MaxFrame) \cup {Position} :
        LET offset == cfg.frame_bytes * frame
        IN  EnsureDataOpen /\ offset < data_bytes /\ Start("trim", TrimSteps(offset))
  BY DEF StartTrim
<1>2. cfg.frame_bytes * frame \in Nat
  <2>1. frame \in Nat
    BY BoundsAssumption, PositionType DEF IOInv, IOType
  <2> QED
    BY <2>1, ConfigFacts, IOFacts
<1>3. PICK offset \in Nat :
        EnsureDataOpen /\ offset < data_bytes /\ Start("trim", TrimSteps(offset))
  BY <1>1, <1>2
<1>4. /\ phase' = "open" /\ doing' = "trim" /\ trailing_bytes' = 0
      /\ data_bytes' = data_bytes /\ data_pos' = data_pos /\ cfg' = cfg
      /\ offset < data_bytes' /\ io' = TrimSteps(offset)
  BY <1>3 DEF Start, EnsureDataOpen, vars
<1>5. TrimSteps(offset)' = TrimSteps(offset)
  BY <1>4 DEF TrimSteps, Least
<1>6. TrimPending'
  BY <1>4, <1>5 DEF TrimPending
<1>7. Pending'
  BY <1>4, <1>6 DEF Pending, Idle, Consuming
<1> QED
  BY <1>3, <1>7, StartKeeps

LEMMA StartChunkInv ==
    ASSUME IOInv, StartChunk
    PROVE  IOInv'
<1>1. PICK c \in Chunks :
        ~adrift /\ data_pos = data_bytes /\ Start("chunk", ChunkSteps(c))
  BY DEF StartChunk
<1>2. /\ phase' = "open" /\ doing' = "chunk" /\ ~adrift' /\ data_pos' = data_bytes'
      /\ data_bytes' = data_bytes /\ trailing_bytes' = trailing_bytes
      /\ io' = ChunkSteps(c)
  BY <1>1 DEF Start, vars
<1>3. ChunkSteps(c)' = ChunkSteps(c)
  BY <1>2 DEF ChunkSteps, PadBeforeTail
<1>4. Pending'
  BY <1>2, <1>3 DEF Pending, Idle, Consuming
<1> QED
  BY <1>1, <1>4, StartKeeps

LEMMA StartIntoInnerInv ==
    ASSUME IOInv, StartIntoInner
    PROVE  IOInv'
<1>1. phase' = "open" /\ doing' = "into_inner" /\ io' = <<Flush>>
  BY DEF StartIntoInner, Start, vars
<1>2. Pending'
  BY <1>1 DEF Pending, Idle, Consuming
<1> QED
  BY <1>2, StartKeeps DEF StartIntoInner, Consuming

\* The patches of a refresh depend on what the refresh leaves alone.
LEMMA PatchesKeep ==
    ASSUME UNCHANGED <<cfg, data_bytes, data_pos, trailing_bytes>>
    PROVE  /\ PatchSteps' = PatchSteps
           /\ PatchCount' = PatchCount
           /\ RiffSize' = RiffSize
           /\ SizesFit' = SizesFit /\ PatchesCount' = PatchesCount
           /\ PatchesCount => PatchedCount' = PatchedCount
<1>1. RiffSize' = RiffSize /\ PatchesCount' = PatchesCount
  BY DEF RiffSize, PatchesCount
<1>2. SizesFit' = SizesFit
  BY <1>1 DEF SizesFit
<1>3. FramesAt(data_bytes)' = FramesAt(data_bytes)
  BY DEF FramesAt
<1>4. PatchesCount => PatchedCount' = PatchedCount
  BY <1>3 DEF PatchesCount, PatchedCount, Least
<1>5. /\ FieldAt("riff")' = FieldAt("riff")
      /\ FieldAt("data")' = FieldAt("data")
      /\ FieldAt("count")' = FieldAt("count")
  BY Zenon DEF FieldAt
<1>6. /\ Patch("riff", RiffSize)' = Patch("riff", RiffSize)
      /\ Patch("data", data_bytes)' = Patch("data", data_bytes)
      /\ PatchesCount => Patch("count", PatchedCount)' = Patch("count", PatchedCount)
  BY <1>1, <1>4, <1>5 DEF Patch, Seek, Field
<1>7. PatchSteps' = PatchSteps
  BY <1>1, <1>2, <1>6 DEF PatchSteps, Refuse
<1>8. PatchCount' = PatchCount
  BY <1>1, <1>2 DEF PatchCount
<1> QED
  BY <1>1, <1>2, <1>4, <1>7, <1>8

LEMMA WholeList ==
    ASSUME NEW S, NEW p \in Seq(S)
    PROVE  SubSeq(p, 1, Len(p)) = p
OBVIOUS

\* A refresh starts with its whole plan ahead.
LEMMA RefreshStarts ==
    ASSUME cfg'.seekable, io' = Plan'
    PROVE  RefreshPending'
<1>1. /\ Plan' \in Seq(PlanSteps')
      /\ Len(Plan') = Len(Leading') + PatchCount' + 1
      /\ Len(Leading') \in {1, 2} /\ PatchCount' \in {1, 4, 6}
  BY PlanStaysRight DEF PlanRight
<1>2. Len(Plan') \in Nat /\ Len(Plan') > 0
  BY <1>1
<1>3. io' = SubSeq(Plan', 1, Len(Plan'))
  BY <1>1, WholeList
<1>4. Fresh(0 - Len(Leading))'
  <2>1. ~(0 - Len(Leading') >= 1) /\ ~(0 - Len(Leading') >= 2)
        /\ ~(0 - Len(Leading') >= 4) /\ ~(0 - Len(Leading') >= 6)
    BY <1>1
  <2> QED
    BY <2>1 DEF Fresh
<1>5. /\ 0 \in 0 .. Len(Plan') - 1
      /\ io' = SubSeq(Plan', 0 + 1, Len(Plan'))
  BY <1>2, <1>3
<1> QED
  BY <1>4, <1>5 DEF RefreshPending

LEMMA StartUpdateInv ==
    ASSUME IOInv, StartUpdate
    PROVE  IOInv'
<1>1. Start("update", UpdateSteps)
  BY DEF StartUpdate
<1>2. /\ phase' = "open" /\ doing' = "update" /\ io' = UpdateSteps
      /\ settled'.pos = pos
      /\ UNCHANGED <<cfg, data_bytes, data_pos, trailing_bytes>>
  BY <1>1 DEF Start, vars
<1>3. RefreshPending'
  <2>1. CASE cfg.seekable
    <3>1. Leading' = <<Flush, StreamPosition>>
      BY <1>2 DEF Leading, Flush, StreamPosition
    <3>2. Return' = Seek(pos, data_pos)
      BY <1>2 DEF Return, Seek
    <3>3. PatchSteps' = PatchSteps
      BY <1>2, PatchesKeep
    <3>4. io' = Plan'
      BY <1>2, <2>1, <3>1, <3>2, <3>3 DEF UpdateSteps, Plan
    <3> QED
      BY <1>2, <2>1, <3>4, RefreshStarts
  <2>2. CASE ~cfg.seekable
    BY <1>2, <2>2 DEF RefreshPending, UpdateSteps, Flush
  <2> QED
    BY <2>1, <2>2
<1>4. Pending'
  BY <1>2, <1>3 DEF Pending, Idle, Consuming
<1> QED
  BY <1>1, <1>4, StartKeeps

LEMMA StartFinalizeInv ==
    ASSUME IOInv, StartFinalize
    PROVE  IOInv'
<1>1. Start("finalize", FinalizeSteps)
  BY DEF StartFinalize
<1>2. /\ phase' = "open" /\ doing' = "finalize" /\ io' = FinalizeSteps
      /\ UNCHANGED <<cfg, data_bytes, data_pos, trailing_bytes, body>>
  BY <1>1 DEF Start, vars
<1>3. RefreshPending'
  <2>1. CASE cfg.seekable
    <3>1. Leading' = <<Flush>>
      BY <1>2 DEF Leading, Flush
    <3>2. Return' = Seek(cfg.header_len + Len(body), data_pos)
      BY <1>2 DEF Return, Seek
    <3>3. PatchSteps' = PatchSteps
      BY <1>2, PatchesKeep
    <3>4. io' = Plan'
      BY <1>2, <2>1, <3>1, <3>2, <3>3 DEF FinalizeSteps, Plan
    <3> QED
      BY <1>2, <2>1, <3>4, RefreshStarts
  <2>2. CASE ~cfg.seekable
    BY <1>2, <2>2 DEF RefreshPending, FinalizeSteps, Flush
  <2> QED
    BY <2>1, <2>2
<1>4. Pending'
  BY <1>2, <1>3 DEF Pending, Idle, Consuming
<1> QED
  BY <1>1, <1>4, StartKeeps DEF Consuming

-----------------------------------------------------------------------------
(* Taking a step, one lemma per call.                                      *)

TakeStep ==
    TakeFlush \/ TakeSeek \/ TakeAudio \/ TakeTail \/ TakeField \/ TakeShorten

\* The next step says which action takes it; nothing takes a refusal.
LEMMA StepIs ==
    ASSUME TakeStep
    PROVE  /\ doing # Idle /\ Head(io).op # "refuse"
           /\ Head(io).op \in {"flush", "stream_position"} => TakeFlush
           /\ Head(io).op = "seek" => TakeSeek
           /\ Head(io).op = "audio" => TakeAudio
           /\ Head(io).op = "tail" => TakeTail
           /\ Head(io).op = "field" => TakeField
           /\ Head(io).op = "shorten" => TakeShorten
<1>1. CASE TakeFlush
  BY <1>1, TakeFacts DEF TakeFlush
<1>2. CASE TakeSeek
  BY <1>2, TakeFacts DEF TakeSeek
<1>3. CASE TakeAudio
  BY <1>3, TakeFacts DEF TakeAudio
<1>4. CASE TakeTail
  BY <1>4, TakeFacts DEF TakeTail
<1>5. CASE TakeField
  BY <1>5, TakeFacts DEF TakeField
<1>6. CASE TakeShorten
  BY <1>6, TakeFacts DEF TakeShorten
<1> QED
  BY <1>1, <1>2, <1>3, <1>4, <1>5, <1>6 DEF TakeStep

\* A step whose call was found to go on, or to be over, keeps the types that
\* are not the writer's own.
LEMMA TypesKept ==
    ASSUME IOInv, NEW op, Take(op), TypeOK',
           track' \in Seq(Cell), promised' \in Nat, trimmed' \in BOOLEAN
    PROVE  IOType'
<1>1. /\ adrift' \in BOOLEAN
      /\ Len(io) # 1 => doing' = doing /\ settled' = settled
      /\ Len(io) = 1 => doing' = Idle
  BY TakeFacts
<1>2. doing' # Idle => settled'.pos \in Nat
  BY <1>1 DEF IOInv, IOType
<1>3. doing' \in {Idle, "write", "seek", "trim", "chunk", "update"} \cup Consuming
  BY <1>1 DEF IOInv, IOType
<1> QED
  BY <1>1, <1>2, <1>3 DEF IOType

\* The whole of a write is one step.
LEMMA WriteStepInv ==
    ASSUME IOInv, doing = "write", TakeStep
    PROVE  IOInv'
<1>1. PICK w \in Writes : io = <<Audio(w)>>
  BY DEF IOInv, Pending
<1>2. phase = "open" /\ ~adrift /\ trailing_bytes = 0 /\ AtCursor(pos)
  BY DEF IOInv, Pending, StreamRight, Idle
<1>3. pos = cfg.header_len + data_pos
  BY <1>2, IOFacts DEF AtCursor
<1>4. /\ Len(io) = 1 /\ Head(io).op = "audio" /\ Head(io).cells = w
      /\ SubSeq(io, 2, Len(io)) = << >>
  BY <1>1, ListOfOne, StepFields
<1>5. TakeAudio
  BY <1>4, StepIs
<1>6. w \in Seq(Cell)
  BY CellFacts
<1>7. /\ doing' = Idle /\ (adrift' <=> adrift) /\ phase' = phase /\ cfg' = cfg
  BY <1>4, <1>5, TakeFacts DEF TakeAudio, Consuming
<1>8. /\ Emit(w) /\ Advance(Len(w))
      /\ track' = Put(track, data_pos, w)
      /\ dirty' = dirty \ (data_pos + 1 .. data_pos + Len(w))
      /\ UNCHANGED <<trailing_bytes, hdr, promised, trimmed>>
  BY <1>4, <1>5 DEF TakeAudio
<1>9. /\ body' \in Seq(Cell) /\ track' \in Seq(Cell)
      /\ data_bytes' \in Nat /\ data_pos' \in Nat /\ pos' \in Nat
      /\ pos' = cfg.header_len + data_pos'
      /\ Extents' /\ SizesNest' /\ AudioIsWhatSucceeded'
  BY <1>2, <1>3, <1>6, <1>7, <1>8, AudioTaken
<1>10. TypeOK'
  BY <1>7, <1>8, <1>9 DEF IOInv, IOType, TypeOK, Cell
<1>11. IOType'
  BY <1>5, <1>8, <1>9, <1>10, TypesKept DEF TakeAudio, IOInv, IOType
<1>12. StreamRight'
  BY <1>2, <1>7, <1>8, <1>9, IOFacts DEF StreamRight, AtCursor, Idle
<1>13. Pending'
  BY <1>7, IdlePending
<1> QED
  BY <1>9, <1>11, <1>12, <1>13 DEF IOInv

\* A seek of the stream, in a call that moves the cursor.
LEMMA SeekTaken ==
    ASSUME IOInv, TakeSeek, doing \in {"seek", "trim"}, trailing_bytes = 0,
           NEW to \in Nat, NEW cursor \in Nat, cursor <= data_bytes,
           Head(io) = Seek(to, cursor)
    PROVE  /\ pos' = to /\ data_pos' = cursor
           /\ UNCHANGED <<cfg, data_bytes, trailing_bytes, body, hdr, track, dirty>>
           /\ IOType' /\ Extents' /\ SizesNest' /\ AudioIsWhatSucceeded'
<1>1. /\ pos' = to /\ data_pos' = cursor
      /\ UNCHANGED <<data_bytes, trailing_bytes, body, hdr, track, dirty>>
  BY StepFields DEF TakeSeek
<1>2. Take("seek") /\ cfg' = cfg
  BY TakeFacts DEF TakeSeek
<1>3. promised' = promised
  BY DEF TakeSeek, Describe
<1>4. trimmed \in BOOLEAN /\ trimmed' = trimmed
  BY DEF TakeSeek, Describe, IOInv, IOType
<1>5. phase' \in {"open", "finalized", "released", "lost"}
  <2>1. phase' = phase
    BY <1>2, TakeFacts DEF Consuming
  <2> QED
    BY <2>1 DEF IOInv, IOType, TypeOK
<1>6. TypeOK'
  BY <1>1, <1>2, <1>5, IOFacts DEF TypeOK, Cell
<1>7. IOType'
  BY <1>1, <1>2, <1>3, <1>4, <1>6, IOFacts, TypesKept
<1>8. Extents'
  BY <1>1, <1>3, IOFacts DEF Extents
<1>9. SizesNest'
  BY <1>1, <1>2, <1>3, <1>4, IOFacts, SizesKept
<1>10. AudioIsWhatSucceeded'
  BY <1>1, AudioKept DEF IOInv
<1> QED
  BY <1>1, <1>2, <1>7, <1>8, <1>9, <1>10

\* A seek is one step, or a seek to the end of the audio and the filling.
LEMMA SeekStepInv ==
    ASSUME IOInv, doing = "seek", TakeStep
    PROVE  IOInv'
<1>1. phase = "open" /\ SeekPending
  BY DEF IOInv, Pending, Idle
<1>2. PICK offset \in Nat :
        \/ offset <= data_bytes /\ io = SeekSteps(offset)
        \/ offset > data_bytes /\ io = FillSteps(offset)
        \/ /\ offset > data_bytes
           /\ pos = cfg.header_len + data_bytes /\ data_pos = data_bytes
           /\ io = <<Audio(Repeat(Zero, offset - data_bytes))>>
  BY <1>1 DEF SeekPending
<1>3. /\ cfg.header_len \in Nat /\ data_bytes \in Nat /\ trailing_bytes = 0
      /\ cfg.header_len + data_bytes \in Nat /\ cfg.header_len + offset \in Nat
  <2>1. cfg.header_len \in Nat /\ data_bytes \in Nat
    BY IOFacts
  <2>2. trailing_bytes = 0
    BY <1>1 DEF SeekPending
  <2> QED
    BY <2>1, <2>2
<1>4. CASE offset <= data_bytes /\ io = SeekSteps(offset)
  <2>1. /\ Len(io) = 1 /\ Head(io) = Seek(cfg.header_len + offset, offset)
        /\ Head(io).op = "seek"
    BY <1>4, ListOfOne, StepFields DEF SeekSteps
  <2>2. TakeSeek
    BY <2>1, StepIs
  <2>3. /\ pos' = cfg.header_len + offset /\ data_pos' = offset
        /\ trailing_bytes' = trailing_bytes /\ cfg' = cfg
        /\ IOType' /\ Extents' /\ SizesNest' /\ AudioIsWhatSucceeded'
    BY <1>3, <1>4, <2>1, <2>2, SeekTaken
  <2>4. doing' = Idle
    BY <2>1, <2>2, TakeFacts DEF TakeSeek
  <2>5. StreamRight'
    BY <1>3, <2>3, <2>4 DEF StreamRight, AtCursor, Idle
  <2> QED
    BY <2>3, <2>4, <2>5, IdlePending DEF IOInv
<1>5. CASE offset > data_bytes /\ io = FillSteps(offset)
  <2> DEFINE fill == Audio(Repeat(Zero, offset - data_bytes))
  <2>1. /\ Len(io) = 2 /\ Head(io) = Seek(cfg.header_len + data_bytes, data_bytes)
        /\ SubSeq(io, 2, Len(io)) = <<fill>>
    <3> HIDE DEF fill
    <3> QED
      BY <1>5, ListOfTwo DEF FillSteps, fill
  <2>2. Head(io).op = "seek"
    BY <2>1, StepFields
  <2>3. TakeSeek
    BY <2>2, StepIs
  <2>4. /\ pos' = cfg.header_len + data_bytes /\ data_pos' = data_bytes
        /\ UNCHANGED <<cfg, data_bytes, trailing_bytes>>
        /\ IOType' /\ Extents' /\ SizesNest' /\ AudioIsWhatSucceeded'
    <3>1. data_bytes <= data_bytes
      BY <1>3
    <3> QED
      BY <1>3, <2>1, <2>3, <3>1, SeekTaken
  <2> HIDE DEF fill
  <2>5. doing' = "seek" /\ phase' = "open" /\ io' = <<fill>>
    <3>1. Take("seek") /\ Len(io) # 1
      BY <2>1, <2>3 DEF TakeSeek
    <3>2. doing' = "seek" /\ phase' = "open" /\ io' = SubSeq(io, 2, Len(io))
      BY <1>1, <3>1, TakeFacts
    <3> QED
      BY <2>1, <3>2
  <2>6. SeekPending'
    <3>1. fill' = fill
      BY <2>4 DEF fill, Audio
    <3>2. offset > data_bytes'
      BY <1>5, <2>4
    <3>3. trailing_bytes' = 0 /\ pos' = cfg'.header_len + data_bytes' /\ data_pos' = data_bytes'
      BY <1>3, <2>4
    <3>4. io' = <<Audio(Repeat(Zero, offset - data_bytes))>>'
      BY <2>5, <3>1 DEF fill
    <3> QED
      BY <3>2, <3>3, <3>4 DEF SeekPending
  <2>7. StreamRight'
    BY <2>5 DEF StreamRight, Idle
  <2>8. Pending'
    BY <2>5, <2>6 DEF Pending, Idle, Consuming
  <2> QED
    BY <2>4, <2>7, <2>8 DEF IOInv
<1>6. CASE /\ offset > data_bytes
           /\ pos = cfg.header_len + data_bytes /\ data_pos = data_bytes
           /\ io = <<Audio(Repeat(Zero, offset - data_bytes))>>
  <2> DEFINE cells == Repeat(Zero, offset - data_bytes)
  <2>1. cells \in Seq(Cell)
    BY <1>3, <1>6, CellFacts
  <2> HIDE DEF cells
  <2>2. /\ Len(io) = 1 /\ Head(io).op = "audio" /\ Head(io).cells = cells
    BY <1>6, ListOfOne, StepFields DEF cells
  <2>3. TakeAudio
    BY <2>2, StepIs
  <2>4. doing' = Idle /\ phase' = phase /\ cfg' = cfg
    BY <2>2, <2>3, TakeFacts DEF TakeAudio, Consuming
  <2>5. /\ Emit(cells) /\ Advance(Len(cells))
        /\ track' = Put(track, data_pos, cells)
        /\ dirty' = dirty \ (data_pos + 1 .. data_pos + Len(cells))
        /\ UNCHANGED <<trailing_bytes, hdr, promised, trimmed>>
    BY <2>2, <2>3 DEF TakeAudio
  <2>6. /\ body' \in Seq(Cell) /\ track' \in Seq(Cell)
        /\ data_bytes' \in Nat /\ data_pos' \in Nat /\ pos' \in Nat
        /\ pos' = cfg.header_len + data_pos'
        /\ Extents' /\ SizesNest' /\ AudioIsWhatSucceeded'
    BY <1>3, <1>6, <2>1, <2>4, <2>5, AudioTaken
  <2>7. TypeOK'
    BY <2>4, <2>5, <2>6 DEF IOInv, IOType, TypeOK, Cell
  <2>8. IOType'
    BY <2>3, <2>5, <2>6, <2>7, TypesKept DEF TakeAudio, IOInv, IOType
  <2>9. StreamRight'
    BY <1>3, <2>4, <2>5, <2>6 DEF StreamRight, AtCursor, Idle
  <2> QED
    BY <2>4, <2>6, <2>8, <2>9, IdlePending DEF IOInv
<1> QED
  BY <1>2, <1>4, <1>5, <1>6

\* Flushing, and asking for the stream's position, change nothing.
LEMMA FlushTaken ==
    ASSUME IOInv, TakeFlush
    PROVE  /\ UNCHANGED <<cfg, data_bytes, data_pos, trailing_bytes, pos, body, hdr>>
           /\ UNCHANGED <<track, dirty, promised, trimmed>>
           /\ IOType' /\ Extents' /\ SizesNest' /\ AudioIsWhatSucceeded'
<1>1. PICK op : Take(op)
  BY DEF TakeFlush
<1>2. /\ UNCHANGED <<cfg, data_bytes, data_pos, trailing_bytes, pos, body, hdr>>
      /\ UNCHANGED <<track, dirty, promised, trimmed>>
  BY <1>1, TakeFacts DEF TakeFlush, belief, file, history
<1>3. phase' \in {"open", "finalized", "released", "lost"}
  BY <1>1, TakeFacts DEF IOInv, IOType, TypeOK
<1>4. TypeOK'
  BY <1>2, <1>3 DEF IOInv, IOType, TypeOK
<1>5. IOType'
  BY <1>1, <1>2, <1>4, TypesKept DEF IOInv, IOType
<1>6. Extents'
  BY <1>2 DEF IOInv, Extents
<1>7. SizesNest'
  BY <1>2, IOFacts, SizesKept
<1>8. AudioIsWhatSucceeded'
  BY <1>2, AudioKept DEF IOInv
<1> QED
  BY <1>2, <1>5, <1>6, <1>7, <1>8

\* Shortening the file to fewer bytes of audio than it has.
LEMMA ShortenTaken ==
    ASSUME IOInv, TakeShorten, trailing_bytes = 0, phase' = phase,
           NEW len \in Nat, len < data_bytes, Head(io) = Shorten(len)
    PROVE  /\ data_pos' = Least(data_pos, len) /\ trailing_bytes' = 0 /\ cfg' = cfg
           /\ IOType' /\ Extents' /\ SizesNest' /\ AudioIsWhatSucceeded'
<1>1. /\ body' = Cut(body, len) /\ data_bytes' = len
      /\ data_pos' = Least(data_pos, len)
      /\ track' = Cut(track, len) /\ dirty' = dirty \cap (1 .. len)
      /\ promised' = Least(promised, len)
      /\ trimmed' = TRUE
      /\ UNCHANGED <<trailing_bytes, pos, hdr>>
  BY StepFields DEF TakeShorten
<1>2. Take("shorten") /\ cfg' = cfg
  BY TakeFacts DEF TakeShorten
<1>3. /\ data_bytes \in Nat /\ data_pos \in Nat /\ promised \in Nat
      /\ body \in Seq(Cell) /\ track \in Seq(Cell)
      /\ len \in 0 .. Len(body) /\ len \in 0 .. Len(track)
  BY IOFacts
<1>4. body' \in Seq(Cell) /\ Len(body') = len
  BY <1>1, <1>3, CutType
<1>5. track' \in Seq(Cell) /\ Len(track') = len
  BY <1>1, <1>3, CutType
<1>6. data_pos' \in Nat /\ data_pos' <= len /\ promised' \in Nat /\ promised' <= len
  BY <1>1, <1>3 DEF Least
<1>7. TypeOK'
  BY <1>1, <1>2, <1>4, <1>6 DEF IOInv, IOType, TypeOK, Cell
<1>8. IOType'
  BY <1>1, <1>2, <1>5, <1>6, <1>7, TypesKept
<1>9. Extents'
  BY <1>1, <1>4, <1>5, <1>6 DEF Extents
<1>10. SizesNest'
  BY <1>1 DEF SizesNest
<1>11. AudioIsWhatSucceeded'
  <2> SUFFICES ASSUME NEW i \in (1 .. data_bytes') \ dirty'
               PROVE  i <= Len(body') /\ body'[i] = track'[i]
    BY DEF AudioIsWhatSucceeded
  <2>1. i \in 1 .. len /\ i \notin dirty
    BY <1>1
  <2>2. i \in 1 .. data_bytes /\ i <= len
    BY <1>3, <2>1
  <2>3. body[i] = track[i]
    BY <2>1, <2>2 DEF IOInv, AudioIsWhatSucceeded
  <2>4. body'[i] = body[i] /\ track'[i] = track[i]
    BY <1>1, <2>1 DEF Cut
  <2> QED
    BY <1>4, <2>2, <2>3, <2>4
<1> QED
  BY <1>1, <1>2, <1>8, <1>9, <1>10, <1>11

\* A trim flushes, shortens the file and brings the stream to the cursor.
LEMMA TrimStepInv ==
    ASSUME IOInv, doing = "trim", TakeStep
    PROVE  IOInv'
<1>1. phase = "open" /\ TrimPending /\ trailing_bytes = 0
  BY DEF IOInv, Pending, Idle, TrimPending
<1>2. PICK len \in Nat :
        \/ len < data_bytes /\ io = TrimSteps(len)
        \/ /\ len < data_bytes
           /\ io = <<Shorten(len), Seek(cfg.header_len + Least(data_pos, len),
                                        Least(data_pos, len))>>
        \/ io = <<Seek(cfg.header_len + data_pos, data_pos)>>
  BY <1>1 DEF TrimPending
<1>3. /\ cfg.header_len \in Nat /\ data_bytes \in Nat /\ data_pos \in Nat
      /\ data_pos <= data_bytes /\ cfg.header_len + data_pos \in Nat
  <2>1. /\ cfg.header_len \in Nat /\ data_bytes \in Nat /\ data_pos \in Nat
        /\ data_pos <= data_bytes
    BY IOFacts
  <2> QED
    BY <2>1
<1> DEFINE least == Least(data_pos, len)
           back == Seek(cfg.header_len + least, least)
<1>4. CASE len < data_bytes /\ io = TrimSteps(len)
  <2> HIDE DEF back
  <2>1. /\ Len(io) = 3 /\ Head(io) = Flush
        /\ SubSeq(io, 2, Len(io)) = <<Shorten(len), back>>
    <3> DEFINE short == Shorten(len)
    <3>1. io = <<Flush, short, back>>
      BY <1>4 DEF TrimSteps, back
    <3> HIDE DEF short
    <3>2. /\ Len(io) = 3 /\ Head(io) = Flush
          /\ SubSeq(io, 2, Len(io)) = <<short, back>>
      BY <3>1, ListOfThree
    <3> QED
      BY <3>2 DEF short
  <2>2. TakeFlush
    BY <2>1, StepIs, StepFields
  <2>3. /\ UNCHANGED <<cfg, data_bytes, data_pos, trailing_bytes>>
        /\ IOType' /\ Extents' /\ SizesNest' /\ AudioIsWhatSucceeded'
    BY <2>2, FlushTaken
  <2>4. doing' = "trim" /\ phase' = "open" /\ io' = SubSeq(io, 2, Len(io))
    <3>1. Len(io) # 1
      BY <2>1
    <3> QED
      BY <1>1, <2>2, <3>1, TakeFacts DEF TakeFlush
  <2>5. TrimPending'
    <3>1. io' = <<Shorten(len), back>>
      BY <2>1, <2>4
    <3>2. back' = back /\ Shorten(len)' = Shorten(len)
      BY <2>3 DEF back, Seek, Least, Shorten
    <3>3. trailing_bytes' = 0 /\ len < data_bytes'
      BY <1>1, <1>4, <2>3
    <3> QED
      BY <3>1, <3>2, <3>3 DEF TrimPending, back
  <2>6. StreamRight'
    BY <2>4 DEF StreamRight, Idle
  <2>7. Pending'
    BY <2>4, <2>5 DEF Pending, Idle, Consuming
  <2> QED
    BY <2>3, <2>6, <2>7 DEF IOInv
<1>5. CASE len < data_bytes /\ io = <<Shorten(len), back>>
  <2> HIDE DEF back
  <2>1. /\ Len(io) = 2 /\ Head(io) = Shorten(len)
        /\ SubSeq(io, 2, Len(io)) = <<back>>
    BY <1>5, ListOfTwo
  <2>2. TakeShorten
    BY <2>1, StepIs, StepFields
  <2>3. doing' = "trim" /\ phase' = "open" /\ io' = SubSeq(io, 2, Len(io))
    <3>1. Len(io) # 1
      BY <2>1
    <3> QED
      BY <1>1, <2>2, <3>1, TakeFacts DEF TakeShorten
  <2>4. /\ data_pos' = least /\ trailing_bytes' = 0 /\ cfg' = cfg
        /\ IOType' /\ Extents' /\ SizesNest' /\ AudioIsWhatSucceeded'
    BY <1>1, <1>5, <2>1, <2>2, <2>3, ShortenTaken
  <2>5. TrimPending'
    <3>1. io' = <<back>>
      BY <2>1, <2>3
    <3>2. back = Seek(cfg.header_len + data_pos, data_pos)'
      BY <2>4 DEF back, Seek
    <3> QED
      BY <2>4, <3>1, <3>2 DEF TrimPending
  <2>6. StreamRight'
    BY <2>3 DEF StreamRight, Idle
  <2>7. Pending'
    BY <2>3, <2>5 DEF Pending, Idle, Consuming
  <2> QED
    BY <2>4, <2>6, <2>7 DEF IOInv
<1>6. CASE io = <<Seek(cfg.header_len + data_pos, data_pos)>>
  <2>1. /\ Len(io) = 1 /\ Head(io) = Seek(cfg.header_len + data_pos, data_pos)
        /\ Head(io).op = "seek"
    BY <1>6, ListOfOne, StepFields
  <2>2. TakeSeek
    BY <2>1, StepIs
  <2>3. /\ pos' = cfg.header_len + data_pos /\ data_pos' = data_pos
        /\ trailing_bytes' = trailing_bytes /\ cfg' = cfg
        /\ IOType' /\ Extents' /\ SizesNest' /\ AudioIsWhatSucceeded'
    BY <1>1, <1>3, <2>1, <2>2, SeekTaken
  <2>4. doing' = Idle
    BY <2>1, <2>2, TakeFacts DEF TakeSeek
  <2>5. StreamRight'
    BY <1>1, <1>3, <2>3, <2>4 DEF StreamRight, AtCursor, Idle
  <2> QED
    BY <2>3, <2>4, <2>5, IdlePending DEF IOInv
<1> QED
  BY <1>2, <1>4, <1>5, <1>6

\* Bytes written behind the audio.
LEMMA TailTaken ==
    ASSUME IOInv, TakeTail, phase' = phase, AtCursor(pos), data_pos = data_bytes,
           NEW cells \in Seq(Cell), Head(io).cells = cells
    PROVE  /\ AtCursor(pos)' /\ cfg' = cfg
           /\ data_pos' = data_pos /\ data_bytes' = data_bytes
           /\ trailing_bytes' = trailing_bytes + Len(cells)
           /\ IOType' /\ Extents' /\ SizesNest' /\ AudioIsWhatSucceeded'
<1> DEFINE n == Len(cells)
           at == data_bytes + trailing_bytes
<1>1. /\ Emit(cells)
      /\ trailing_bytes' = trailing_bytes + n
      /\ UNCHANGED <<data_bytes, data_pos, hdr>>
      /\ UNCHANGED <<track, dirty, promised, trimmed>>
  BY DEF TakeTail, history
<1>2. Take("tail") /\ cfg' = cfg
  BY TakeFacts DEF TakeTail
<1>3. /\ cfg.header_len \in Nat /\ data_bytes \in Nat /\ trailing_bytes \in Nat
      /\ body \in Seq(Cell) /\ Len(body) \in Nat /\ pos \in Nat /\ n \in Nat
      /\ at \in Nat /\ at <= Len(body) /\ data_bytes <= Len(body)
      /\ promised <= data_bytes /\ Len(track) = data_bytes
  BY IOFacts
<1>4. pos - cfg.header_len = at /\ pos = cfg.header_len + at
  BY <1>3 DEF AtCursor
<1>5. body' = Put(body, at, cells) /\ pos' = pos + n
  BY <1>1, <1>4 DEF Emit
<1>6. at \in 0 .. Len(body) /\ data_bytes \in 0 .. Len(body)
  BY <1>3
<1>7. body' \in Seq(Cell) /\ Len(body') = Greatest(Len(body), at + n)
  BY <1>3, <1>5, <1>6, PutType
<1>8. AudioIsWhatSucceeded'
  <2>1. Alike(body, track, data_bytes, dirty)
    BY AudioAlike DEF IOInv
  <2>2. Alike(Put(body, at, cells), track, data_bytes,
              dirty \cup ((at + 1 .. at + n) \cap (1 .. data_bytes)))
    BY <1>3, <1>6, <2>1, SameAudioTorn
  <2>3. (at + 1 .. at + n) \cap (1 .. data_bytes) = {}
    <3> HIDE DEF n
    <3> QED
      BY <1>3
  <2>4. Alike(body', track', data_bytes', dirty')
    BY <1>1, <1>5, <2>2, <2>3
  <2> QED
    BY <2>4 DEF AudioIsWhatSucceeded, Alike
<1> HIDE DEF n, at
<1>9. /\ Len(body') \in Nat /\ Len(body') >= Len(body) /\ at + n <= Len(body')
      /\ trailing_bytes' \in Nat
  BY <1>1, <1>3, <1>7 DEF Greatest
<1>10. pos' \in Nat /\ pos' = cfg.header_len + data_pos + trailing_bytes'
  <2>1. pos' = cfg.header_len + at + n
    BY <1>3, <1>4, <1>5
  <2>2. trailing_bytes' = trailing_bytes + n /\ at = data_bytes + trailing_bytes
    BY <1>1 DEF at
  <2>3. cfg.header_len + at + n = cfg.header_len + data_bytes + (trailing_bytes + n)
    BY <1>3, <2>2
  <2> QED
    BY <1>3, <2>1, <2>2, <2>3
<1>11. TypeOK'
  BY <1>1, <1>2, <1>7, <1>9, <1>10 DEF IOInv, IOType, TypeOK, Cell
<1>12. IOType'
  BY <1>1, <1>2, <1>11, TypesKept DEF IOInv, IOType
<1>13. Extents'
  <2>1. data_bytes + trailing_bytes' <= Len(body')
    BY <1>1, <1>3, <1>9 DEF at
  <2> QED
    BY <1>1, <1>3, <2>1 DEF Extents
<1>14. SizesNest'
  BY <1>1, <1>2, <1>3, <1>9, SizesKept
<1> QED
  BY <1>1, <1>2, <1>8, <1>10, <1>12, <1>13, <1>14 DEF AtCursor, n

\* A chunk is its bytes, the first one after audio of odd length with a pad byte
\* of its own in front.
LEMMA ChunkStepInv ==
    ASSUME IOInv, doing = "chunk", TakeStep
    PROVE  IOInv'
<1>1. phase = "open" /\ ~adrift /\ data_pos = data_bytes /\ AtCursor(pos)
  BY DEF IOInv, Pending, StreamRight, Idle
<1>2. PICK c \in Chunks : io = ChunkSteps(c)
  BY DEF IOInv, Pending
<1>3. data_bytes \in Nat /\ trailing_bytes \in Nat
  BY IOFacts
<1> DEFINE pad == <<Zero>>
           cells == ChunkCells(c)
<1>4. cells \in Seq(Cell) /\ Len(cells) \in Nat
  BY CellFacts
<1>5. pad \in Seq(Cell) /\ Len(pad) = 1
  BY DEF Cell
<1> HIDE DEF pad, cells
<1>6. CASE PadBeforeTail = 1
  <2> DEFINE rest == Behind(cells)
             first == Behind(pad)
  <2>1. io = <<first, rest>>
    BY <1>2, <1>6 DEF ChunkSteps, pad, cells
  <2>2. first.op = "tail" /\ first.cells = pad
    BY StepFields
  <2> HIDE DEF first, rest
  <2>3. Len(io) = 2 /\ Head(io) = first /\ SubSeq(io, 2, Len(io)) = <<rest>>
    BY <2>1, ListOfTwo
  <2>4. TakeTail
    BY <2>2, <2>3, StepIs
  <2>5. /\ doing' = "chunk" /\ phase' = phase /\ (adrift' <=> adrift)
        /\ io' = SubSeq(io, 2, Len(io))
    <3>1. Len(io) # 1
      BY <2>3
    <3> QED
      BY <2>4, <3>1, TakeFacts DEF TakeTail
  <2>6. /\ AtCursor(pos)' /\ cfg' = cfg
        /\ data_pos' = data_pos /\ data_bytes' = data_bytes
        /\ trailing_bytes' = trailing_bytes + Len(pad)
        /\ IOType' /\ Extents' /\ SizesNest' /\ AudioIsWhatSucceeded'
    BY <1>1, <1>5, <2>2, <2>3, <2>4, <2>5, TailTaken
  <2>7. io' = ChunkSteps(c)'
    <3>1. trailing_bytes' # 0
      BY <1>3, <1>5, <2>6
    <3>2. PadBeforeTail' = 0
      BY <3>1 DEF PadBeforeTail
    <3>3. ChunkSteps(c)' = <<rest>>
      BY <3>2 DEF ChunkSteps, rest, cells
    <3> QED
      BY <2>3, <2>5, <3>3
  <2>8. Pending'
    BY <1>1, <2>5, <2>6, <2>7 DEF Pending, Idle, Consuming
  <2>9. StreamRight'
    BY <2>5, <2>6 DEF StreamRight, Idle
  <2> QED
    BY <2>6, <2>8, <2>9 DEF IOInv
<1>7. CASE PadBeforeTail # 1
  <2>1. io = <<Behind(cells)>>
    BY <1>2, <1>7 DEF ChunkSteps, cells
  <2>2. Len(io) = 1 /\ Head(io).op = "tail" /\ Head(io).cells = cells
    BY <2>1, ListOfOne, StepFields
  <2>3. TakeTail
    BY <2>2, StepIs
  <2>4. doing' = Idle /\ phase' = phase
    BY <2>2, <2>3, TakeFacts DEF TakeTail, Consuming
  <2>5. AtCursor(pos)' /\ IOType' /\ Extents' /\ SizesNest' /\ AudioIsWhatSucceeded'
    BY <1>1, <1>4, <2>2, <2>3, <2>4, TailTaken
  <2>6. StreamRight'
    BY <2>4, <2>5 DEF StreamRight, Idle
  <2> QED
    BY <2>4, <2>5, <2>6, IdlePending DEF IOInv
<1> QED
  BY <1>6, <1>7

-----------------------------------------------------------------------------
(* Taking a step of a refresh.                                             *)

\* A size field patched.
LEMMA FieldPatched ==
    ASSUME hdr \in [riff : Nat, data : Nat, count : Nat],
           NEW name \in {"riff", "data", "count"}, NEW number \in Nat,
           hdr' = [hdr EXCEPT ![name] = number]
    PROVE  /\ hdr' \in [riff : Nat, data : Nat, count : Nat]
           /\ hdr'.riff = IF name = "riff" THEN number ELSE hdr.riff
           /\ hdr'.data = IF name = "data" THEN number ELSE hdr.data
           /\ hdr'.count = IF name = "count" THEN number ELSE hdr.count
OBVIOUS

\* The values patched, and how they lie in each other.
LEMMA PatchValues ==
    ASSUME IOInv, SizesFit
    PROVE  /\ RiffSize \in Nat /\ RiffSize + 8 <= cfg.header_len + Len(body)
           /\ cfg.header_len + data_bytes <= RiffSize + 8
           /\ PatchedCount \in Nat
           /\ cfg.counting => PatchedCount <= FramesAt(data_bytes)
           /\ ~cfg.rf64 => data_bytes # U32Max
           /\ cfg.rf64 /\ data_bytes = 0 => FramesAt(data_bytes) = 0
           /\ cfg.counting /\ PatchedCount # Placeholder(cfg)
                => data_bytes # Placeholder(cfg)
<1>1. /\ cfg.header_len \in Nat /\ cfg.header_len >= 44
      /\ data_bytes \in Nat /\ trailing_bytes \in Nat /\ Len(body) \in Nat
      /\ data_bytes + trailing_bytes <= Len(body) /\ hdr.count \in Nat
      /\ cfg \in Configs
  BY IOFacts
<1>2. /\ RiffSize \in Nat /\ RiffSize + 8 <= cfg.header_len + Len(body)
      /\ cfg.header_len + data_bytes <= RiffSize + 8
  BY <1>1 DEF RiffSize
<1>3. FramesAt(data_bytes) \in Nat /\ FramesAt(data_bytes) <= data_bytes
  BY <1>1, FramesGrow
<1>4. U32Max \in Nat /\ cfg.fixed \in Nat \cup {NoCount}
  BY <1>1, ConfigFacts, U32MaxAssumption
<1>5. PatchedCount \in Nat
  BY <1>1, <1>3, <1>4 DEF PatchedCount, Least
<1>6. cfg.counting => PatchedCount <= FramesAt(data_bytes)
  BY <1>3, <1>4 DEF PatchedCount, Least
<1>7. ASSUME ~cfg.rf64 PROVE data_bytes # U32Max
  <2>1. RiffSize <= U32Max
    BY <1>7 DEF SizesFit
  <2> QED
    BY <1>1, <1>4, <2>1 DEF RiffSize
<1>8. ASSUME cfg.counting, PatchedCount # Placeholder(cfg)
      PROVE  data_bytes # Placeholder(cfg)
  <2>1. CASE cfg.rf64
    <3>1. PatchedCount = FramesAt(data_bytes) /\ Placeholder(cfg) = 0
      BY <1>8, <2>1 DEF PatchedCount, Placeholder
    <3> QED
      BY <1>1, <1>3, <1>8, <3>1
  <2>2. CASE ~cfg.rf64
    BY <1>7, <2>2 DEF Placeholder
  <2> QED
    BY <2>1, <2>2
<1> QED
  BY <1>1, <1>2, <1>3, <1>5, <1>6, <1>7, <1>8

\* The RIFF size comes first: the data it has to hold is no more than there is.
LEMMA RiffSizePatched ==
    ASSUME IOInv, SizesFit, UNCHANGED <<cfg, data_bytes, body, promised, trimmed>>,
           hdr'.riff = RiffSize, hdr'.data = hdr.data, hdr'.count = hdr.count
    PROVE  SizesNest'
<1>1. CASE trimmed
  BY <1>1 DEF SizesNest
<1>2. CASE ~trimmed
  <2>1. /\ cfg.header_len \in Nat /\ data_bytes \in Nat /\ hdr.data \in Nat
        /\ RiffSize \in Nat /\ RiffSize + 8 <= cfg.header_len + Len(body)
        /\ cfg.header_len + data_bytes <= RiffSize + 8
    BY IOFacts, PatchValues
  <2>2. hdr.data <= data_bytes => cfg.header_len + hdr.data <= RiffSize + 8
    BY <2>1
  <2>3. Placeholder(cfg)' = Placeholder(cfg)
    BY DEF Placeholder
  <2>4. FramesAt(hdr.data)' = FramesAt(hdr.data)
    BY DEF FramesAt
  <2> QED
    BY <1>2, <2>1, <2>2, <2>3, <2>4 DEF IOInv, SizesNest
<1> QED
  BY <1>1, <1>2

\* Then the data size, in the RIFF size patched before.
LEMMA DataSizePatched ==
    ASSUME IOInv, SizesFit, UNCHANGED <<cfg, data_bytes, body, promised, trimmed>>,
           hdr.riff = RiffSize,
           hdr'.riff = hdr.riff, hdr'.data = data_bytes, hdr'.count = hdr.count
    PROVE  SizesNest'
<1>1. CASE trimmed
  BY <1>1 DEF SizesNest
<1>2. CASE ~trimmed
  <2>1. /\ cfg \in Configs /\ cfg.header_len \in Nat /\ data_bytes \in Nat
        /\ hdr.data \in Nat /\ hdr.count \in Nat
        /\ promised \in Nat /\ promised <= data_bytes
        /\ RiffSize \in Nat /\ RiffSize + 8 <= cfg.header_len + Len(body)
        /\ cfg.header_len + data_bytes <= RiffSize + 8
        /\ ~cfg.rf64 => data_bytes # U32Max
    BY IOFacts, PatchValues
  <2> DEFINE none == Placeholder(cfg)
  <2>2. none' = none
    BY DEF Placeholder
  <2>3. /\ hdr.data # none => hdr.data <= data_bytes
        /\ cfg.counting /\ hdr.count # none
             => hdr.data # none /\ hdr.count <= FramesAt(hdr.data)
    BY <1>2 DEF IOInv, SizesNest
  <2>4. hdr.data <= data_bytes =>
            /\ FramesAt(hdr.data) \in Nat /\ FramesAt(data_bytes) \in Nat
            /\ FramesAt(hdr.data) <= FramesAt(data_bytes)
    <3>1. ASSUME NEW m \in Nat, NEW n \in Nat, m <= n
          PROVE  /\ FramesAt(m) \in Nat /\ FramesAt(n) \in Nat
                 /\ FramesAt(m) <= FramesAt(n)
      <4>1. FramesAt(m) \in Nat /\ FramesAt(m) <= FramesAt(n)
        BY <2>1, <3>1, FramesGrow
      <4>2. FramesAt(n) \in Nat
        <5>1. n <= n
          OBVIOUS
        <5> QED
          BY <2>1, <5>1, FramesGrow
      <4> QED
        BY <4>1, <4>2
    <3> QED
      BY <2>1, <3>1
  <2>5. FramesAt(hdr.data)' = FramesAt(data_bytes)
    BY DEF FramesAt
  <2>6. (hdr.data # none \/ promised # 0) => data_bytes # none
    BY <2>1, <2>3 DEF Placeholder
  <2>7. cfg.counting /\ hdr.count # none
            => data_bytes # none /\ hdr.count <= FramesAt(data_bytes)
    BY <2>1, <2>3, <2>4, <2>6
  <2> HIDE DEF none
  <2> QED
    BY <1>2, <2>1, <2>2, <2>5, <2>6, <2>7 DEF SizesNest, none
<1> QED
  BY <1>1, <1>2

\* Then the count, and after it the refresh is over but for the way back.
LEMMA CountPatched ==
    ASSUME IOInv, SizesFit, UNCHANGED <<cfg, data_bytes, body>>,
           promised' \in Nat, promised' <= data_bytes,
           hdr'.riff = RiffSize, hdr'.data = data_bytes,
           PatchesCount => hdr'.count = PatchedCount
    PROVE  SizesNest'
<1>1. /\ cfg.header_len \in Nat /\ data_bytes \in Nat
      /\ RiffSize \in Nat /\ RiffSize + 8 <= cfg.header_len + Len(body)
      /\ cfg.header_len + data_bytes <= RiffSize + 8
      /\ PatchedCount \in Nat
      /\ cfg.counting => PatchedCount <= FramesAt(data_bytes)
      /\ ~cfg.rf64 => data_bytes # U32Max
      /\ cfg.counting /\ PatchedCount # Placeholder(cfg)
           => data_bytes # Placeholder(cfg)
  BY IOFacts, PatchValues
<1> DEFINE none == Placeholder(cfg)
<1>2. none' = none
  BY DEF Placeholder
<1>3. FramesAt(hdr.data)' = FramesAt(data_bytes)
  BY DEF FramesAt
<1>4. promised' # 0 => data_bytes # none
  BY <1>1 DEF Placeholder
<1>5. cfg.counting => hdr'.count = PatchedCount
  BY DEF PatchesCount
<1> HIDE DEF none
<1> QED
  BY <1>1, <1>2, <1>3, <1>4, <1>5 DEF SizesNest, none

\* The plan stays as it is as long as the writer does.
LEMMA PlanKeeps ==
    ASSUME UNCHANGED <<cfg, data_bytes, data_pos, trailing_bytes, body, doing, settled>>
    PROVE  Plan' = Plan /\ Len(Leading)' = Len(Leading)
<1>1. Leading' = Leading
  BY DEF Leading, Flush, StreamPosition
<1>2. Return' = Return
  BY DEF Return, Seek
<1>3. PatchSteps' = PatchSteps
  BY PatchesKeep
<1> QED
  BY <1>1, <1>2, <1>3 DEF Plan

\* A step that is not the last leaves the rest of the plan to do.
LEMMA RefreshGoesOn ==
    ASSUME IOInv, doing \in {"update", "finalize"}, cfg.seekable,
           NEW lead \in {1, 2}, Len(Leading) = lead,
           NEW k \in 0 .. Len(Plan) - 2, io = SubSeq(Plan, k + 1, Len(Plan)),
           NEW op, Take(op),
           UNCHANGED <<data_bytes, data_pos, trailing_bytes, body>>,
           Fresh(k + 1 - lead)'
    PROVE  Pending' /\ StreamRight'
<1>1. Plan \in Seq(PlanSteps) /\ Len(Plan) \in Nat
  BY PlanIs DEF PlanRight
<1>2. /\ Len(io) = Len(Plan) - k
      /\ SubSeq(io, 2, Len(io)) = SubSeq(Plan, k + 2, Len(Plan))
  BY <1>1, RestOfList
<1>3. Len(io) # 1
  BY <1>1, <1>2
<1>4. /\ UNCHANGED <<cfg, doing, settled, phase>> /\ (adrift' <=> adrift)
      /\ io' = SubSeq(Plan, k + 2, Len(Plan))
  BY <1>2, <1>3, TakeFacts
<1>5. Plan' = Plan /\ Len(Leading)' = lead
  BY <1>4, PlanKeeps
<1>6. k + 1 \in 0 .. Len(Plan) - 1 /\ (k + 1) + 1 = k + 2
  BY <1>1
<1>7. io' = SubSeq(Plan', (k + 1) + 1, Len(Plan'))
  BY <1>4, <1>5, <1>6
<1>8. Fresh((k + 1) - Len(Leading))'
  BY <1>5
<1>9. RefreshPending'
  BY <1>4, <1>5, <1>6, <1>7, <1>8 DEF RefreshPending
<1>10. Pending'
  BY <1>4, <1>9 DEF IOInv, Pending, Idle, Consuming
<1>11. StreamRight'
  BY <1>4 DEF IOInv, StreamRight, AtCursor, Idle
<1> QED
  BY <1>10, <1>11

\* What one more step makes fresh.
LEMMA FreshGrows ==
    ASSUME UNCHANGED <<cfg, data_bytes, data_pos, trailing_bytes>>,
           NEW i \in 1 .. 6, Fresh(i - 1), SizesFit,
           i # 2 => hdr'.riff = hdr.riff, i # 4 => hdr'.data = hdr.data,
           i # 6 => hdr'.count = hdr.count,
           i = 2 => hdr'.riff = RiffSize, i = 4 => hdr'.data = data_bytes,
           i = 6 /\ PatchesCount => hdr'.count = PatchedCount
    PROVE  Fresh(i)'
<1>1. /\ SizesFit' /\ RiffSize' = RiffSize /\ PatchesCount' = PatchesCount
      /\ PatchesCount => PatchedCount' = PatchedCount
  BY PatchesKeep
<1>2. i >= 2 => hdr'.riff = RiffSize
  BY DEF Fresh
<1>3. i >= 4 => hdr'.data = data_bytes
  BY DEF Fresh
<1>4. i >= 6 /\ PatchesCount => hdr'.count = PatchedCount
  BY DEF Fresh
<1> QED
  BY <1>1, <1>2, <1>3, <1>4 DEF Fresh

\* The fields are inside the header.
LEMMA FieldAtType ==
    ASSUME cfg \in Configs
    PROVE  FieldAt("riff") \in Nat /\ FieldAt("data") \in Nat /\ FieldAt("count") \in Nat
<1>1. cfg.header_len \in Nat /\ cfg.header_len >= 44 /\ cfg.count_offset \in Nat
  BY ConfigFacts
<1>2. FieldAt("riff") = IF cfg.rf64 THEN 20 ELSE 4
  BY Zenon DEF FieldAt
<1>3. FieldAt("data") = IF cfg.rf64 THEN 28 ELSE cfg.header_len - 4
  BY Zenon DEF FieldAt
<1>4. FieldAt("count") = cfg.count_offset
  BY Zenon DEF FieldAt
<1>5. FieldAt("riff") \in Nat
  BY <1>2
<1>6. FieldAt("data") \in Nat
  BY <1>1, <1>3
<1>7. FieldAt("count") \in Nat
  BY <1>1, <1>4
<1> QED
  BY <1>5, <1>6, <1>7

\* A seek to a size field.
LEMMA FieldSought ==
    ASSUME IOInv, doing \in {"update", "finalize"}, TakeSeek, Len(io) # 1,
           NEW to \in Nat, Head(io) = Seek(to, data_pos)
    PROVE  /\ UNCHANGED <<cfg, data_bytes, data_pos, trailing_bytes, body, hdr>>
           /\ IOType' /\ Extents' /\ SizesNest' /\ AudioIsWhatSucceeded'
<1>1. /\ pos' = to /\ data_pos' = data_pos
      /\ UNCHANGED <<data_bytes, trailing_bytes, body, hdr, track, dirty>>
  BY StepFields DEF TakeSeek
<1>2. Take("seek") /\ cfg' = cfg /\ phase' = phase
  BY TakeFacts DEF TakeSeek
<1>3. promised' = promised
  BY DEF TakeSeek, Describe
<1>4. trimmed \in BOOLEAN /\ trimmed' = trimmed
  BY DEF TakeSeek, Describe, IOInv, IOType
<1>5. TypeOK'
  BY <1>1, <1>2 DEF IOInv, IOType, TypeOK
<1>6. IOType'
  BY <1>1, <1>2, <1>3, <1>4, <1>5, TypesKept DEF IOInv, IOType
<1>7. Extents'
  BY <1>1, <1>3 DEF IOInv, Extents
<1>8. SizesNest'
  BY <1>1, <1>2, <1>3, <1>4, IOFacts, SizesKept
<1>9. AudioIsWhatSucceeded'
  BY <1>1, AudioKept DEF IOInv
<1> QED
  BY <1>1, <1>2, <1>6, <1>7, <1>8, <1>9

\* A size field written.
LEMMA FieldTaken ==
    ASSUME IOInv, doing \in {"update", "finalize"}, TakeField, Len(io) # 1,
           NEW name \in {"riff", "data", "count"}, NEW number \in Nat,
           Head(io) = Field(name, number)
    PROVE  /\ UNCHANGED <<cfg, data_bytes, data_pos, trailing_bytes, body>>
           /\ UNCHANGED <<promised, trimmed>>
           /\ hdr'.riff = IF name = "riff" THEN number ELSE hdr.riff
           /\ hdr'.data = IF name = "data" THEN number ELSE hdr.data
           /\ hdr'.count = IF name = "count" THEN number ELSE hdr.count
           /\ IOType' /\ Extents' /\ AudioIsWhatSucceeded'
<1>1. /\ hdr' = [hdr EXCEPT ![name] = number]
      /\ pos' = pos + FieldWidth
      /\ UNCHANGED <<data_bytes, data_pos, trailing_bytes, body>>
      /\ UNCHANGED <<track, dirty, promised, trimmed>>
  <2>1. Head(io).name = name /\ Head(io).value = number
    BY StepFields
  <2>2. hdr' = [hdr EXCEPT ![Head(io).name] = Head(io).value]
    BY DEF TakeField
  <2>3. hdr' = [hdr EXCEPT ![name] = number]
    BY <2>1, <2>2
  <2> QED
    BY <2>3 DEF TakeField, belief, history
<1>2. Take("field") /\ cfg' = cfg /\ phase' = phase
  BY TakeFacts DEF TakeField
<1>3. /\ hdr' \in [riff : Nat, data : Nat, count : Nat]
      /\ hdr'.riff = IF name = "riff" THEN number ELSE hdr.riff
      /\ hdr'.data = IF name = "data" THEN number ELSE hdr.data
      /\ hdr'.count = IF name = "count" THEN number ELSE hdr.count
  BY <1>1, IOFacts, FieldPatched
<1>4. pos' \in Nat
  BY <1>1, IOFacts DEF FieldWidth
<1>5. TypeOK'
  BY <1>1, <1>2, <1>3, <1>4 DEF IOInv, IOType, TypeOK
<1>6. IOType'
  BY <1>1, <1>2, <1>5, TypesKept DEF IOInv, IOType
<1>7. Extents'
  BY <1>1 DEF IOInv, Extents
<1>8. AudioIsWhatSucceeded'
  BY <1>1, AudioKept DEF IOInv
<1> QED
  BY <1>1, <1>2, <1>3, <1>6, <1>7, <1>8

\* A leading step of a refresh.
LEMMA LeadingStepInv ==
    ASSUME IOInv, doing \in {"update", "finalize"}, cfg.seekable, TakeStep,
           NEW lead \in {1, 2}, Len(Leading) = lead,
           NEW k \in 0 .. Len(Plan) - 1, io = SubSeq(Plan, k + 1, Len(Plan)),
           k < lead
    PROVE  IOInv'
<1>1. /\ Plan \in Seq(PlanSteps) /\ Len(Plan) = lead + PatchCount + 1
      /\ PatchCount \in {1, 4, 6} /\ lead = IF doing = "update" THEN 2 ELSE 1
      /\ Plan[1] = Flush /\ (doing = "update" => Plan[2] = StreamPosition)
  BY PlanIs DEF PlanRight
<1>2. Head(io) = Plan[k + 1]
  BY <1>1, RestOfList
<1>3. k \in 0 .. Len(Plan) - 2
  BY <1>1
<1>4. Head(io).op \in {"flush", "stream_position"}
  <2>1. k = 0 \/ (k = 1 /\ doing = "update")
    BY <1>1
  <2>2. CASE k = 0
    BY <1>1, <1>2, <2>2, StepFields
  <2>3. CASE k = 1 /\ doing = "update"
    BY <1>1, <1>2, <2>3, StepFields
  <2> QED
    BY <2>1, <2>2, <2>3
<1>5. TakeFlush
  BY <1>4, StepIs
<1>6. /\ UNCHANGED <<cfg, data_bytes, data_pos, trailing_bytes, body>>
      /\ IOType' /\ Extents' /\ SizesNest' /\ AudioIsWhatSucceeded'
  BY <1>5, FlushTaken
<1>7. Fresh(k + 1 - lead)'
  <2>1. k + 1 - lead <= 0 /\ k + 1 - lead \in Int
    BY <1>1
  <2> QED
    BY <2>1 DEF Fresh
<1>8. PICK op : Take(op)
  BY <1>5 DEF TakeFlush
<1>9. Pending' /\ StreamRight'
  BY <1>3, <1>6, <1>7, <1>8, RefreshGoesOn
<1> QED
  BY <1>6, <1>9 DEF IOInv

\* A patching step of a refresh.
LEMMA PatchStepInv ==
    ASSUME IOInv, doing \in {"update", "finalize"}, cfg.seekable, TakeStep,
           NEW lead \in {1, 2}, Len(Leading) = lead,
           NEW k \in 0 .. Len(Plan) - 1, io = SubSeq(Plan, k + 1, Len(Plan)),
           k >= lead, k < lead + PatchCount, Fresh(k - lead)
    PROVE  IOInv'
<1>1. /\ Plan \in Seq(PlanSteps) /\ Len(Plan) = lead + PatchCount + 1
      /\ PatchCount \in {1, 4, 6}
      /\ \A i \in 1 .. PatchCount : IsPatchStep(Plan[lead + i], i)
  BY PlanIs DEF PlanRight
<1>2. /\ Head(io) = Plan[k + 1] /\ Len(io) = Len(Plan) - k
  BY <1>1, RestOfList
<1>3. PICK i \in 1 .. 6 : i = k + 1 - lead /\ i \in 1 .. PatchCount
  BY <1>1
<1>4. IsPatchStep(Head(io), i)
  BY <1>1, <1>2, <1>3
<1>5. k \in 0 .. Len(Plan) - 2 /\ Len(io) # 1
  BY <1>1, <1>2
<1>6. SizesFit /\ Head(io).op # "refuse"
  BY <1>4, StepIs, StepFields DEF IsPatchStep
<1>7. cfg \in Configs /\ data_bytes \in Nat
  BY IOFacts
<1>8. Fresh(i - 1)
  <2>1. i - 1 = k - lead
    BY <1>1, <1>3
  <2> QED
    BY <2>1
<1>9. i = 1 \/ i = 2 \/ i = 3 \/ i = 4 \/ i = 5 \/ i = 6
  OBVIOUS
<1>10. CASE i \in {1, 3, 5}
  <2>1. PICK to \in Nat : Head(io) = Seek(to, data_pos)
    BY <1>4, <1>6, <1>7, <1>10, FieldAtType DEF IsPatchStep
  <2>2. TakeSeek
    BY <2>1, StepFields, StepIs
  <2>3. /\ UNCHANGED <<cfg, data_bytes, data_pos, trailing_bytes, body, hdr>>
        /\ IOType' /\ Extents' /\ SizesNest' /\ AudioIsWhatSucceeded'
    BY <1>5, <2>1, <2>2, FieldSought
  <2>4. Fresh(i)'
    BY <1>6, <1>8, <1>10, <2>3, FreshGrows
  <2>5. Take("seek") /\ k + 1 - lead = i
    BY <1>3, <2>2 DEF TakeSeek
  <2>6. Pending' /\ StreamRight'
    BY <1>5, <2>3, <2>4, <2>5, RefreshGoesOn
  <2> QED
    BY <2>3, <2>6 DEF IOInv
<1>11. CASE i \in {2, 4, 6}
  <2>1. /\ RiffSize \in Nat /\ PatchedCount \in Nat
    BY <1>6, PatchValues
  <2>2. /\ i = 2 => Head(io) = Field("riff", RiffSize)
        /\ i = 4 => Head(io) = Field("data", data_bytes)
        /\ i = 6 => Head(io) = Field("count", PatchedCount) /\ PatchesCount
    BY <1>4, <1>6 DEF IsPatchStep
  <2>3. TakeField
    BY <1>11, <2>2, StepFields, StepIs
  <2>4. Take("field") /\ k + 1 - lead = i
    BY <1>3, <2>3 DEF TakeField
  <2>5. /\ UNCHANGED <<cfg, data_bytes, data_pos, trailing_bytes, body>>
        /\ UNCHANGED <<promised, trimmed>>
        /\ hdr'.riff = IF i = 2 THEN RiffSize ELSE hdr.riff
        /\ hdr'.data = IF i = 4 THEN data_bytes ELSE hdr.data
        /\ hdr'.count = IF i = 6 THEN PatchedCount ELSE hdr.count
        /\ IOType' /\ Extents' /\ AudioIsWhatSucceeded'
    <3>1. CASE i = 2
      BY <1>5, <2>1, <2>2, <2>3, <3>1, FieldTaken
    <3>2. CASE i = 4
      BY <1>5, <1>7, <2>2, <2>3, <3>2, FieldTaken
    <3>3. CASE i = 6
      BY <1>5, <2>1, <2>2, <2>3, <3>3, FieldTaken
    <3> QED
      BY <1>11, <3>1, <3>2, <3>3
  <2>6. Fresh(i)'
    BY <1>6, <1>8, <1>11, <2>5, FreshGrows
  <2>7. SizesNest'
    <3>1. i = 4 => hdr.riff = RiffSize
      BY <1>8 DEF Fresh
    <3>2. i = 6 => hdr.riff = RiffSize /\ hdr.data = data_bytes
      BY <1>8 DEF Fresh
    <3>3. CASE i = 2
      BY <1>6, <2>5, <3>3, RiffSizePatched
    <3>4. CASE i = 4
      BY <1>6, <2>5, <3>1, <3>4, DataSizePatched
    <3>5. CASE i = 6
      BY <1>6, <2>5, <3>2, <3>5, IOFacts, CountPatched
    <3> QED
      BY <1>11, <3>3, <3>4, <3>5
  <2>8. Pending' /\ StreamRight'
    BY <1>5, <2>4, <2>5, <2>6, RefreshGoesOn
  <2> QED
    BY <2>5, <2>7, <2>8 DEF IOInv
<1> QED
  BY <1>9, <1>10, <1>11

\* The last step of a refresh brings the stream back, and the sizes on disk are
\* those of the file.
LEMMA ReturnStepInv ==
    ASSUME IOInv, doing \in {"update", "finalize"}, cfg.seekable, TakeStep,
           NEW lead \in {1, 2}, Len(Leading) = lead,
           NEW k \in 0 .. Len(Plan) - 1, io = SubSeq(Plan, k + 1, Len(Plan)),
           k = lead + PatchCount, Fresh(k - lead)
    PROVE  IOInv'
<1>1. /\ Plan \in Seq(PlanSteps) /\ Len(Plan) = lead + PatchCount + 1
      /\ PatchCount \in {1, 4, 6} /\ Plan[Len(Plan)] = Return
  BY PlanIs DEF PlanRight
<1>2. Head(io) = Plan[k + 1] /\ Len(io) = Len(Plan) - k
  BY <1>1, RestOfList
<1>3. Len(io) = 1 /\ Head(io) = Return /\ k - lead = PatchCount
  BY <1>1, <1>2
<1>4. phase = "open"
  BY DEF IOInv, Pending, Idle
<1>5. /\ SizesFit /\ hdr.riff = RiffSize /\ hdr.data = data_bytes
      /\ PatchesCount => hdr.count = PatchedCount
  <2>1. Fresh(PatchCount)
    BY <1>3
  <2>2. SizesFit
    BY <1>1, <2>1 DEF Fresh
  <2>3. PatchCount = IF PatchesCount THEN 6 ELSE 4
    BY <2>2 DEF PatchCount
  <2> QED
    BY <2>1, <2>2, <2>3 DEF Fresh
<1>6. PICK to \in Nat : /\ Return = Seek(to, data_pos)
                        /\ doing = "update" => to = settled.pos
  <2>1. settled.pos \in Nat
    BY DEF IOInv, IOType, Idle
  <2>2. cfg.header_len + Len(body) \in Nat
    <3>1. cfg.header_len \in Nat /\ Len(body) \in Nat
      BY IOFacts
    <3> QED
      BY <3>1
  <2> QED
    BY <2>1, <2>2 DEF Return
<1>7. Head(io).op = "seek" /\ Head(io).to = to /\ Head(io).cursor = data_pos
  <2> DEFINE back == Seek(to, data_pos)
  <2>1. back.op = "seek" /\ back.to = to /\ back.cursor = data_pos
    BY StepFields
  <2>2. Head(io) = back
    BY <1>3, <1>6
  <2> HIDE DEF back
  <2> QED
    BY <2>1, <2>2
<1>8. TakeSeek
  BY <1>7, StepIs
<1>9. /\ pos' = to /\ data_pos' = data_pos
      /\ UNCHANGED <<data_bytes, trailing_bytes, body, hdr, track, dirty>>
  BY <1>7, <1>8 DEF TakeSeek
<1>10. promised' = data_bytes /\ trimmed' = FALSE
  BY <1>3, <1>8 DEF TakeSeek, Describe
<1>11. /\ Take("seek") /\ cfg' = cfg /\ doing' = Idle /\ (adrift' <=> adrift)
       /\ phase' \in {"open", "finalized", "released"}
       /\ doing = "finalize" => phase' # "open"
  <2>1. Take("seek")
    BY <1>8 DEF TakeSeek
  <2> QED
    BY <1>3, <1>4, <2>1, TakeFacts DEF Consuming
<1>12. TypeOK'
  BY <1>9, <1>11 DEF IOInv, IOType, TypeOK
<1>13. IOType'
  BY <1>9, <1>10, <1>11, <1>12, IOFacts, TypesKept DEF IOInv, IOType
<1>14. Extents'
  <2>1. data_bytes <= data_bytes
    BY IOFacts
  <2> QED
    BY <1>9, <1>10, <2>1 DEF IOInv, Extents
<1>15. SizesNest'
  <2>1. promised' \in Nat /\ promised' <= data_bytes
    BY <1>10, IOFacts
  <2> QED
    BY <1>5, <1>9, <1>11, <2>1, CountPatched
<1>16. AudioIsWhatSucceeded'
  BY <1>9, AudioKept DEF IOInv
<1>17. StreamRight'
  BY <1>4, <1>6, <1>9, <1>11 DEF IOInv, StreamRight, AtCursor, Idle
<1> QED
  BY <1>11, <1>13, <1>14, <1>15, <1>16, <1>17, IdlePending DEF IOInv

\* A step of a call that only flushes: into_inner, and a refresh of a stream.
LEMMA OnlyFlushInv ==
    ASSUME IOInv, doing \in {"update", "finalize", "into_inner"}, io = <<Flush>>,
           doing # "into_inner" => ~cfg.seekable, TakeStep
    PROVE  IOInv'
<1>1. Len(io) = 1 /\ Head(io).op = "flush"
  BY ListOfOne, StepFields
<1>2. TakeFlush
  BY <1>1, StepIs
<1>3. /\ UNCHANGED <<cfg, data_bytes, data_pos, trailing_bytes, pos>>
      /\ IOType' /\ Extents' /\ SizesNest' /\ AudioIsWhatSucceeded'
  BY <1>2, FlushTaken
<1>4. /\ doing' = Idle /\ (adrift' <=> adrift)
      /\ doing = "update" => phase' = phase
      /\ doing # "update" => phase' # "open"
  BY <1>1, <1>2, TakeFacts DEF TakeFlush, Consuming
<1>5. StreamRight'
  BY <1>3, <1>4 DEF IOInv, StreamRight, AtCursor, Idle
<1> QED
  BY <1>3, <1>4, <1>5, IdlePending DEF IOInv

LEMMA RefreshStepInv ==
    ASSUME IOInv, doing \in {"update", "finalize"}, TakeStep
    PROVE  IOInv'
<1>1. RefreshPending
  BY DEF IOInv, Pending
<1>2. CASE ~cfg.seekable
  BY <1>1, <1>2, OnlyFlushInv DEF RefreshPending
<1>3. CASE cfg.seekable
  <2>1. PICK k \in 0 .. Len(Plan) - 1 :
            io = SubSeq(Plan, k + 1, Len(Plan)) /\ Fresh(k - Len(Leading))
    BY <1>1, <1>3 DEF RefreshPending
  <2>2. PICK lead \in {1, 2} : Len(Leading) = lead
    BY PlanIs DEF PlanRight
  <2>3. Len(Plan) = lead + PatchCount + 1 /\ PatchCount \in {1, 4, 6}
    BY <2>2, PlanIs DEF PlanRight
  <2>4. k < lead \/ (k >= lead /\ k < lead + PatchCount) \/ k = lead + PatchCount
    BY <2>3
  <2>5. CASE k < lead
    BY <1>3, <2>1, <2>2, <2>5, LeadingStepInv
  <2>6. CASE k >= lead /\ k < lead + PatchCount
    BY <1>3, <2>1, <2>2, <2>6, PatchStepInv
  <2>7. CASE k = lead + PatchCount
    BY <1>3, <2>1, <2>2, <2>7, ReturnStepInv
  <2> QED
    BY <2>4, <2>5, <2>6, <2>7
<1> QED
  BY <1>2, <1>3

LEMMA IntoInnerStepInv ==
    ASSUME IOInv, doing = "into_inner", TakeStep
    PROVE  IOInv'
BY OnlyFlushInv DEF IOInv, Pending

-----------------------------------------------------------------------------
(* A step that fails.                                                      *)

\* What is about to be written, and where.
LEMMA WritesAtCursor ==
    ASSUME IOInv, doing # Idle, Head(io).op \in {"audio", "tail"}
    PROVE  /\ Head(io).cells \in Seq(Cell) /\ AtCursor(pos)
           /\ Head(io).op = "audio" => trailing_bytes = 0
           /\ Head(io).op = "tail" => data_pos = data_bytes
<1>1. doing \in {"write", "seek", "trim", "chunk", "update"} \cup Consuming
  BY DEF IOInv, IOType
<1>2. phase = "open"
  BY DEF IOInv, Pending
<1>3. CASE doing = "write"
  <2>1. PICK w \in Writes : io = <<Audio(w)>>
    BY <1>3 DEF IOInv, Pending
  <2>2. Head(io).op = "audio" /\ Head(io).cells = w
    BY <2>1, ListOfOne, StepFields
  <2> QED
    BY <1>2, <1>3, <2>2, CellFacts DEF IOInv, Pending, StreamRight
<1>4. CASE doing = "seek"
  <2>1. SeekPending
    BY <1>4 DEF IOInv, Pending
  <2>2. PICK offset \in Nat :
        \/ io = SeekSteps(offset)
        \/ io = FillSteps(offset)
        \/ /\ offset > data_bytes
           /\ pos = cfg.header_len + data_bytes /\ data_pos = data_bytes
           /\ io = <<Audio(Repeat(Zero, offset - data_bytes))>>
    BY <2>1 DEF SeekPending
  <2>3. io # SeekSteps(offset)
    BY StepFields, ListOfOne DEF SeekSteps
  <2>4. io # FillSteps(offset)
    BY StepFields, ListOfTwo DEF FillSteps
  <2> DEFINE cells == Repeat(Zero, offset - data_bytes)
  <2>5. /\ offset > data_bytes /\ io = <<Audio(cells)>>
        /\ pos = cfg.header_len + data_bytes /\ data_pos = data_bytes
    BY <2>2, <2>3, <2>4
  <2>6. cfg.header_len \in Nat /\ data_bytes \in Nat
    BY IOFacts
  <2>7. cells \in Seq(Cell)
    BY <2>5, <2>6, CellFacts
  <2> HIDE DEF cells
  <2>8. Head(io).op = "audio" /\ Head(io).cells = cells
    BY <2>5, ListOfOne, StepFields
  <2>9. trailing_bytes = 0
    BY <2>1 DEF SeekPending
  <2>10. AtCursor(pos)
    BY <2>5, <2>6, <2>9 DEF AtCursor
  <2> QED
    BY <2>7, <2>8, <2>9, <2>10
<1>5. CASE doing = "trim"
  <2>1. TrimPending
    BY <1>5 DEF IOInv, Pending
  <2>2. PICK len, at, cursor :
        /\ len \in Nat
        /\ \/ io = TrimSteps(len)
           \/ io = <<Shorten(len), Seek(at, cursor)>>
           \/ io = <<Seek(at, cursor)>>
    BY <2>1 DEF TrimPending
  <2>3. CASE io = TrimSteps(len)
    <3>1. Head(io) = Flush
      BY <2>3, ListOfThree DEF TrimSteps
    <3> QED
      BY <3>1, StepFields
  <2>4. CASE io = <<Shorten(len), Seek(at, cursor)>>
    <3>1. Head(io) = Shorten(len)
      BY <2>4, ListOfTwo
    <3> QED
      BY <3>1, StepFields
  <2>5. CASE io = <<Seek(at, cursor)>>
    <3>1. Head(io) = Seek(at, cursor)
      BY <2>5, ListOfOne
    <3> QED
      BY <3>1, StepFields
  <2> QED
    BY <2>2, <2>3, <2>4, <2>5
<1>6. CASE doing = "chunk"
  <2>1. PICK c \in Chunks : io = ChunkSteps(c)
    BY <1>6 DEF IOInv, Pending
  <2>2. Head(io) = Behind(<<Zero>>) \/ Head(io) = Behind(ChunkCells(c))
    BY <2>1 DEF ChunkSteps
  <2>3. Head(io).op = "tail" /\ Head(io).cells \in {<<Zero>>, ChunkCells(c)}
    BY <2>2, StepFields
  <2>4. <<Zero>> \in Seq(Cell) /\ ChunkCells(c) \in Seq(Cell)
    BY CellFacts DEF Cell
  <2>5. AtCursor(pos) /\ data_pos = data_bytes
    BY <1>2, <1>6 DEF IOInv, Pending, StreamRight
  <2> QED
    BY <2>3, <2>4, <2>5
<1>7. CASE doing \in {"update", "finalize"}
  <2>1. RefreshPending
    BY <1>7 DEF IOInv, Pending
  <2>2. CASE cfg.seekable
    <3>1. PICK k \in 0 .. Len(Plan) - 1 : io = SubSeq(Plan, k + 1, Len(Plan))
      BY <2>1, <2>2 DEF RefreshPending
    <3>2. Plan \in Seq(PlanSteps)
      BY PlanIs DEF PlanRight
    <3>3. Head(io) = Plan[k + 1] /\ Plan[k + 1] \in PlanSteps
      BY <3>1, <3>2, RestOfList
    <3> QED
      BY <3>3, StepFields DEF PlanSteps, Return
  <2>3. CASE ~cfg.seekable
    BY <2>1, <2>3, ListOfOne, StepFields DEF RefreshPending
  <2> QED
    BY <2>2, <2>3
<1>8. CASE doing = "into_inner"
  <2>1. io = <<Flush>>
    BY <1>8 DEF IOInv, Pending
  <2> QED
    BY <2>1, ListOfOne, StepFields
<1> QED
  BY <1>1, <1>3, <1>4, <1>5, <1>6, <1>7, <1>8 DEF Consuming

\* A failing write leaves the part of its bytes it got out at the cursor, and
\* what it may have overwritten is noted.
LEMMA TornWrite ==
    ASSUME IOInv, AtCursor(pos), NEW part \in Seq(Cell), Emit(part), NEW n \in Nat,
           Len(part) = n,
           UNCHANGED <<data_bytes, data_pos, trailing_bytes, track>>,
           \/ /\ trailing_bytes = 0
              /\ dirty' = dirty \cup ((data_pos + 1 .. data_pos + n) \cap (1 .. data_bytes))
           \/ data_pos = data_bytes /\ dirty' = dirty
    PROVE  /\ body' \in Seq(Cell) /\ Len(body') \in Nat /\ Len(body') >= Len(body)
           /\ pos' \in Nat
           /\ AudioIsWhatSucceeded'
<1> DEFINE at == data_pos + trailing_bytes
<1>1. /\ cfg.header_len \in Nat /\ data_bytes \in Nat /\ data_pos \in Nat
      /\ trailing_bytes \in Nat /\ pos \in Nat
      /\ body \in Seq(Cell) /\ Len(body) \in Nat
      /\ data_pos <= data_bytes /\ data_bytes + trailing_bytes <= Len(body)
  BY IOFacts
<1>2. pos - cfg.header_len = at /\ at \in 0 .. Len(body) /\ data_bytes \in 0 .. Len(body)
  BY <1>1 DEF AtCursor
<1>3. body' = Put(body, at, part) /\ pos' = pos + n
  BY <1>2 DEF Emit
<1>4. body' \in Seq(Cell) /\ Len(body') = Greatest(Len(body), at + n)
  BY <1>1, <1>2, <1>3, PutType
<1>5. Alike(body, track, data_bytes, dirty)
  BY AudioAlike DEF IOInv
<1>6. Alike(body', track, data_bytes, dirty \cup ((at + 1 .. at + n) \cap (1 .. data_bytes)))
  BY <1>1, <1>2, <1>3, <1>5, SameAudioTorn
<1> HIDE DEF at
<1>7. dirty' = dirty \cup ((at + 1 .. at + n) \cap (1 .. data_bytes))
  <2>1. CASE /\ trailing_bytes = 0
             /\ dirty' = dirty \cup ((data_pos + 1 .. data_pos + n) \cap (1 .. data_bytes))
    <3>1. at = data_pos
      BY <1>1, <2>1 DEF at
    <3> QED
      BY <2>1, <3>1
  <2>2. CASE data_pos = data_bytes /\ dirty' = dirty
    <3>1. at \in Nat /\ at >= data_bytes
      BY <1>1, <2>2 DEF at
    <3>2. (at + 1 .. at + n) \cap (1 .. data_bytes) = {}
      BY <1>1, <3>1
    <3> QED
      BY <2>2, <3>2
  <2> QED
    BY <2>1, <2>2
<1>8. Alike(body', track', data_bytes', dirty')
  BY <1>6, <1>7
<1>9. AudioIsWhatSucceeded'
  BY <1>8 DEF AudioIsWhatSucceeded, Alike
<1>10. Len(body') \in Nat /\ Len(body') >= Len(body) /\ pos' \in Nat
  BY <1>1, <1>2, <1>3, <1>4 DEF Greatest
<1> QED
  BY <1>4, <1>9, <1>10

LEMMA FailInv ==
    ASSUME IOInv, Fail
    PROVE  IOInv'
<1>1. /\ doing # Idle /\ doing' = Idle /\ adrift' = TRUE
      /\ phase' = IF doing \in Consuming THEN "lost" ELSE phase
      /\ UNCHANGED <<cfg, data_bytes, data_pos, trailing_bytes, hdr>>
      /\ UNCHANGED <<track, promised, trimmed>>
  BY DEF Fail, belief
<1>2. /\ body' \in Seq(Cell) /\ Len(body') \in Nat /\ Len(body') >= Len(body)
      /\ pos' \in Nat
      /\ AudioIsWhatSucceeded'
  <2>1. CASE Head(io).op \in {"audio", "tail"}
    <3> DEFINE cells == Head(io).cells
    <3>1. /\ cells \in Seq(Cell) /\ AtCursor(pos)
          /\ Head(io).op = "audio" => trailing_bytes = 0
          /\ Head(io).op = "tail" => data_pos = data_bytes
      BY <1>1, <2>1, WritesAtCursor
    <3>2. PICK k \in 0 .. Least(MaxTorn, Len(cells) - 1) :
            /\ Emit(SubSeq(cells, 1, k))
            /\ dirty' = IF Head(io).op = "tail" THEN dirty
                        ELSE dirty \cup
                             ((data_pos + 1 .. data_pos + k) \cap (1 .. data_bytes))
      BY <2>1 DEF Fail
    <3> HIDE DEF cells
    <3>3. k \in Nat /\ k <= Len(cells)
      <4>1. Len(cells) \in Nat
        BY <3>1
      <4> QED
        BY <3>2, <4>1, MaxTornAssumption DEF Least
    <3> DEFINE part == SubSeq(cells, 1, k)
    <3>4. part \in Seq(Cell) /\ Len(part) = k
      BY <3>1, <3>3
    <3>5. Emit(part)
      BY <3>2
    <3> HIDE DEF part
    <3>6. \/ /\ trailing_bytes = 0
             /\ dirty' = dirty \cup ((data_pos + 1 .. data_pos + k) \cap (1 .. data_bytes))
          \/ data_pos = data_bytes /\ dirty' = dirty
      BY <2>1, <3>1, <3>2
    <3> QED
      BY <1>1, <3>1, <3>3, <3>4, <3>5, <3>6, TornWrite
  <2>2. CASE Head(io).op \notin {"audio", "tail"}
    <3>1. UNCHANGED <<pos, body, dirty>>
      BY <2>2 DEF Fail
    <3>2. body \in Seq(Cell) /\ Len(body) \in Nat /\ Len(body) >= Len(body) /\ pos \in Nat
      BY IOFacts
    <3> QED
      BY <1>1, <3>1, <3>2, AudioKept DEF IOInv
  <2> QED
    BY <2>1, <2>2
<1>3. TypeOK'
  BY <1>1, <1>2 DEF IOInv, IOType, TypeOK, Cell
<1>4. IOType'
  BY <1>1, <1>3 DEF IOInv, IOType
<1>5. Extents'
  <2>1. data_bytes + trailing_bytes <= Len(body')
    BY <1>2, IOFacts
  <2> QED
    BY <1>1, <2>1 DEF IOInv, Extents
<1>6. SizesNest'
  <2>1. data_bytes' \in Nat /\ data_bytes' >= data_bytes
    BY <1>1, IOFacts
  <2> QED
    BY <1>1, <1>2, <2>1, SizesKept
<1>7. StreamRight'
  BY <1>1 DEF StreamRight
<1> QED
  BY <1>1, <1>2, <1>4, <1>5, <1>6, <1>7, IdlePending DEF IOInv

-----------------------------------------------------------------------------
(* The properties.                                                         *)

\* A refresh waits while nothing happens.
LEMMA RefreshKept ==
    ASSUME RefreshPending, UNCHANGED <<io, doing, settled>>,
           UNCHANGED <<cfg, data_bytes, data_pos, trailing_bytes, body, hdr>>
    PROVE  RefreshPending'
<1>1. CASE cfg.seekable
  <2>1. PICK k \in 0 .. Len(Plan) - 1 :
            io = SubSeq(Plan, k + 1, Len(Plan)) /\ Fresh(k - Len(Leading))
    BY <1>1 DEF RefreshPending
  <2>2. PICK lead \in {1, 2} : Len(Leading) = lead
    BY PlanIs DEF PlanRight
  <2>3. Plan' = Plan /\ Len(Leading)' = lead
    BY <2>2, PlanKeeps
  <2>4. /\ SizesFit' = SizesFit /\ RiffSize' = RiffSize /\ PatchesCount' = PatchesCount
        /\ PatchesCount => PatchedCount' = PatchedCount
    BY PatchesKeep
  <2>5. Fresh(k - lead)'
    BY <2>1, <2>2, <2>4 DEF Fresh
  <2> QED
    BY <1>1, <2>1, <2>3, <2>5 DEF RefreshPending
<1>2. CASE ~cfg.seekable
  BY <1>2 DEF RefreshPending, Flush
<1> QED
  BY <1>1, <1>2

LEMMA IONextInv ==
    ASSUME IOInv, [IONext]_iovars
    PROVE  IOInv'
<1>1. CASE StartWrite
  BY <1>1, StartWriteInv
<1>2. CASE StartSeek
  BY <1>2, StartSeekInv
<1>3. CASE StartTrim /\ ~UNCHANGED iovars
  BY <1>3, StartTrimInv
<1>4. CASE StartChunk
  BY <1>4, StartChunkInv
<1>5. CASE StartUpdate
  BY <1>5, StartUpdateInv
<1>6. CASE StartFinalize
  BY <1>6, StartFinalizeInv
<1>7. CASE StartIntoInner
  BY <1>7, StartIntoInnerInv
<1>8. CASE TakeStep
  <2>1. doing \in {"write", "seek", "trim", "chunk", "update", "finalize", "into_inner"}
    BY <1>8, StepIs DEF IOInv, IOType, Consuming
  <2> QED
    BY <1>8, <2>1, WriteStepInv, SeekStepInv, TrimStepInv, ChunkStepInv,
       RefreshStepInv, IntoInnerStepInv
<1>9. CASE Fail
  BY <1>9, FailInv
<1>10. CASE UNCHANGED iovars
  <2>1. /\ UNCHANGED <<cfg, phase, data_bytes, data_pos, trailing_bytes, pos, body, hdr>>
        /\ UNCHANGED <<doing, io, adrift, settled>>
        /\ UNCHANGED <<track, dirty, promised, trimmed>>
    BY <1>10 DEF iovars, vars, history
  <2>2. IOType'
    BY <2>1 DEF IOInv, IOType, TypeOK
  <2>3. Extents'
    BY <2>1 DEF IOInv, Extents
  <2>4. Pending'
    <3>1. SeekPending => SeekPending'
      BY <2>1 DEF SeekPending, SeekSteps, FillSteps
    <3>2. TrimPending => TrimPending'
      BY <2>1 DEF TrimPending, TrimSteps, Least
    <3>3. ASSUME NEW c PROVE ChunkSteps(c)' = ChunkSteps(c)
      BY <2>1 DEF ChunkSteps, PadBeforeTail
    <3>4. RefreshPending => RefreshPending'
      BY <2>1, RefreshKept
    <3> QED
      BY <2>1, <3>1, <3>2, <3>3, <3>4 DEF IOInv, Pending
  <2>5. StreamRight'
    BY <2>1 DEF IOInv, StreamRight, AtCursor
  <2>6. SizesNest'
    BY <2>1, IOFacts, SizesKept
  <2>7. AudioIsWhatSucceeded'
    BY <2>1, AudioKept DEF IOInv
  <2> QED
    BY <2>2, <2>3, <2>4, <2>5, <2>6, <2>7 DEF IOInv
<1> QED
  BY <1>1, <1>2, <1>3, <1>4, <1>5, <1>6, <1>7, <1>8, <1>9, <1>10
     DEF IONext, TakeStep

\* Whatever fails, and wherever the process is killed, IOInv holds.
THEOREM IOInvariance == IOSpec => []IOInv
<1>1. IOInit => IOInv
  BY IOInitInv
<1>2. IOInv /\ [IONext]_iovars => IOInv'
  BY IONextInv
<1> QED
  BY <1>1, <1>2, PTL DEF IOSpec

\* Wherever a failed call left the stream, after the next seek or trim that
\* succeeds it is where the writer believes it to be.
THEOREM SeeksPutTheStreamRight == IOSpec => []SeekPutsTheStreamRight
<1>1. IOInv => SeekPutsTheStreamRight
  BY DEF IOInv, StreamRight, AtCursor, SeekPutsTheStreamRight
<1> QED
  BY <1>1, IOInvariance, PTL

\* A file left behind by a kill at any moment has sizes that nest, and the audio
\* the last refresh described is described still, unless it was trimmed since.
THEOREM KilledFilesConsistent == IOSpec => []KilledFilesAreConsistent
<1>1. IOInv => KilledFilesAreConsistent
  BY DEF IOInv, SizesNest, KilledFilesAreConsistent
<1> QED
  BY <1>1, IOInvariance, PTL

\* The file's audio is what the successful calls made of it.
THEOREM AudioWhatSucceeded == IOSpec => []AudioIsWhatSucceeded
<1>1. IOInv => AudioIsWhatSucceeded
  BY DEF IOInv
<1> QED
  BY <1>1, IOInvariance, PTL

-----------------------------------------------------------------------------
(* Calls that do not fail.                                                 *)

\* The call has changed nothing yet.
Untouched ==
    /\ settled.phase = phase
    /\ settled.data_bytes = data_bytes
    /\ settled.data_pos = data_pos
    /\ settled.trailing_bytes = trailing_bytes
    /\ settled.pos = pos
    /\ settled.body = body
    /\ settled.hdr = hdr

\* A write is one step.
WriteBegun ==
    /\ Untouched
    /\ EnsureDataOpen
    /\ \E w \in Writes :
        /\ FitsCapacity(Len(w))
        /\ data_pos + Len(w) <= MaxData
        /\ io = <<Audio(w)>>

\* A seek has moved the stream and the cursor, to the end of the audio, at most.
SeekBegun ==
    /\ cfg.can_seek /\ EnsureDataOpen /\ cfg.frame_bytes # 0
    /\ settled.phase = phase
    /\ settled.data_bytes = data_bytes
    /\ settled.trailing_bytes = trailing_bytes
    /\ settled.body = body
    /\ settled.hdr = hdr
    /\ \E frame \in 0 .. MaxFrame :
        LET offset == cfg.frame_bytes * frame
        IN  \/ offset <= data_bytes /\ io = SeekSteps(offset)
            \/ /\ offset > data_bytes /\ FitsExtent(offset) /\ offset <= MaxData
               /\ \/ io = FillSteps(offset)
                  \/ /\ pos = cfg.header_len + data_bytes /\ data_pos = data_bytes
                     /\ io = <<Audio(Repeat(Zero, offset - data_bytes))>>

\* A trim has shortened the file or not yet.
TrimBegun ==
    /\ cfg.can_seek /\ cfg.seekable /\ EnsureDataOpen /\ cfg.frame_bytes # 0
    /\ settled.phase = phase
    /\ settled.trailing_bytes = trailing_bytes
    /\ settled.hdr = hdr
    /\ \E frame \in (0 .. MaxFrame) \cup {FramesAt(settled.data_pos)} :
        LET len == cfg.frame_bytes * frame
        IN  /\ len < settled.data_bytes
            /\ \/ /\ settled.data_bytes = data_bytes
                  /\ settled.data_pos = data_pos
                  /\ settled.body = body
                  /\ \/ io = TrimSteps(len)
                     \/ io = <<Shorten(len), Seek(cfg.header_len + Least(data_pos, len),
                                                  Least(data_pos, len))>>
               \/ /\ data_bytes = len
                  /\ data_pos = Least(settled.data_pos, len)
                  /\ body = Cut(settled.body, len)
                  /\ io = <<Seek(cfg.header_len + data_pos, data_pos)>>

\* Of a chunk, the pad byte has been written or not yet.
ChunkBegun ==
    /\ settled.phase = phase
    /\ settled.data_bytes = data_bytes
    /\ settled.data_pos = data_pos
    /\ settled.hdr = hdr
    /\ \E c \in Chunks :
        /\ Suppliable(c, U32Max)
        /\ \/ /\ Untouched
              /\ trailing_bytes + PadBeforeTail + ChunkLen(c.size) <= MaxTail
              /\ io = ChunkSteps(c)
           \/ /\ settled.trailing_bytes = 0 /\ trailing_bytes = 1
              /\ PadOf(data_bytes) = 1
              /\ 1 + ChunkLen(c.size) <= MaxTail
              /\ settled.pos = cfg.header_len + data_bytes
              /\ pos = settled.pos + 1
              /\ settled.body \in Seq(Cell) /\ data_bytes <= Len(settled.body)
              /\ body = Put(settled.body, data_bytes, <<Zero>>)
              /\ io = <<Behind(ChunkCells(c))>>

\* A refresh may have moved the stream and patched sizes.  The sizes it has
\* patched are the concern of RefreshPending; a count it does not patch is kept.
RefreshBegun ==
    /\ cfg.can_seek
    /\ settled.phase = phase
    /\ settled.data_bytes = data_bytes
    /\ settled.data_pos = data_pos
    /\ settled.trailing_bytes = trailing_bytes
    /\ settled.body = body
    /\ ~PatchesCount => settled.hdr.count = hdr.count
    /\ ~cfg.seekable => Untouched

Begun ==
    /\ doing = "write" => WriteBegun
    /\ doing = "seek" => SeekBegun
    /\ doing = "trim" => TrimBegun
    /\ doing = "chunk" => ChunkBegun
    /\ doing \in {"update", "finalize"} => RefreshBegun
    /\ doing = "into_inner" => Untouched

CallInv == IOInv /\ (~failed /\ doing # Idle => Begun)

\* A step of the calls is one of WavWriter, or changes nothing there.
Maps == Calls!Next \/ UNCHANGED Calls!vars

-----------------------------------------------------------------------------
(* Taking a step, one lemma per call.                                      *)

\* The operators WavWriter takes from ByteFile are the same.
LEMMA CallOperators ==
    /\ \A s, at, w : Calls!Put(s, at, w) = Put(s, at, w)
    /\ \A s, n : Calls!Cut(s, n) = Cut(s, n)
    /\ \A x, n : Calls!Repeat(x, n) = Repeat(x, n)
    /\ \A m, n : Calls!Least(m, n) = Least(m, n)
    /\ \A m, n : Calls!Greatest(m, n) = Greatest(m, n)
    /\ \A m, n : Calls!SatSub(m, n) = SatSub(m, n)
    /\ \A n : Calls!PadOf(n) = PadOf(n)
    /\ \A n : Calls!ChunkLen(n) = ChunkLen(n)
    /\ \A c : Calls!ChunkCells(c) = ChunkCells(c)
    /\ \A c, n : Calls!Suppliable(c, n) <=> Suppliable(c, n)
BY DEF Calls!Put, Put, Calls!Greatest, Greatest, Calls!Cut, Cut, Calls!Repeat, Repeat,
   Calls!Least, Least, Calls!SatSub, SatSub, Calls!PadOf, PadOf, Calls!ChunkCells,
   ChunkCells, Calls!ChunkLen, ChunkLen, Calls!ChunkHeaderSize, ChunkHeaderSize,
   Calls!Suppliable, Suppliable, Calls!ReservedIds, ReservedIds

\* While a call is under way, the writer is where it was.
LEMMA StartMaps ==
    ASSUME NEW call, NEW steps, Start(call, steps), call # Idle
    PROVE  /\ Untouched' /\ doing' = call /\ io' = steps
           /\ UNCHANGED <<cfg, phase, data_bytes, data_pos, trailing_bytes, pos, body, hdr>>
           /\ UNCHANGED <<failed, adrift, track, dirty, promised, trimmed>>
           /\ UNCHANGED Calls!vars
<1>1. /\ doing = Idle /\ doing' = call /\ io' = steps
      /\ UNCHANGED <<cfg, phase, data_bytes, data_pos, trailing_bytes, pos, body, hdr>>
      /\ UNCHANGED <<failed, adrift, track, dirty, promised, trimmed>>
  BY DEF Start, vars, history
<1>2. Untouched'
  BY <1>1 DEF Start, Untouched
<1>3. UNCHANGED Calls!vars
  BY <1>1, <1>2 DEF Calls!vars, Before, Untouched
<1> QED
  BY <1>1, <1>2, <1>3

LEMMA GoesOnMaps ==
    ASSUME NEW op, Take(op), Len(io) # 1
    PROVE  UNCHANGED Calls!vars
<1>1. doing # Idle /\ UNCHANGED <<cfg, doing, settled>>
  BY TakeFacts
<1> QED
  BY <1>1 DEF Calls!vars, Before

\* The last step of a write is WriteAudio.
LEMMA WriteMaps ==
    ASSUME CallInv, ~failed, doing = "write", TakeStep
    PROVE  doing' = Idle /\ Calls!Next
<1>1. IOInv /\ WriteBegun /\ Untouched
  BY DEF CallInv, Begun, WriteBegun, Idle
<1>2. PICK w \in Writes : /\ FitsCapacity(Len(w)) /\ data_pos + Len(w) <= MaxData
                          /\ io = <<Audio(w)>>
  BY <1>1 DEF WriteBegun
<1>3. Len(io) = 1 /\ Head(io).op = "audio" /\ Head(io).cells = w
  BY <1>2, ListOfOne, StepFields
<1>4. TakeAudio
  BY <1>3, StepIs
<1>5. doing' = Idle /\ phase' = phase /\ cfg' = cfg /\ doing # Idle /\ phase = "open"
  BY <1>1, <1>3, <1>4, TakeFacts DEF TakeAudio, Consuming, IOInv, Pending, Idle
<1>6. Emit(w) /\ Advance(Len(w)) /\ trailing_bytes' = trailing_bytes /\ hdr' = hdr
  BY <1>3, <1>4 DEF TakeAudio
<1>7. Calls!FitsCapacity(Len(w)) /\ Calls!EnsureDataOpen
  BY <1>1, <1>2, <1>5, CallOperators
     DEF WriteBegun, Untouched, Before, Calls!FitsCapacity, FitsCapacity, Calls!FitsExtent,
     FitsExtent, Calls!Limited, Limited, Calls!EnsureDataOpen,
     EnsureDataOpen
<1>8. Calls!Emit(w) /\ Calls!Advance(Len(w))
  BY <1>1, <1>5, <1>6, CallOperators
     DEF Untouched, Before, Calls!Emit, Emit, Calls!Advance, Advance
<1>9. Calls!WriteAudio(w)
  BY <1>1, <1>2, <1>5, <1>6, <1>7, <1>8 DEF Calls!WriteAudio, Untouched, Before
<1> QED
  BY <1>5, <1>9 DEF Calls!Next, Calls!AudioStep, Calls!WriteRawInterleaved

\* The last step of a seek is SeekToFrame, which fills a gap from the end of the
\* audio.
LEMMA SeekMaps ==
    ASSUME CallInv, ~failed, doing = "seek", TakeStep
    PROVE  \/ UNCHANGED Calls!vars /\ Begun' /\ ~failed'
           \/ doing' = Idle /\ Calls!Next
<1>1. IOInv /\ SeekBegun /\ doing # Idle /\ phase = "open"
  BY DEF CallInv, Begun, IOInv, Pending, Idle
<1>2. PICK frame, offset :
        /\ frame \in 0 .. MaxFrame
        /\ offset = cfg.frame_bytes * frame
        /\ \/ offset <= data_bytes /\ io = SeekSteps(offset)
           \/ /\ offset > data_bytes /\ FitsExtent(offset) /\ offset <= MaxData
              /\ \/ io = FillSteps(offset)
                 \/ /\ pos = cfg.header_len + data_bytes /\ data_pos = data_bytes
                    /\ io = <<Audio(Repeat(Zero, offset - data_bytes))>>
  BY <1>1 DEF SeekBegun
<1>3. /\ cfg.header_len \in Nat /\ data_bytes \in Nat /\ offset \in Nat
      /\ cfg.frame_bytes \in Nat
  <2>1. cfg \in Configs /\ data_bytes \in Nat
    BY <1>1, IOFacts
  <2>2. cfg.header_len \in Nat /\ cfg.frame_bytes \in Nat /\ frame \in Nat
    BY <1>2, <2>1, ConfigFacts, BoundsAssumption
  <2>3. cfg.frame_bytes * frame \in Nat
    BY <2>2
  <2>4. offset \in Nat
    BY <1>2, <2>3
  <2> QED
    BY <2>1, <2>2, <2>4
<1>4. /\ Calls!EnsureDataOpen
      /\ Calls!FitsExtent(offset) <=> FitsExtent(offset)
      /\ Before("phase", phase) = "open"
  BY <1>1, CallOperators DEF SeekBegun, Before, Calls!EnsureDataOpen, EnsureDataOpen,
     Calls!FitsExtent, FitsExtent, Calls!Limited, Limited
<1>5. ASSUME doing' = Idle, Calls!SeekBack(offset) \/ Calls!SeekForward(offset)
      PROVE  Calls!Next
  <2>1. Calls!SeekToFrame(frame)
    BY <1>1, <1>2, <1>4, <1>5 DEF Calls!SeekToFrame, SeekBegun
  <2> QED
    BY <1>2, <2>1 DEF Calls!Next, Calls!AudioStep
<1>6. CASE offset <= data_bytes /\ io = SeekSteps(offset)
  <2>1. /\ Len(io) = 1 /\ Head(io) = Seek(cfg.header_len + offset, offset)
        /\ Head(io).op = "seek"
    BY <1>6, ListOfOne, StepFields DEF SeekSteps
  <2>2. TakeSeek
    BY <2>1, StepIs
  <2>3. /\ pos' = cfg.header_len + offset /\ data_pos' = offset
        /\ UNCHANGED <<data_bytes, trailing_bytes, body, hdr>>
    BY <2>1, <2>2, StepFields DEF TakeSeek
  <2>4. doing' = Idle /\ phase' = phase /\ cfg' = cfg
    BY <2>1, <2>2, TakeFacts DEF TakeSeek, Consuming
  <2>5. Calls!SeekBack(offset)
    BY <1>1, <1>6, <2>3, <2>4 DEF Calls!SeekBack, Before, SeekBegun
  <2> QED
    BY <1>5, <2>4, <2>5
<1>7. CASE offset > data_bytes /\ FitsExtent(offset) /\ offset <= MaxData
           /\ io = FillSteps(offset)
  <2> DEFINE fill == Audio(Repeat(Zero, offset - data_bytes))
  <2>1. /\ Len(io) = 2 /\ Head(io) = Seek(cfg.header_len + data_bytes, data_bytes)
        /\ SubSeq(io, 2, Len(io)) = <<fill>>
    <3> HIDE DEF fill
    <3> QED
      BY <1>7, ListOfTwo DEF FillSteps, fill
  <2>2. Head(io).op = "seek"
    BY <2>1, StepFields
  <2>3. TakeSeek
    BY <2>2, StepIs
  <2>4. /\ pos' = cfg.header_len + data_bytes /\ data_pos' = data_bytes
        /\ UNCHANGED <<data_bytes, trailing_bytes, body, hdr>>
    BY <2>1, <2>3, StepFields DEF TakeSeek
  <2> HIDE DEF fill
  <2>5. /\ doing' = "seek" /\ phase' = phase /\ io' = <<fill>> /\ cfg' = cfg
        /\ settled' = settled /\ failed' = failed /\ UNCHANGED Calls!vars
    <3>1. Take("seek") /\ Len(io) # 1
      BY <2>1, <2>3 DEF TakeSeek
    <3> QED
      BY <2>1, <3>1, TakeFacts, GoesOnMaps
  <2>6. fill' = fill
    BY <2>4 DEF fill, Audio
  <2>7. /\ offset > data_bytes' /\ FitsExtent(offset)' /\ offset <= MaxData
        /\ pos' = cfg'.header_len + data_bytes' /\ data_pos' = data_bytes'
        /\ io' = <<Audio(Repeat(Zero, offset - data_bytes))>>'
    BY <1>7, <2>4, <2>5, <2>6 DEF fill, FitsExtent, Limited
  <2>8. SeekBegun'
    BY <1>1, <1>2, <2>4, <2>5, <2>7 DEF SeekBegun, EnsureDataOpen
  <2> QED
    BY <2>5, <2>8 DEF Begun
<1>8. CASE /\ offset > data_bytes /\ FitsExtent(offset) /\ offset <= MaxData
           /\ pos = cfg.header_len + data_bytes /\ data_pos = data_bytes
           /\ io = <<Audio(Repeat(Zero, offset - data_bytes))>>
  <2> DEFINE cells == Repeat(Zero, offset - data_bytes)
  <2>1. Len(cells) = offset - data_bytes
    <3>1. offset - data_bytes \in Nat
      BY <1>3, <1>8
    <3> QED
      BY <3>1, CellFacts
  <2> HIDE DEF cells
  <2>2. /\ Len(io) = 1 /\ Head(io).op = "audio" /\ Head(io).cells = cells
    BY <1>8, ListOfOne, StepFields DEF cells
  <2>3. TakeAudio
    BY <2>2, StepIs
  <2>4. doing' = Idle /\ phase' = phase /\ cfg' = cfg
    BY <2>2, <2>3, TakeFacts DEF TakeAudio, Consuming
  <2>5. /\ Emit(cells) /\ Advance(Len(cells))
        /\ UNCHANGED <<trailing_bytes, hdr>>
    BY <2>2, <2>3 DEF TakeAudio
  <2>6. /\ pos' = cfg.header_len + offset /\ data_pos' = offset /\ data_bytes' = offset
        /\ body' = Put(body, data_bytes, cells)
    <3>1. pos - cfg.header_len = data_bytes
      BY <1>3, <1>8
    <3>2. body' = Put(body, data_bytes, cells) /\ pos' = pos + Len(cells)
      BY <2>5, <3>1 DEF Emit
    <3>3. /\ data_pos' = data_pos + Len(cells)
          /\ data_bytes' = Greatest(data_bytes, data_pos + Len(cells))
      BY <2>5 DEF Advance
    <3>4. offset > data_bytes /\ pos = cfg.header_len + data_bytes /\ data_pos = data_bytes
      BY <1>8
    <3>5. /\ pos + Len(cells) = cfg.header_len + offset
          /\ data_pos + Len(cells) = offset /\ Greatest(data_bytes, offset) = offset
      BY <1>3, <2>1, <3>4 DEF Greatest
    <3> QED
      BY <3>2, <3>3, <3>5
  <2>7. Calls!SeekForward(offset)
    BY <1>1, <1>4, <1>8, <2>4, <2>5, <2>6, CallOperators
       DEF Calls!SeekForward, Before, SeekBegun, cells
  <2> QED
    BY <1>5, <2>4, <2>7
<1> QED
  BY <1>2, <1>6, <1>7, <1>8

\* The last step of a trim is TruncateToFrame, or Truncate.
LEMMA TrimMaps ==
    ASSUME CallInv, ~failed, doing = "trim", TakeStep
    PROVE  \/ UNCHANGED Calls!vars /\ Begun' /\ ~failed'
           \/ doing' = Idle /\ Calls!Next
<1>1. IOInv /\ TrimBegun /\ doing # Idle /\ phase = "open"
  BY DEF CallInv, Begun, IOInv, Pending, Idle
<1>2. PICK frame, len :
        /\ frame \in (0 .. MaxFrame) \cup {FramesAt(settled.data_pos)}
        /\ len = cfg.frame_bytes * frame
        /\ len < settled.data_bytes
        /\ \/ /\ settled.data_bytes = data_bytes
              /\ settled.data_pos = data_pos
              /\ settled.body = body
              /\ \/ io = TrimSteps(len)
                 \/ io = <<Shorten(len), Seek(cfg.header_len + Least(data_pos, len),
                                              Least(data_pos, len))>>
           \/ /\ data_bytes = len
              /\ data_pos = Least(settled.data_pos, len)
              /\ body = Cut(settled.body, len)
              /\ io = <<Seek(cfg.header_len + data_pos, data_pos)>>
  BY <1>1 DEF TrimBegun
<1> DEFINE back == Seek(cfg.header_len + Least(data_pos, len), Least(data_pos, len))
           cut == Shorten(len)
<1>3. CASE /\ settled.data_bytes = data_bytes
           /\ settled.data_pos = data_pos
           /\ settled.body = body
           /\ io = TrimSteps(len)
  <2> HIDE DEF back, cut
  <2>1. io = <<Flush, cut, back>>
    BY <1>3 DEF TrimSteps, cut, back
  <2>2. Len(io) = 3 /\ Head(io) = Flush /\ SubSeq(io, 2, Len(io)) = <<cut, back>>
    BY <2>1, ListOfThree
  <2>3. TakeFlush
    BY <2>2, StepIs, StepFields
  <2>4. PICK op : Take(op)
    BY <2>3 DEF TakeFlush
  <2>5. UNCHANGED <<data_bytes, data_pos, trailing_bytes, pos, body, hdr>>
    BY <2>3 DEF TakeFlush, belief, file
  <2>6. /\ doing' = doing /\ phase' = phase /\ io' = <<cut, back>> /\ cfg' = cfg
        /\ settled' = settled /\ failed' = failed /\ UNCHANGED Calls!vars
    <3>1. Len(io) # 1
      BY <2>2
    <3> QED
      BY <2>2, <2>4, <3>1, TakeFacts, GoesOnMaps
  <2>7. io' = <<Shorten(len), Seek(cfg.header_len + Least(data_pos, len),
                                   Least(data_pos, len))>>'
    BY <2>5, <2>6 DEF cut, back, Shorten, Seek, Least
  <2>8. FramesAt(settled.data_pos)' = FramesAt(settled.data_pos)
    BY <2>6 DEF FramesAt
  <2>9. TrimBegun'
    BY <1>1, <1>2, <1>3, <2>5, <2>6, <2>7, <2>8 DEF TrimBegun, EnsureDataOpen
  <2> QED
    BY <2>6, <2>9 DEF Begun
<1>4. CASE /\ settled.data_bytes = data_bytes
           /\ settled.data_pos = data_pos
           /\ settled.body = body
           /\ io = <<cut, back>>
  <2>1. cut.op = "shorten" /\ cut.len = len
    BY StepFields
  <2> HIDE DEF back, cut
  <2>2. Len(io) = 2 /\ Head(io) = cut /\ SubSeq(io, 2, Len(io)) = <<back>>
    BY <1>4, ListOfTwo
  <2>3. TakeShorten
    BY <2>1, <2>2, StepIs
  <2>4. Take("shorten")
    BY <2>3 DEF TakeShorten
  <2>5. /\ body' = Cut(body, len) /\ data_bytes' = len
        /\ data_pos' = Least(data_pos, len)
        /\ UNCHANGED <<trailing_bytes, pos, hdr>>
    BY <2>1, <2>2, <2>3 DEF TakeShorten
  <2>6. /\ doing' = doing /\ phase' = phase /\ io' = <<back>> /\ cfg' = cfg
        /\ settled' = settled /\ failed' = failed /\ UNCHANGED Calls!vars
    <3>1. Len(io) # 1
      BY <2>2
    <3> QED
      BY <2>2, <2>4, <3>1, TakeFacts, GoesOnMaps
  <2>7. io' = <<Seek(cfg.header_len + data_pos, data_pos)>>'
    BY <2>5, <2>6 DEF back, Seek
  <2>8. FramesAt(settled.data_pos)' = FramesAt(settled.data_pos)
    BY <2>6 DEF FramesAt
  <2>9. TrimBegun'
    BY <1>1, <1>2, <1>4, <2>5, <2>6, <2>7, <2>8 DEF TrimBegun, EnsureDataOpen
  <2> QED
    BY <2>6, <2>9 DEF Begun
<1>5. CASE /\ data_bytes = len
           /\ data_pos = Least(settled.data_pos, len)
           /\ body = Cut(settled.body, len)
           /\ io = <<Seek(cfg.header_len + data_pos, data_pos)>>
  <2>1. /\ Len(io) = 1 /\ Head(io).op = "seek"
        /\ Head(io).to = cfg.header_len + data_pos /\ Head(io).cursor = data_pos
    BY <1>5, ListOfOne, StepFields
  <2>2. TakeSeek
    BY <2>1, StepIs
  <2>3. /\ pos' = cfg.header_len + data_pos /\ data_pos' = data_pos
        /\ UNCHANGED <<data_bytes, trailing_bytes, body, hdr>>
    BY <2>1, <2>2 DEF TakeSeek
  <2>4. doing' = Idle /\ phase' = phase /\ cfg' = cfg
    BY <2>1, <2>2, TakeFacts DEF TakeSeek, Consuming
  <2>5. Calls!TruncateToFrame(frame)
    BY <1>1, <1>2, <1>5, <2>3, <2>4, CallOperators
       DEF Calls!TruncateToFrame, Before, TrimBegun, Calls!EnsureDataOpen, EnsureDataOpen
  <2>6. FramesAt(settled.data_pos) = Calls!Position
    BY <1>1 DEF Calls!Position, Calls!FramesAt, FramesAt, Before
  <2>7. Calls!Truncate \/ \E f \in 0 .. MaxFrame : Calls!TruncateToFrame(f)
    BY <1>2, <2>5, <2>6 DEF Calls!Truncate
  <2> QED
    BY <2>4, <2>7 DEF Calls!Next, Calls!AudioStep
<1> QED
  BY <1>2, <1>3, <1>4, <1>5

\* A pad byte and what is written behind it, written at once.
LEMMA PadThenCells ==
    ASSUME NEW S, NEW b \in Seq(S), NEW w \in Seq(S), NEW x \in S, NEW at \in 0 .. Len(b)
    PROVE  Put(Put(b, at, <<x>>), at + 1, w) = Put(b, at, <<x>> \o w)
<1> DEFINE pad == <<x>>
           both == pad \o w
           one == Put(b, at, pad)
           l == Put(one, at + 1, w)
           r == Put(b, at, both)
           n == Len(w)
<1>1. pad \in Seq(S) /\ Len(pad) = 1 /\ pad[1] = x
  OBVIOUS
<1> HIDE DEF pad, n
<1>2. n \in Nat /\ n = Len(w)
  BY DEF n
<1>3. both \in Seq(S) /\ IsJoined(both, pad, w)
  BY <1>1, Joined
<1> HIDE DEF both
<1>4. Len(both) = 1 + n /\ both[1] = x /\ \A j \in 1 .. n : both[1 + j] = w[j]
  BY <1>1, <1>2, <1>3 DEF IsJoined
<1>5. one \in Seq(S) /\ Len(one) = Greatest(Len(b), at + 1)
  BY <1>1, PutType
<1>6. \A i \in 1 .. Len(one) : one[i] = IF at < i /\ i <= at + 1 THEN pad[i - at] ELSE b[i]
  BY <1>1, <1>5 DEF Put
<1> HIDE DEF one
<1>7. at + 1 \in 0 .. Len(one) /\ Len(b) \in Nat /\ Len(one) \in Nat
  BY <1>5 DEF Greatest
<1>8. l \in Seq(S) /\ Len(l) = Greatest(Len(one), at + 1 + n)
  BY <1>2, <1>5, <1>7, PutType
<1>9. r \in Seq(S) /\ Len(r) = Greatest(Len(b), at + (1 + n))
  BY <1>2, <1>3, <1>4, PutType
<1>10. Len(l) = Len(r) /\ Len(l) \in Nat
  BY <1>2, <1>4, <1>5, <1>7, <1>8, <1>9 DEF Greatest
<1>11. ASSUME NEW i \in 1 .. Len(l) PROVE l[i] = r[i]
  <2>1. l[i] = IF at + 1 < i /\ i <= at + 1 + n THEN w[i - (at + 1)] ELSE one[i]
    BY <1>2, <1>8 DEF Put
  <2>2. r[i] = IF at < i /\ i <= at + (1 + n) THEN both[i - at] ELSE b[i]
    BY <1>2, <1>9, <1>10, <1>4 DEF Put
  <2>3. CASE i <= at
    <3>1. i \in 1 .. Len(one)
      BY <1>7, <2>3
    <3> QED
      BY <1>2, <1>6, <1>7, <2>1, <2>2, <2>3, <3>1
  <2>4. CASE i = at + 1
    <3>1. i \in 1 .. Len(one) /\ i - at = 1
      BY <1>7, <2>4
    <3>2. l[i] = pad[1]
      BY <1>6, <1>7, <2>1, <2>4, <3>1
    <3>3. r[i] = both[1]
      BY <1>2, <1>4, <2>2, <2>4, <3>1
    <3> QED
      BY <1>1, <1>4, <3>2, <3>3
  <2>5. CASE at + 1 < i /\ i <= at + 1 + n
    <3>1. i - (at + 1) \in 1 .. n /\ i - at = 1 + (i - (at + 1))
      BY <1>2, <1>10, <2>5
    <3>2. both[i - at] = w[i - (at + 1)]
      BY <1>4, <3>1
    <3> QED
      BY <1>2, <1>10, <2>1, <2>2, <2>5, <3>2
  <2>6. CASE at + 1 + n < i
    <3>1. i \in 1 .. Len(one) /\ ~(i <= at + 1)
      BY <1>2, <1>7, <1>8, <1>10, <2>6 DEF Greatest
    <3> QED
      BY <1>2, <1>6, <1>10, <2>1, <2>2, <2>6, <3>1
  <2> QED
    BY <1>2, <1>10, <2>3, <2>4, <2>5, <2>6
<1> HIDE DEF l, r
<1>12. l = r
  BY <1>8, <1>9, <1>10, <1>11, SameSequence
<1> QED
  BY <1>12 DEF l, r, one, both, pad, n

\* One byte of filling, and none.
LEMMA Fillings ==
    ASSUME NEW w \in Seq(Cell)
    PROVE  /\ Repeat(Zero, 1) = <<Zero>>
           /\ Repeat(Zero, 0) \o w = w
<1> DEFINE r == Repeat(Zero, 1)
           q == <<Zero>>
           none == Repeat(Zero, 0)
<1>1. r \in Seq(Cell) /\ Len(r) = 1
  BY CellFacts
<1>2. \A i \in 1 .. 1 : r[i] = Zero
  BY DEF Repeat
<1>3. q \in Seq(Cell) /\ Len(q) = 1 /\ q[1] = Zero
  BY DEF Cell
<1>4. none \in Seq(Cell) /\ Len(none) = 0
  BY CellFacts
<1> HIDE DEF r, q, none
<1>5. r = q
  BY <1>1, <1>2, <1>3, SameSequence
<1>6. none = << >>
  BY <1>4
<1>7. none \o w = w
  BY <1>6
<1> QED
  BY <1>5, <1>7 DEF r, q, none

\* The last step of writing a chunk is WriteChunk: pad and chunk are written one
\* after the other, where WriteChunk writes them at once.
LEMMA ChunkMaps ==
    ASSUME CallInv, ~failed, doing = "chunk", TakeStep
    PROVE  \/ UNCHANGED Calls!vars /\ Begun' /\ ~failed'
           \/ doing' = Idle /\ Calls!Next
<1>1. /\ IOInv /\ ChunkBegun /\ doing # Idle /\ phase = "open" /\ data_pos = data_bytes
      /\ AtCursor(pos)
  BY DEF CallInv, Begun, IOInv, Pending, StreamRight, Idle
<1>2. PICK c \in Chunks :
        /\ Suppliable(c, U32Max)
        /\ \/ /\ Untouched
              /\ trailing_bytes + PadBeforeTail + ChunkLen(c.size) <= MaxTail
              /\ io = ChunkSteps(c)
           \/ /\ settled.trailing_bytes = 0 /\ trailing_bytes = 1
              /\ PadOf(data_bytes) = 1
              /\ 1 + ChunkLen(c.size) <= MaxTail
              /\ settled.pos = cfg.header_len + data_bytes
              /\ pos = settled.pos + 1
              /\ settled.body \in Seq(Cell) /\ data_bytes <= Len(settled.body)
              /\ body = Put(settled.body, data_bytes, <<Zero>>)
              /\ io = <<Behind(ChunkCells(c))>>
  BY <1>1 DEF ChunkBegun
<1>3. /\ cfg.header_len \in Nat /\ data_bytes \in Nat /\ trailing_bytes \in Nat
      /\ body \in Seq(Cell) /\ data_bytes <= Len(body) /\ pos \in Nat
  BY <1>1, IOFacts
<1> DEFINE pad == <<Zero>>
           cells == ChunkCells(c)
<1>4. cells \in Seq(Cell) /\ Len(cells) = ChunkLen(c.size) /\ Len(cells) \in Nat
  BY CellFacts
<1>5. pad \in Seq(Cell) /\ Len(pad) = 1 /\ Zero \in Cell
  BY DEF Cell
<1>6. PadOf(data_bytes) \in {0, 1} /\ PadBeforeTail \in {0, 1}
  BY <1>3 DEF PadOf, PadBeforeTail
<1>7. /\ Repeat(Zero, 1) = pad
      /\ Repeat(Zero, 0) \o cells = cells
  BY <1>4, Fillings
<1>8. Before("phase", phase) = "open" /\ (Calls!Suppliable(c, U32Max) <=> TRUE)
  BY <1>1, <1>2, CallOperators DEF Before, ChunkBegun
<1> HIDE DEF pad, cells
<1>9. CASE /\ Untouched
           /\ trailing_bytes + PadBeforeTail + ChunkLen(c.size) <= MaxTail
           /\ io = ChunkSteps(c) /\ PadBeforeTail = 1
  <2> DEFINE rest == Behind(cells)
             first == Behind(pad)
  <2>1. io = <<first, rest>>
    BY <1>9 DEF ChunkSteps, pad, cells
  <2>2. first.op = "tail" /\ first.cells = pad
    BY StepFields
  <2> HIDE DEF first, rest
  <2>3. Len(io) = 2 /\ Head(io) = first /\ SubSeq(io, 2, Len(io)) = <<rest>>
    BY <2>1, ListOfTwo
  <2>4. TakeTail
    BY <2>2, <2>3, StepIs
  <2>5. /\ Emit(pad) /\ trailing_bytes' = trailing_bytes + 1
        /\ UNCHANGED <<data_bytes, data_pos, hdr>>
    BY <1>5, <2>2, <2>3, <2>4 DEF TakeTail
  <2>6. /\ doing' = doing /\ phase' = phase /\ io' = <<rest>> /\ cfg' = cfg
        /\ settled' = settled /\ failed' = failed /\ UNCHANGED Calls!vars
    <3>1. Take("tail") /\ Len(io) # 1
      BY <2>3, <2>4 DEF TakeTail
    <3> QED
      BY <2>3, <3>1, TakeFacts, GoesOnMaps
  <2>7. trailing_bytes = 0 /\ PadOf(data_bytes) = 1
    BY <1>9 DEF PadBeforeTail
  <2>8. pos = cfg.header_len + data_bytes /\ pos - cfg.header_len = data_bytes
    BY <1>1, <1>3, <2>7 DEF AtCursor
  <2>9. body' = Put(body, data_bytes, pad) /\ pos' = pos + 1
    BY <1>5, <2>5, <2>8 DEF Emit
  <2>10. rest' = rest /\ pad' = pad
    BY DEF rest, cells, pad, Behind
  <2>11. /\ settled'.trailing_bytes = 0 /\ trailing_bytes' = 1
         /\ PadOf(data_bytes)' = 1
         /\ 1 + ChunkLen(c.size) <= MaxTail
         /\ settled'.pos = cfg'.header_len + data_bytes'
         /\ pos' = settled'.pos + 1
         /\ settled'.body \in Seq(Cell) /\ data_bytes' <= Len(settled'.body)
         /\ body' = Put(settled'.body, data_bytes', <<Zero>>)
         /\ io' = <<Behind(ChunkCells(c))>>
    <3>1. settled.trailing_bytes = 0 /\ settled.pos = pos /\ settled.body = body
      BY <1>9, <2>7 DEF Untouched
    <3>2. 1 + ChunkLen(c.size) <= MaxTail
      BY <1>4, <1>9, <2>7
    <3>3. io' = <<Behind(ChunkCells(c))>> /\ pad = <<Zero>>
      BY <2>6 DEF rest, cells, pad
    <3>4. trailing_bytes' = 1
      BY <2>5, <2>7
    <3>5. settled' = settled /\ data_bytes' = data_bytes /\ cfg' = cfg
      BY <2>5, <2>6
    <3>6. body' = Put(body, data_bytes, <<Zero>>)
      BY <2>9, <3>3
    <3>7. PadOf(data_bytes)' = 1
      BY <2>7, <3>5
    <3> QED
      BY <1>3, <2>8, <2>9, <3>1, <3>2, <3>3, <3>4, <3>5, <3>6, <3>7
  <2>12. ChunkBegun'
    <3>1. /\ settled'.phase = phase' /\ settled'.data_bytes = data_bytes'
          /\ settled'.data_pos = data_pos' /\ settled'.hdr = hdr'
      BY <1>9, <2>5, <2>6 DEF Untouched
    <3> QED
      BY <1>2, <2>11, <3>1 DEF ChunkBegun
  <2> QED
    BY <2>6, <2>12 DEF Begun
<1>10. CASE /\ Untouched
            /\ trailing_bytes + PadBeforeTail + ChunkLen(c.size) <= MaxTail
            /\ io = ChunkSteps(c) /\ PadBeforeTail = 0
  <2>1. io = <<Behind(cells)>>
    BY <1>10 DEF ChunkSteps, cells
  <2>2. Len(io) = 1 /\ Head(io).op = "tail" /\ Head(io).cells = cells
    BY <2>1, ListOfOne, StepFields
  <2>3. TakeTail
    BY <2>2, StepIs
  <2>4. doing' = Idle /\ phase' = phase /\ cfg' = cfg
    BY <2>2, <2>3, TakeFacts DEF TakeTail, Consuming
  <2>5. /\ Emit(cells) /\ trailing_bytes' = trailing_bytes + Len(cells)
        /\ UNCHANGED <<data_bytes, data_pos, hdr>>
    BY <2>2, <2>3 DEF TakeTail
  <2>6. Calls!PadBeforeTail = 0
    BY <1>1, <1>10, CallOperators
       DEF Untouched, Before, Calls!PadBeforeTail, PadBeforeTail
  <2>7. Calls!Repeat(Zero, Calls!PadBeforeTail) \o Calls!ChunkCells(c) = cells
    BY <1>7, <2>6, CallOperators DEF cells
  <2>8. Calls!Emit(cells)
    BY <1>1, <1>10, <2>4, <2>5, CallOperators DEF Untouched, Before, Calls!Emit, Emit
  <2>9. /\ Calls!ChunkLen(c.size) = ChunkLen(c.size)
        /\ Before("trailing_bytes", trailing_bytes) = trailing_bytes
        /\ trailing_bytes + 0 + ChunkLen(c.size) <= MaxTail
        /\ trailing_bytes' = trailing_bytes + 0 + ChunkLen(c.size)
    <3>1. trailing_bytes' = trailing_bytes + 0 + ChunkLen(c.size)
      BY <1>3, <1>4, <2>5
    <3> QED
      BY <1>1, <1>10, <3>1, CallOperators DEF Untouched, Before
  <2>10. Before("trailing_bytes", trailing_bytes)'
            = Before("trailing_bytes", trailing_bytes) + Calls!PadBeforeTail
                + Calls!ChunkLen(c.size)
    BY <2>4, <2>6, <2>9 DEF Before
  <2>11. Calls!WriteChunk(c)
    BY <1>1, <1>8, <1>10, <2>4, <2>5, <2>6, <2>7, <2>8, <2>9, <2>10
       DEF Calls!WriteChunk, Untouched, Before
  <2> QED
    BY <2>4, <2>11 DEF Calls!Next
<1>11. CASE /\ settled.trailing_bytes = 0 /\ trailing_bytes = 1
            /\ PadOf(data_bytes) = 1
            /\ 1 + ChunkLen(c.size) <= MaxTail
            /\ settled.pos = cfg.header_len + data_bytes
            /\ pos = settled.pos + 1
            /\ settled.body \in Seq(Cell) /\ data_bytes <= Len(settled.body)
            /\ body = Put(settled.body, data_bytes, <<Zero>>)
            /\ io = <<Behind(ChunkCells(c))>>
  <2>1. io = <<Behind(cells)>>
    BY <1>11 DEF cells
  <2>2. Len(io) = 1 /\ Head(io).op = "tail" /\ Head(io).cells = cells
    BY <2>1, ListOfOne, StepFields
  <2>3. TakeTail
    BY <2>2, StepIs
  <2>4. doing' = Idle /\ phase' = phase /\ cfg' = cfg
    BY <2>2, <2>3, TakeFacts DEF TakeTail, Consuming
  <2>5. /\ Emit(cells) /\ trailing_bytes' = trailing_bytes + Len(cells)
        /\ UNCHANGED <<data_bytes, data_pos, hdr>>
    BY <2>2, <2>3 DEF TakeTail
  <2>6. /\ settled.phase = phase /\ settled.data_bytes = data_bytes
        /\ settled.data_pos = data_pos /\ settled.hdr = hdr
    BY <1>1 DEF ChunkBegun
  <2>7. Calls!PadBeforeTail = 1
    BY <1>1, <1>11, <2>6, CallOperators DEF Before, Calls!PadBeforeTail
  <2> DEFINE both == pad \o cells
             old == settled.body
  <2>8. Calls!Repeat(Zero, Calls!PadBeforeTail) \o Calls!ChunkCells(c) = both
    BY <1>7, <2>7, CallOperators DEF cells
  <2>9. Len(both) = 1 + Len(cells)
    <3>1. IsJoined(both, pad, cells)
      BY <1>4, <1>5, Joined
    <3> HIDE DEF both
    <3> QED
      BY <1>5, <3>1 DEF IsJoined
  <2>10. body' = Put(old, data_bytes, both) /\ pos' = settled.pos + Len(both)
    <3>1. old \in Seq(Cell) /\ data_bytes \in 0 .. Len(old)
      BY <1>3, <1>11
    <3>2. body = Put(old, data_bytes, pad)
      BY <1>11 DEF pad
    <3>3. pos - cfg.header_len = data_bytes + 1 /\ pos = settled.pos + 1
          /\ settled.pos \in Int
      BY <1>3, <1>11
    <3>4. body' = Put(body, data_bytes + 1, cells) /\ pos' = pos + Len(cells)
      BY <2>5, <3>3 DEF Emit
    <3> HIDE DEF old, both
    <3>5. body' = Put(Put(old, data_bytes, pad), data_bytes + 1, cells)
      BY <3>2, <3>4
    <3>6. Put(Put(old, data_bytes, pad), data_bytes + 1, cells)
            = Put(old, data_bytes, both)
      BY <1>4, <1>5, <3>1, PadThenCells DEF pad, both
    <3>7. pos' = settled.pos + Len(both)
      BY <1>4, <2>9, <3>3, <3>4
    <3> QED
      BY <3>5, <3>6, <3>7
  <2> HIDE DEF both
  <2>11. Calls!Emit(both)
    <3>1. settled.pos - cfg.header_len = data_bytes
      BY <1>3, <1>11
    <3> QED
      BY <1>1, <2>4, <2>10, <3>1, CallOperators DEF Before, Calls!Emit
  <2>12. /\ Calls!ChunkLen(c.size) = ChunkLen(c.size)
         /\ Before("trailing_bytes", trailing_bytes) = 0
         /\ 0 + 1 + ChunkLen(c.size) <= MaxTail
         /\ trailing_bytes' = 0 + 1 + ChunkLen(c.size)
    <3>1. trailing_bytes' = 0 + 1 + ChunkLen(c.size)
      BY <1>4, <1>11, <2>5
    <3>2. 0 + 1 + ChunkLen(c.size) <= MaxTail
      BY <1>4, <1>11
    <3> QED
      BY <1>1, <1>11, <3>1, <3>2, CallOperators DEF Before
  <2>13. Before("trailing_bytes", trailing_bytes)'
            = Before("trailing_bytes", trailing_bytes) + Calls!PadBeforeTail
                + Calls!ChunkLen(c.size)
    BY <2>4, <2>7, <2>12 DEF Before
  <2>14. Calls!WriteChunk(c)
    BY <1>1, <1>8, <2>4, <2>5, <2>6, <2>7, <2>8, <2>11, <2>12, <2>13
       DEF Calls!WriteChunk, Before
  <2> QED
    BY <2>4, <2>14 DEF Calls!Next
<1> QED
  BY <1>2, <1>6, <1>9, <1>10, <1>11

\* A step of a refresh but the last: only size fields have changed, and the count
\* only if it is patched.
LEMMA RefreshStaysBegun ==
    ASSUME CallInv, ~failed, doing \in {"update", "finalize"}, cfg.seekable,
           NEW op, Take(op), Len(io) # 1,
           UNCHANGED <<data_bytes, data_pos, trailing_bytes, body>>,
           ~PatchesCount => hdr'.count = hdr.count
    PROVE  UNCHANGED Calls!vars /\ Begun' /\ ~failed'
<1>1. RefreshBegun
  BY DEF CallInv, Begun, Idle
<1>2. UNCHANGED <<cfg, doing, settled, phase, failed>> /\ UNCHANGED Calls!vars
  BY TakeFacts, GoesOnMaps
<1>3. PatchesCount' = PatchesCount
  BY <1>2, PatchesKeep
<1>4. RefreshBegun'
  BY <1>1, <1>2, <1>3 DEF RefreshBegun
<1> QED
  BY <1>2, <1>4 DEF Begun

\* The sizes patched are those UpdateHeader and Finalize patch at once.
LEMMA SizesMap ==
    ASSUME IOInv, RefreshBegun, doing # Idle, doing' = Idle, cfg' = cfg, hdr' = hdr,
           SizesFit, hdr.riff = RiffSize, hdr.data = data_bytes,
           PatchesCount => hdr.count = PatchedCount
    PROVE  Calls!PatchSizes
<1>1. /\ settled.data_bytes = data_bytes /\ settled.trailing_bytes = trailing_bytes
      /\ ~PatchesCount => settled.hdr.count = hdr.count
  BY DEF RefreshBegun
<1>2. Calls!RiffSize = RiffSize
  BY <1>1 DEF Before, Calls!RiffSize, RiffSize
<1>3. Calls!SizesFit
  BY <1>1, <1>2 DEF Before, Calls!SizesFit, SizesFit
<1>4. Calls!FramesAt(data_bytes) = FramesAt(data_bytes) /\ Calls!NoCount = NoCount
  BY DEF Calls!FramesAt, FramesAt, Calls!NoCount, NoCount
<1>5. Calls!PatchedCount = hdr.count
  <2>1. CASE PatchesCount
    BY <1>1, <1>4, <2>1, CallOperators
       DEF PatchesCount, Before, Calls!PatchedCount, PatchedCount
  <2>2. CASE ~PatchesCount
    BY <1>1, <1>4, <2>2 DEF PatchesCount, Before, Calls!PatchedCount
  <2> QED
    BY <2>1, <2>2
<1>6. hdr = [riff |-> hdr.riff, data |-> hdr.data, count |-> hdr.count]
  BY IOFacts
<1>7. Before("hdr", hdr)' = [riff |-> Calls!RiffSize,
                             data |-> Before("data_bytes", data_bytes),
                             count |-> Calls!PatchedCount]
  BY <1>1, <1>2, <1>5, <1>6 DEF Before
<1> QED
  BY <1>3, <1>7 DEF Calls!PatchSizes

\* The last step of a refresh is UpdateHeader or Finalize.
LEMMA RefreshMaps ==
    ASSUME CallInv, ~failed, doing \in {"update", "finalize"}, TakeStep
    PROVE  \/ UNCHANGED Calls!vars /\ Begun' /\ ~failed'
           \/ doing' = Idle /\ Maps
<1>1. IOInv /\ RefreshBegun /\ RefreshPending /\ doing # Idle /\ phase = "open"
  BY DEF CallInv, Begun, IOInv, Pending, Idle
<1>2. CASE ~cfg.seekable
  <2>1. io = <<Flush>> /\ Untouched
    BY <1>1, <1>2 DEF RefreshPending, RefreshBegun
  <2>2. Len(io) = 1 /\ Head(io).op = "flush"
    BY <2>1, ListOfOne, StepFields
  <2>3. TakeFlush
    BY <2>2, StepIs
  <2>4. UNCHANGED <<data_bytes, data_pos, trailing_bytes, pos, body, hdr>>
    BY <2>3 DEF TakeFlush, belief, file
  <2>5. PICK op : Take(op)
    BY <2>3 DEF TakeFlush
  <2>6. /\ doing' = Idle /\ cfg' = cfg
        /\ doing = "update" => phase' = phase
        /\ doing = "finalize" => phase' = "released"
    <3>1. doing' = Idle /\ cfg' = cfg
      BY <2>2, <2>5, TakeFacts
    <3>2. phase' = IF Len(io) # 1 \/ doing \notin Consuming THEN phase
                   ELSE IF doing = "finalize" /\ cfg.seekable THEN "finalized"
                   ELSE "released"
      BY <2>5 DEF Take
    <3> QED
      BY <1>2, <2>2, <3>1, <3>2 DEF Consuming
  <2>7. CASE doing = "update"
    <3>1. UNCHANGED Calls!vars
      BY <1>1, <2>1, <2>4, <2>6, <2>7 DEF Untouched, Calls!vars, Before
    <3> QED
      BY <2>6, <3>1 DEF Maps
  <2>8. CASE doing = "finalize"
    <3>1. Calls!FinalizeStreaming
      BY <1>1, <1>2, <2>1, <2>4, <2>6, <2>8
         DEF Calls!FinalizeStreaming, Untouched, Before
    <3>2. Calls!Finalize
      BY <1>1, <2>1, <2>4, <2>6, <3>1 DEF Calls!Finalize, RefreshBegun, Untouched, Before
    <3> QED
      BY <2>6, <3>2 DEF Maps, Calls!Next, Calls!HeaderStep
  <2> QED
    BY <2>7, <2>8
<1>3. CASE cfg.seekable
  <2>1. PICK k \in 0 .. Len(Plan) - 1 :
            io = SubSeq(Plan, k + 1, Len(Plan)) /\ Fresh(k - Len(Leading))
    BY <1>1, <1>3 DEF RefreshPending
  <2>2. PICK lead \in {1, 2} : Len(Leading) = lead
    BY PlanIs DEF PlanRight
  <2>3. /\ Plan \in Seq(PlanSteps) /\ Len(Plan) = lead + PatchCount + 1
        /\ PatchCount \in {1, 4, 6} /\ lead = IF doing = "update" THEN 2 ELSE 1
        /\ Plan[1] = Flush /\ (doing = "update" => Plan[2] = StreamPosition)
        /\ \A i \in 1 .. PatchCount : IsPatchStep(Plan[lead + i], i)
        /\ Plan[Len(Plan)] = Return
    BY <2>2, PlanIs DEF PlanRight
  <2>4. Head(io) = Plan[k + 1] /\ Len(io) = Len(Plan) - k
    BY <2>1, <2>3, RestOfList
  <2>5. CASE k < lead
    <3>1. Head(io).op \in {"flush", "stream_position"}
      <4>1. k = 0 \/ (k = 1 /\ doing = "update")
        BY <2>3, <2>5
      <4> QED
        BY <2>3, <2>4, <4>1, StepFields
    <3>2. TakeFlush
      BY <3>1, StepIs
    <3>3. PICK op : Take(op)
      BY <3>2 DEF TakeFlush
    <3>4. UNCHANGED <<data_bytes, data_pos, trailing_bytes, body, hdr>>
      BY <3>2 DEF TakeFlush, belief, file
    <3>5. Len(io) # 1
      BY <2>3, <2>4, <2>5
    <3> QED
      BY <1>3, <3>3, <3>4, <3>5, RefreshStaysBegun
  <2>6. CASE k >= lead /\ k < lead + PatchCount
    <3>1. PICK i \in 1 .. 6 : i = k + 1 - lead /\ i \in 1 .. PatchCount
      BY <2>3, <2>6
    <3>2. IsPatchStep(Head(io), i)
      BY <2>3, <2>4, <3>1
    <3>3. Len(io) # 1
      BY <2>3, <2>4, <2>6
    <3>4. SizesFit
      BY <3>2, StepIs, StepFields DEF IsPatchStep
    <3>5. i = 1 \/ i = 2 \/ i = 3 \/ i = 4 \/ i = 5 \/ i = 6
      OBVIOUS
    <3>6. CASE i \in {1, 3, 5}
      <4>1. PICK to : Head(io) = Seek(to, data_pos)
        BY <3>2, <3>4, <3>6 DEF IsPatchStep
      <4>2. TakeSeek
        BY <4>1, StepFields, StepIs
      <4>3. UNCHANGED <<data_bytes, data_pos, trailing_bytes, body, hdr>> /\ Take("seek")
        BY <4>1, <4>2, StepFields DEF TakeSeek
      <4> QED
        BY <1>3, <3>3, <4>3, RefreshStaysBegun
    <3>7. CASE i \in {2, 4, 6}
      <4>1. /\ i = 2 => Head(io) = Field("riff", RiffSize)
            /\ i = 4 => Head(io) = Field("data", data_bytes)
            /\ i = 6 => Head(io) = Field("count", PatchedCount) /\ PatchesCount
        BY <3>2, <3>4 DEF IsPatchStep
      <4>2. TakeField
        BY <3>7, <4>1, StepFields, StepIs
      <4>3. UNCHANGED <<data_bytes, data_pos, trailing_bytes, body>> /\ Take("field")
        BY <4>2 DEF TakeField, belief
      <4>4. ~PatchesCount => hdr'.count = hdr.count
        <5>1. SUFFICES ASSUME ~PatchesCount PROVE hdr'.count = hdr.count
          OBVIOUS
        <5>2. data_bytes \in Nat /\ RiffSize \in Nat
          BY <1>1, <3>4, IOFacts, PatchValues
        <5>3. CASE i = 2
          BY <1>1, <3>3, <4>1, <4>2, <5>2, <5>3, FieldTaken
        <5>4. CASE i = 4
          BY <1>1, <3>3, <4>1, <4>2, <5>2, <5>4, FieldTaken
        <5> QED
          BY <3>7, <4>1, <5>1, <5>3, <5>4
      <4> QED
        BY <1>3, <3>3, <4>3, <4>4, RefreshStaysBegun
    <3> QED
      BY <3>5, <3>6, <3>7
  <2>7. CASE k = lead + PatchCount
    <3>1. Len(io) = 1 /\ Head(io) = Return /\ k - lead = PatchCount
      BY <2>3, <2>4, <2>7
    <3>2. /\ SizesFit /\ hdr.riff = RiffSize /\ hdr.data = data_bytes
          /\ PatchesCount => hdr.count = PatchedCount
      <4>1. Fresh(PatchCount)
        BY <2>1, <2>2, <3>1
      <4>2. SizesFit
        BY <2>3, <4>1 DEF Fresh
      <4>3. PatchCount = IF PatchesCount THEN 6 ELSE 4
        BY <4>2 DEF PatchCount
      <4> QED
        BY <4>1, <4>2, <4>3 DEF Fresh
    <3>3. PICK to : /\ Return = Seek(to, data_pos)
                    /\ to = IF doing = "update" THEN settled.pos
                            ELSE cfg.header_len + Len(body)
      BY DEF Return
    <3>4. Head(io).op = "seek" /\ Head(io).to = to /\ Head(io).cursor = data_pos
      <4> DEFINE back == Seek(to, data_pos)
      <4>1. back.op = "seek" /\ back.to = to /\ back.cursor = data_pos
        BY StepFields
      <4>2. Head(io) = back
        BY <3>1, <3>3
      <4> HIDE DEF back
      <4> QED
        BY <4>1, <4>2
    <3>5. TakeSeek
      BY <3>4, StepIs
    <3>6. /\ pos' = to /\ data_pos' = data_pos
          /\ UNCHANGED <<data_bytes, trailing_bytes, body, hdr>>
      BY <3>4, <3>5 DEF TakeSeek
    <3>7. /\ doing' = Idle /\ cfg' = cfg
          /\ phase' = IF doing = "finalize" THEN "finalized" ELSE phase
      <4>1. doing' = Idle /\ cfg' = cfg
        BY <3>1, <3>5, TakeFacts DEF TakeSeek
      <4>2. phase' = IF Len(io) # 1 \/ doing \notin Consuming THEN phase
                     ELSE IF doing = "finalize" /\ cfg.seekable THEN "finalized"
                     ELSE "released"
        BY <3>5 DEF Take, TakeSeek
      <4> QED
        BY <1>3, <3>1, <4>1, <4>2 DEF Consuming
    <3>8. Calls!PatchSizes
      BY <1>1, <3>2, <3>6, <3>7, SizesMap
    <3>9. CASE doing = "update"
      <4>1. Calls!UpdateHeader
        BY <1>1, <1>3, <3>3, <3>6, <3>7, <3>8, <3>9
           DEF Calls!UpdateHeader, RefreshBegun, Before
      <4> QED
        BY <3>7, <4>1 DEF Maps, Calls!Next, Calls!HeaderStep
    <3>10. CASE doing = "finalize"
      <4>1. Calls!FinalizePatched
        BY <1>1, <1>3, <3>3, <3>6, <3>7, <3>8, <3>10
           DEF Calls!FinalizePatched, RefreshBegun, Before
      <4>2. Calls!Finalize
        BY <1>1, <3>6, <3>7, <4>1 DEF Calls!Finalize, RefreshBegun, Before
      <4> QED
        BY <3>7, <4>2 DEF Maps, Calls!Next, Calls!HeaderStep
    <3> QED
      BY <3>9, <3>10
  <2>8. k < lead \/ (k >= lead /\ k < lead + PatchCount) \/ k = lead + PatchCount
    BY <2>3
  <2> QED
    BY <2>5, <2>6, <2>7, <2>8
<1> QED
  BY <1>2, <1>3

LEMMA IntoInnerMaps ==
    ASSUME CallInv, ~failed, doing = "into_inner", TakeStep
    PROVE  doing' = Idle /\ Calls!Next
<1>1. IOInv /\ Untouched /\ io = <<Flush>> /\ doing # Idle /\ phase = "open"
  BY DEF CallInv, Begun, IOInv, Pending, Idle
<1>2. Len(io) = 1 /\ Head(io).op = "flush"
  BY <1>1, ListOfOne, StepFields
<1>3. TakeFlush
  BY <1>2, StepIs
<1>4. UNCHANGED <<data_bytes, data_pos, trailing_bytes, pos, body, hdr>>
  BY <1>3 DEF TakeFlush, belief, file
<1>5. PICK op : Take(op)
  BY <1>3 DEF TakeFlush
<1>6. doing' = Idle /\ cfg' = cfg /\ phase' = "released"
  <2>1. doing' = Idle /\ cfg' = cfg
    BY <1>2, <1>5, TakeFacts
  <2>2. phase' = IF Len(io) # 1 \/ doing \notin Consuming THEN phase
                 ELSE IF doing = "finalize" /\ cfg.seekable THEN "finalized"
                 ELSE "released"
    BY <1>5 DEF Take
  <2> QED
    BY <1>2, <2>1, <2>2 DEF Consuming
<1>7. Calls!IntoInner
  BY <1>1, <1>4, <1>6 DEF Calls!IntoInner, Calls!file, Untouched, Before
<1> QED
  BY <1>6, <1>7 DEF Calls!Next, Calls!HeaderStep

-----------------------------------------------------------------------------
(* A call begins: it has passed its checks and done nothing.               *)

LEMMA StartWriteMaps ==
    ASSUME StartWrite
    PROVE  Begun' /\ UNCHANGED Calls!vars
<1>1. PICK w \in Writes : /\ EnsureDataOpen /\ FitsCapacity(Len(w))
                          /\ data_pos + Len(w) <= MaxData
                          /\ Start("write", <<Audio(w)>>)
  BY DEF StartWrite
<1>2. /\ Untouched' /\ doing' = "write" /\ io' = <<Audio(w)>>
      /\ UNCHANGED <<cfg, data_bytes, data_pos, trailing_bytes>>
      /\ UNCHANGED Calls!vars
  BY <1>1, StartMaps DEF Idle
<1>3. Audio(w)' = Audio(w) /\ FitsCapacity(Len(w))' = FitsCapacity(Len(w))
  BY <1>2 DEF Audio, FitsCapacity, FitsExtent, Limited, Greatest, SatSub
<1>4. WriteBegun'
  BY <1>1, <1>2, <1>3 DEF WriteBegun, EnsureDataOpen
<1> QED
  BY <1>2, <1>4 DEF Begun

LEMMA StartSeekMaps ==
    ASSUME StartSeek
    PROVE  Begun' /\ UNCHANGED Calls!vars
<1>1. PICK frame, offset :
        /\ frame \in 0 .. MaxFrame
        /\ offset = cfg.frame_bytes * frame
        /\ cfg.can_seek /\ EnsureDataOpen /\ cfg.frame_bytes # 0
        /\ \/ offset <= data_bytes /\ Start("seek", SeekSteps(offset))
           \/ /\ offset > data_bytes /\ FitsExtent(offset) /\ offset <= MaxData
              /\ Start("seek", FillSteps(offset))
  BY DEF StartSeek
<1>2. /\ Untouched' /\ doing' = "seek"
      /\ UNCHANGED <<cfg, phase, data_bytes, data_pos, trailing_bytes, pos, body, hdr>>
      /\ UNCHANGED Calls!vars
  BY <1>1, StartMaps DEF Idle
<1>3. \/ offset <= data_bytes /\ io' = SeekSteps(offset)
      \/ /\ offset > data_bytes /\ FitsExtent(offset) /\ offset <= MaxData
         /\ io' = FillSteps(offset)
  BY <1>1, StartMaps DEF Idle
<1>4. /\ SeekSteps(offset)' = SeekSteps(offset)
      /\ FillSteps(offset)' = FillSteps(offset)
      /\ FitsExtent(offset)' = FitsExtent(offset)
  BY <1>2 DEF SeekSteps, FillSteps, FitsExtent, Limited, SatSub
<1>5. SeekBegun'
  BY <1>1, <1>2, <1>3, <1>4 DEF SeekBegun, EnsureDataOpen, Untouched
<1> QED
  BY <1>2, <1>5 DEF Begun

LEMMA StartTrimMaps ==
    ASSUME StartTrim, ~UNCHANGED iovars
    PROVE  Begun' /\ UNCHANGED Calls!vars
<1>1. PICK frame, len :
        /\ frame \in (0 .. MaxFrame) \cup {Position}
        /\ len = cfg.frame_bytes * frame
        /\ cfg.can_seek /\ EnsureDataOpen /\ cfg.seekable /\ cfg.frame_bytes # 0
        /\ len < data_bytes
        /\ Start("trim", TrimSteps(len))
  BY DEF StartTrim
<1>2. /\ Untouched' /\ doing' = "trim" /\ io' = TrimSteps(len)
      /\ UNCHANGED <<cfg, phase, data_bytes, data_pos, trailing_bytes, pos, body, hdr>>
      /\ UNCHANGED Calls!vars
  BY <1>1, StartMaps DEF Idle
<1>3. TrimSteps(len)' = TrimSteps(len)
  BY <1>2 DEF TrimSteps, Flush, Shorten, Seek, Least
<1>4. FramesAt(settled.data_pos)' = Position
  BY <1>2 DEF Position, FramesAt, Untouched
<1>5. TrimBegun'
  BY <1>1, <1>2, <1>3, <1>4 DEF TrimBegun, EnsureDataOpen, Untouched
<1> QED
  BY <1>2, <1>5 DEF Begun

LEMMA StartChunkMaps ==
    ASSUME StartChunk
    PROVE  Begun' /\ UNCHANGED Calls!vars
<1>1. PICK c \in Chunks :
        /\ Suppliable(c, U32Max)
        /\ trailing_bytes + PadBeforeTail + ChunkLen(c.size) <= MaxTail
        /\ Start("chunk", ChunkSteps(c))
  BY DEF StartChunk
<1>2. /\ Untouched' /\ doing' = "chunk" /\ io' = ChunkSteps(c)
      /\ UNCHANGED <<cfg, phase, data_bytes, data_pos, trailing_bytes, pos, body, hdr>>
      /\ UNCHANGED Calls!vars
  BY <1>1, StartMaps DEF Idle
<1>3. PadBeforeTail' = PadBeforeTail
  BY <1>2 DEF PadBeforeTail
<1>4. ChunkSteps(c)' = ChunkSteps(c)
  BY <1>3 DEF ChunkSteps
<1>5. ChunkBegun'
  BY <1>1, <1>2, <1>3, <1>4 DEF ChunkBegun, Untouched
<1> QED
  BY <1>2, <1>5 DEF Begun

LEMMA StartRefreshMaps ==
    ASSUME StartUpdate \/ StartFinalize
    PROVE  Begun' /\ UNCHANGED Calls!vars
<1>1. cfg.can_seek /\ \E call, steps :
        call \in {"update", "finalize"} /\ Start(call, steps)
  BY DEF StartUpdate, StartFinalize
<1>2. PICK call, steps : call \in {"update", "finalize"} /\ Start(call, steps)
  BY <1>1
<1>3. /\ Untouched' /\ doing' \in {"update", "finalize"} /\ cfg' = cfg
      /\ UNCHANGED Calls!vars
  BY <1>2, StartMaps DEF Idle
<1>4. RefreshBegun'
  BY <1>1, <1>3 DEF RefreshBegun, Untouched
<1> QED
  BY <1>3, <1>4 DEF Begun

LEMMA StartIntoInnerMaps ==
    ASSUME StartIntoInner
    PROVE  Begun' /\ UNCHANGED Calls!vars
<1>1. Untouched' /\ doing' = "into_inner" /\ UNCHANGED Calls!vars
  BY StartMaps DEF StartIntoInner, Idle
<1> QED
  BY <1>1 DEF Begun

-----------------------------------------------------------------------------
(* Every step maps to a step of WavWriter, to none, or to a failure.       *)

LEMMA CallStep ==
    ASSUME CallInv, [IONext]_iovars
    PROVE  CallInv' /\ (failed' \/ Maps)
<1>1. IOInv'
  BY IONextInv DEF CallInv
<1>2. CASE failed'
  BY <1>1, <1>2 DEF CallInv
<1>3. ASSUME ~failed'
      PROVE  (doing' # Idle => Begun') /\ Maps
  <2>1. CASE /\ \/ StartWrite \/ StartSeek \/ StartTrim \/ StartChunk
                \/ StartUpdate \/ StartFinalize \/ StartIntoInner
             /\ ~UNCHANGED iovars
    BY <2>1, StartWriteMaps, StartSeekMaps, StartTrimMaps, StartChunkMaps,
       StartRefreshMaps, StartIntoInnerMaps DEF Maps
  <2>2. CASE TakeStep
    <3>1. doing \in {"write", "seek", "trim", "chunk", "update", "finalize", "into_inner"}
      BY <2>2, StepIs DEF CallInv, IOInv, IOType, Consuming
    <3>2. ~failed
      <4>1. PICK op : Take(op)
        BY <2>2 DEF TakeStep, TakeFlush, TakeSeek, TakeAudio, TakeTail, TakeField,
           TakeShorten
      <4> QED
        BY <1>3, <4>1, TakeFacts
    <3> QED
      BY <2>2, <3>1, <3>2, WriteMaps, SeekMaps, TrimMaps, ChunkMaps, RefreshMaps,
         IntoInnerMaps DEF Maps
  <2>3. CASE Fail
    BY <1>3, <2>3 DEF Fail
  <2>4. CASE UNCHANGED iovars
    <3>1. UNCHANGED <<cfg, phase, data_bytes, data_pos, trailing_bytes, pos, body, hdr>>
          /\ UNCHANGED <<doing, io, adrift, failed, settled>>
      BY <2>4 DEF iovars, vars
    <3>2. UNCHANGED Calls!vars
      BY <3>1 DEF Calls!vars, Before
    <3>3. Untouched' = Untouched
      BY <3>1 DEF Untouched
    <3>4. doing # Idle => Begun
      BY <1>3, <3>1 DEF CallInv
    <3>5. WriteBegun => WriteBegun'
      BY <3>1, <3>3 DEF WriteBegun, EnsureDataOpen, FitsCapacity, FitsExtent, Limited,
         Greatest, SatSub, Audio
    <3>6. SeekBegun => SeekBegun'
      BY <3>1 DEF SeekBegun, EnsureDataOpen, FitsExtent, Limited, SatSub, SeekSteps,
         FillSteps, Seek, Audio
    <3>7. TrimBegun => TrimBegun'
      BY <3>1 DEF TrimBegun, EnsureDataOpen, FramesAt, TrimSteps, Flush, Shorten, Seek, Least
    <3>8. ChunkBegun => ChunkBegun'
      BY <3>1, <3>3 DEF ChunkBegun, PadBeforeTail, ChunkSteps, Behind
    <3>9. RefreshBegun => RefreshBegun'
      BY <3>1, <3>3 DEF RefreshBegun, PatchesCount
    <3> QED
      BY <3>1, <3>2, <3>3, <3>4, <3>5, <3>6, <3>7, <3>8, <3>9 DEF Begun, Maps
  <2> QED
    BY <2>1, <2>2, <2>3, <2>4 DEF IONext, TakeStep
<1> QED
  BY <1>1, <1>2, <1>3 DEF CallInv

LEMMA CallsStart == IOInit => CallInv /\ Calls!Init
<1> SUFFICES ASSUME IOInit PROVE CallInv /\ Calls!Init
  OBVIOUS
<1>1. doing = Idle /\ Init /\ IOInv
  BY IOInitInv DEF IOInit
<1>2. Calls!Init
  BY <1>1 DEF Init, Calls!Init, Before, Placeholder, Calls!Placeholder
<1> QED
  BY <1>1, <1>2 DEF CallInv

\* As long as no call fails, every call, however many steps it takes on the
\* output, does what the action of WavWriter does in one, so what is shown of
\* WavWriter holds between the calls (the methods of WavWriter).
THEOREM CallsImplementWriter == IOSpec => ImplementsCalls
<1>1. IOInit => CallInv /\ Calls!Init
  BY CallsStart
<1>2. CallInv /\ [IONext]_iovars => CallInv' /\ [failed' \/ Calls!Next]_(Calls!vars)
  BY CallStep DEF Maps
<1> QED
  BY <1>1, <1>2, PTL DEF IOSpec, ImplementsCalls
=============================================================================
