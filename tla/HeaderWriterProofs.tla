------------------------- MODULE HeaderWriterProofs -------------------------
(***************************************************************************)
(* Proofs about HeaderWriter, for every set of formats, fact choices and   *)
(* leading chunks.  The inductive invariant says, for every stage, where   *)
(* the fields are that will be patched: the size fields written before     *)
(* their offsets are recorded (RIFF) and the offsets recorded before their *)
(* fields are written (ds64).                                              *)
(***************************************************************************)
EXTENDS HeaderWriter, SequenceTheorems, TLAPS

\* The provers do not know a literal to be a STRING.
Ids == STRING \cup ReservedIds

Names ==
    {"id", "size", "form", "riffSize", "dataSize", "sampleCount", "table", "dwSampleLength"}

Values == {"id", "size", "unset", "marker", "zero", "fixed"}

FieldType ==
    [chunk : Ids, name : Names, at : Nat, width : Nat, value : Values, number : Int]

\* What a request is made of.
RequestType ==
    [fmt : Fmt, fact : Fact, leading : Seq([id : STRING, size : Nat]), rf64 : BOOLEAN,
     seekable : BOOLEAN]

IsLateSize(f) ==
    IF req.rf64 THEN f.chunk = "ds64" /\ f.name \in {"riffSize", "dataSize"}
    ELSE f.chunk \in {"RIFF", "data"} /\ f.name = "size"

IsLateCount(f) ==
    f.name \in {"sampleCount", "dwSampleLength"} /\ f.value # "fixed"

Underway == stage \notin {"check", "riff", "failed"}

\* Fields have a place, inside what was written.
FieldsInv ==
    /\ emitted \in Nat
    /\ \A f \in fields : f \in FieldType /\ f.at + f.width <= emitted

\* The running position, and which stages there are for which container.
StageInv ==
    /\ req \in RequestType
    /\ req.rf64 => req.seekable
    /\ stage \in {"check", "riff", "ds64", "fmt", "fact", "leading", "done", "failed"}
    /\ written \in 0 .. Len(req.leading)
    /\ header_len \in Nat
    /\ offsets \in [{"riff", "data", "count"} -> Nat \cup {Absent}]
    /\ stage \in {"check", "riff"} => emitted = 0 /\ fields = {}
    /\ stage = "riff" => header_len = 12
    /\ Underway => header_len = emitted /\ emitted >= 12
    /\ stage = "failed" => emitted = 0 \/ header_len = emitted
    /\ stage = "ds64" => req.rf64
    /\ stage = "fact" => ~req.rf64
    /\ stage \notin {"check", "failed"} => Acceptable

\* The size fields are at these two places and nowhere else.
SizesAt(r, d) ==
    /\ \A f \in fields : IsLateSize(f) => f.at \in {r, d}
    /\ \E f \in fields : IsLateSize(f) /\ f.at = r
    /\ \E f \in fields : IsLateSize(f) /\ f.at = d

Located == stage = "done" \/ (req.rf64 /\ stage \in {"fmt", "leading"})

SizesInv ==
    /\ stage = "ds64" => \A f \in fields : ~IsLateSize(f)
    /\ stage \in {"fmt", "fact", "leading"} /\ ~req.rf64 => SizesAt(4, 4)
    /\ Located => /\ SizesAt(offsets.riff, offsets.data)
                  /\ offsets.riff \in Nat /\ offsets.data \in Nat
                  /\ offsets.riff < offsets.data

Uncounted == offsets.count = Absent /\ \A f \in fields : ~IsLateCount(f)

CountedOnce ==
    /\ offsets.count \in Nat
    /\ \E f \in fields : IsLateCount(f)
    /\ \A f \in fields : IsLateCount(f) => f.at = offsets.count

CountsInv ==
    /\ stage \in {"check", "riff", "ds64", "fact"} => Uncounted
    /\ stage = "fmt" /\ ~req.rf64 => Uncounted
    /\ stage \in {"fmt", "leading", "done"} => Uncounted \/ CountedOnce

UnsetInv ==
    Underway => \A f \in fields : f.value = "unset" => IsLateSize(f) \/ IsLateCount(f)

Inv == FieldsInv /\ StageInv /\ SizesInv /\ CountsInv /\ UnsetInv

-----------------------------------------------------------------------------

LEMMA RequestFacts ==
    ASSUME req \in RequestType
    PROVE  /\ req.fmt \in Fmt /\ req.fact \in Fact
           /\ req.leading \in Seq([id : STRING, size : Nat])
           /\ req.rf64 \in BOOLEAN /\ req.seekable \in BOOLEAN
BY DEF RequestType

\* The builder makes no other requests.
LEMMA RequestsTyped ==
    ASSUME req \in Requests
    PROVE  req \in RequestType /\ (req.rf64 => req.seekable)
<1> DEFINE containers == {[rf64 |-> FALSE, seekable |-> TRUE],
                          [rf64 |-> FALSE, seekable |-> FALSE],
                          [rf64 |-> TRUE, seekable |-> TRUE]}
<1>1. PICK f \in Fmts, k \in Facts, l \in Leadings, c \in containers :
        req = [fmt |-> f, fact |-> k, leading |-> l, rf64 |-> c.rf64,
               seekable |-> c.seekable]
  BY DEF Requests
<1>2. c.rf64 \in BOOLEAN /\ c.seekable \in BOOLEAN /\ (c.rf64 => c.seekable)
  <2>1. CASE c = [rf64 |-> FALSE, seekable |-> TRUE]
    BY <2>1, Zenon
  <2>2. CASE c = [rf64 |-> FALSE, seekable |-> FALSE]
    BY <2>2, Zenon
  <2>3. CASE c = [rf64 |-> TRUE, seekable |-> TRUE]
    BY <2>3, Zenon
  <2> QED
    BY <2>1, <2>2, <2>3
<1>3. f \in Fmt /\ k \in Fact /\ l \in Seq([id : STRING, size : Nat])
  BY InputsAssumption
<1> QED
  BY <1>1, <1>2, <1>3 DEF RequestType

LEMMA FieldFacts ==
    ASSUME NEW c \in Ids, NEW n \in Names, NEW a \in Nat, NEW w \in Nat,
           NEW v \in Values, NEW k \in Int
    PROVE  /\ Field(c, n, a, w, v, k) \in FieldType
           /\ Field(c, n, a, w, v, k).chunk = c /\ Field(c, n, a, w, v, k).name = n
           /\ Field(c, n, a, w, v, k).at = a /\ Field(c, n, a, w, v, k).width = w
           /\ Field(c, n, a, w, v, k).value = v
BY DEF Field, FieldType

\* A field that is moved differs in its place alone.
LEMMA MovedField ==
    ASSUME NEW f \in FieldType, NEW b \in Nat
    PROVE  LET g == [f EXCEPT !.at = b]
           IN  /\ g \in FieldType /\ g.at = b
               /\ g.chunk = f.chunk /\ g.name = f.name /\ g.width = f.width
               /\ g.value = f.value
BY DEF FieldType

LEMMA ChunkLenFacts ==
    ASSUME NEW n \in Nat
    PROVE  ChunkLen(n) \in Nat /\ ChunkLen(n) >= 8 + n
BY DEF ChunkLen, ChunkHeaderSize, PadOf

\* What a chunk adds to the fields.
New(id, value, size, contents) ==
    {IdField(id, emitted), SizeField(id, emitted + 4, value, size)}
        \cup {[f EXCEPT !.at = emitted + 8 + f.at] : f \in contents}

LEMMA Emitting ==
    ASSUME FieldsInv,
           NEW c \in Ids, NEW v \in Values, NEW n \in Nat,
           NEW contents \in SUBSET FieldType,
           \A f \in contents : f.at + f.width <= n,
           EmitChunk(c, v, n, contents)
    PROVE  /\ FieldsInv'
           /\ emitted' = emitted + ChunkLen(n)
           /\ fields' = fields \cup New(c, v, n, contents)
           /\ \A f \in New(c, v, n, contents) :
                \/ f.chunk = c /\ f.name = "id" /\ f.value = "id"
                \/ f.chunk = c /\ f.name = "size" /\ f.value = v /\ f.at = emitted + 4
                \/ \E g \in contents : /\ f.chunk = g.chunk /\ f.name = g.name
                                       /\ f.value = g.value /\ f.at = emitted + 8 + g.at
           /\ \E f \in New(c, v, n, contents) :
                f.chunk = c /\ f.name = "size" /\ f.value = v /\ f.at = emitted + 4
           /\ \A g \in contents : \E f \in New(c, v, n, contents) :
                /\ f.chunk = g.chunk /\ f.name = g.name
                /\ f.value = g.value /\ f.at = emitted + 8 + g.at
<1> DEFINE new == New(c, v, n, contents)
           idf == IdField(c, emitted)
           szf == SizeField(c, emitted + 4, v, n)
<1>1. emitted \in Nat
  BY DEF FieldsInv
<1>2. /\ idf \in FieldType /\ idf.chunk = c /\ idf.name = "id" /\ idf.value = "id"
      /\ idf.at = emitted /\ idf.width = 4
  <2>1. idf = [chunk |-> c, name |-> "id", at |-> emitted, width |-> 4,
               value |-> "id", number |-> 0]
    BY DEF IdField, Field
  <2> HIDE DEF idf
  <2> QED
    BY <1>1, <2>1 DEF FieldType, Names, Values
<1>3. /\ szf \in FieldType /\ szf.chunk = c /\ szf.name = "size" /\ szf.value = v
      /\ szf.at = emitted + 4 /\ szf.width = 4
  <2>1. (IF v = "size" THEN n ELSE U32Max) \in Int
    BY LimitsAssumption
  <2>2. QED
    <3> DEFINE k == IF v = "size" THEN n ELSE U32Max
    <3>1. szf = [chunk |-> c, name |-> "size", at |-> emitted + 4, width |-> 4,
                 value |-> v, number |-> k]
      BY DEF SizeField, Field
    <3> HIDE DEF szf, k
    <3>2. k \in Int
      BY <2>1 DEF k
    <3> QED
      BY <1>1, <3>1, <3>2 DEF FieldType, Names
<1>4. ASSUME NEW g \in contents
      PROVE  LET f == [g EXCEPT !.at = emitted + 8 + g.at]
             IN  /\ f \in FieldType /\ f.at = emitted + 8 + g.at
                 /\ f.chunk = g.chunk /\ f.name = g.name /\ f.width = g.width
                 /\ f.value = g.value
  <2>1. g \in FieldType /\ emitted + 8 + g.at \in Nat
    BY <1>1 DEF FieldType
  <2> QED
    BY <2>1, MovedField
<1>5. emitted' = emitted + ChunkLen(n) /\ fields' = fields \cup new
  BY DEF EmitChunk, New, ChunkHeaderSize
<1>6. ChunkLen(n) \in Nat /\ ChunkLen(n) >= 8 + n
  BY ChunkLenFacts
<1>7. ASSUME NEW f \in new
      PROVE  f \in FieldType /\ f.at + f.width <= emitted'
  <2>1. CASE f = idf
    BY <1>1, <1>2, <1>5, <1>6, <2>1
  <2>2. CASE f = szf
    BY <1>1, <1>3, <1>5, <1>6, <2>2
  <2>3. ASSUME NEW g \in contents, f = [g EXCEPT !.at = emitted + 8 + g.at]
        PROVE  f \in FieldType /\ f.at + f.width <= emitted'
    <3>1. g.at \in Nat /\ g.width \in Nat /\ g.at + g.width <= n
      BY DEF FieldType
    <3> QED
      BY <1>1, <1>4, <1>5, <1>6, <2>3, <3>1
  <2> QED
    BY <1>7, <2>1, <2>2, <2>3 DEF New
<1>8. ASSUME NEW f \in fields
      PROVE  f \in FieldType /\ f.at + f.width <= emitted'
  <2>1. f \in FieldType /\ f.at + f.width <= emitted
    BY DEF FieldsInv
  <2> QED
    BY <1>1, <1>5, <1>6, <2>1 DEF FieldType
<1>9. FieldsInv'
  BY <1>1, <1>5, <1>6, <1>7, <1>8 DEF FieldsInv
<1>10. idf \in new /\ szf \in new
          /\ \A g \in contents : [g EXCEPT !.at = emitted + 8 + g.at] \in new
  BY DEF New
<1>11. \A f \in new : f = idf \/ f = szf
            \/ \E g \in contents : f = [g EXCEPT !.at = emitted + 8 + g.at]
  BY DEF New
<1> HIDE DEF idf, szf, new
<1>12. \A f \in new :
        \/ f.chunk = c /\ f.name = "id" /\ f.value = "id"
        \/ f.chunk = c /\ f.name = "size" /\ f.value = v /\ f.at = emitted + 4
        \/ \E g \in contents : /\ f.chunk = g.chunk /\ f.name = g.name
                               /\ f.value = g.value /\ f.at = emitted + 8 + g.at
  <2> TAKE f \in new
  <2>1. CASE f = idf
    BY <1>2, <2>1
  <2>2. CASE f = szf
    BY <1>3, <2>2
  <2>3. ASSUME NEW g \in contents, f = [g EXCEPT !.at = emitted + 8 + g.at]
        PROVE  /\ f.chunk = g.chunk /\ f.name = g.name
               /\ f.value = g.value /\ f.at = emitted + 8 + g.at
    BY <1>4, <2>3
  <2> QED
    BY <1>11, <2>1, <2>2, <2>3
<1>13. \E f \in new : f.chunk = c /\ f.name = "size" /\ f.value = v /\ f.at = emitted + 4
  BY <1>3, <1>10
<1>14. \A g \in contents : \E f \in new :
        /\ f.chunk = g.chunk /\ f.name = g.name
        /\ f.value = g.value /\ f.at = emitted + 8 + g.at
  BY <1>4, <1>10
<1> QED
  BY <1>5, <1>9, <1>12, <1>13, <1>14 DEF new

-----------------------------------------------------------------------------

\* Nothing is written yet.
Fresh ==
    /\ req \in RequestType
    /\ req.rf64 => req.seekable
    /\ stage = "check" /\ written = 0 /\ header_len = 0 /\ emitted = 0 /\ fields = {}
    /\ offsets = [riff |-> Absent, data |-> Absent, count |-> Absent]

LEMMA FreshInv == Fresh => Inv
<1> SUFFICES ASSUME Fresh PROVE Inv
  OBVIOUS
<1>1. FieldsInv
  BY DEF Fresh, FieldsInv
<1>2. StageInv
  <2>1. req.leading \in Seq([id : STRING, size : Nat])
    BY RequestFacts DEF Fresh
  <2>2. written \in 0 .. Len(req.leading)
    BY <2>1 DEF Fresh
  <2>3. offsets \in [{"riff", "data", "count"} -> Nat \cup {Absent}]
    BY DEF Fresh, Absent
  <2> QED
    BY <2>2, <2>3 DEF Fresh, StageInv, Underway
<1>3. SizesInv /\ UnsetInv
  BY DEF Fresh, SizesInv, UnsetInv, Located
<1>4. CountsInv
  BY DEF Fresh, CountsInv, Uncounted, CountedOnce
<1> QED
  BY <1>1, <1>2, <1>3, <1>4 DEF Inv

LEMMA InitInv == Init => Inv
BY RequestsTyped, FreshInv DEF Init, Fresh

LEMMA FailInv ==
    ASSUME Inv, Fail, stage = "check" \/ Underway
    PROVE  Inv'
<1>1. FieldsInv'
  BY DEF Inv, FieldsInv, Fail
<1>2. StageInv'
  BY DEF Inv, StageInv, Underway, Fail
<1>3. SizesInv' /\ CountsInv' /\ UnsetInv'
  BY DEF Inv, Fail, SizesInv, CountsInv, UnsetInv, Located, Underway
<1> QED
  BY <1>1, <1>2, <1>3 DEF Inv

LEMMA CheckInv ==
    ASSUME Inv, Check
    PROVE  Inv'
<1>1. CASE ~Acceptable
  BY <1>1, FailInv DEF Check
<1>2. CASE Acceptable
  <2>1. FieldsInv'
    BY <1>2 DEF Inv, FieldsInv, Check
  <2>2. Acceptable'
    BY <1>2 DEF Check, Acceptable
  <2>3. StageInv'
    BY <1>2, <2>2 DEF Inv, StageInv, Underway, Check
  <2>4. SizesInv' /\ UnsetInv'
    BY <1>2 DEF Inv, Check, SizesInv, UnsetInv, Located, Underway
  <2>5. CountsInv'
    BY <1>2 DEF Inv, Check, CountsInv, Uncounted, IsLateCount
  <2> QED
    BY <2>1, <2>3, <2>4, <2>5 DEF Inv
<1> QED
  BY <1>1, <1>2

\* The RIFF size is at 4 in either container, but is patched in RIFF alone.
LEMMA WriteRiffWaveInv ==
    ASSUME Inv, WriteRiffWave
    PROVE  Inv'
<1> DEFINE v == IF req.rf64 THEN "marker" ELSE "unset"
           form == Field("RIFF", "form", 0, 4, "id", 0)
           new == New("RIFF", v, 4, {form})
<1>1. /\ stage = "riff" /\ req' = req /\ offsets' = offsets /\ header_len' = header_len
      /\ written' = written
      /\ stage' = (IF req.rf64 THEN "ds64" ELSE "fmt")
      /\ EmitChunk("RIFF", v, 4, {form})
  BY DEF WriteRiffWave
<1>2. emitted = 0 /\ fields = {} /\ header_len = 12 /\ Acceptable /\ req.rf64 \in BOOLEAN
  BY <1>1, RequestFacts DEF Inv, StageInv
<1>3. /\ form \in FieldType /\ form.at = 0 /\ form.width = 4 /\ form.chunk = "RIFF"
      /\ form.name = "form" /\ form.value = "id"
  <2>1. "RIFF" \in Ids /\ "form" \in Names /\ "id" \in Values
    BY DEF Ids, ReservedIds, Names, Values
  <2> QED
    BY <2>1, FieldFacts
<1>4. v \in Values /\ "RIFF" \in Ids /\ v = (IF req.rf64 THEN "marker" ELSE "unset")
  BY DEF Ids, ReservedIds, Values
<1> HIDE DEF v, form, new
<1>5. /\ FieldsInv' /\ emitted' = emitted + ChunkLen(4) /\ fields' = fields \cup new
      /\ \A f \in new :
            \/ f.chunk = "RIFF" /\ f.name = "id" /\ f.value = "id"
            \/ f.chunk = "RIFF" /\ f.name = "size" /\ f.value = v /\ f.at = 4
            \/ f.chunk = "RIFF" /\ f.name = "form" /\ f.value = "id"
      /\ \E f \in new : f.chunk = "RIFF" /\ f.name = "size" /\ f.value = v /\ f.at = 4
  <2>1. {form} \in SUBSET FieldType /\ \A f \in {form} : f.at + f.width <= 4
    BY <1>3
  <2>2. FieldsInv /\ 4 \in Nat /\ emitted + 4 = 4
    BY <1>2 DEF Inv
  <2> QED
    BY <1>1, <1>2, <1>3, <1>4, <2>1, <2>2, Emitting DEF new
<1>6. emitted' = 12
  BY <1>2, <1>5 DEF ChunkLen, ChunkHeaderSize, PadOf
<1>7. StageInv'
  BY <1>1, <1>2, <1>6 DEF Inv, StageInv, Underway, Acceptable
<1>8. SizesInv'
  <2>1. CASE req.rf64
    BY <1>1, <1>2, <1>5, <2>1 DEF SizesInv, Located, IsLateSize
  <2>2. CASE ~req.rf64
    BY <1>1, <1>2, <1>5, <2>2 DEF SizesInv, SizesAt, Located, IsLateSize
  <2> QED
    BY <2>1, <2>2
<1>9. CountsInv'
  <2>1. Uncounted'
    BY <1>1, <1>2, <1>5 DEF Inv, CountsInv, Uncounted, IsLateCount
  <2> QED
    BY <1>1, <2>1 DEF CountsInv
<1>10. UnsetInv'
  BY <1>1, <1>2, <1>4, <1>5 DEF UnsetInv, IsLateSize
<1> QED
  BY <1>5, <1>7, <1>8, <1>9, <1>10 DEF Inv

\* A chunk of one body, that is neither RIFF nor data, adds no field that is
\* patched.
LEMMA PlainChunk ==
    ASSUME Inv, NEW c \in Ids, c \notin {"RIFF", "data"}, NEW n \in Nat,
           EmitChunk(c, "size", n, {})
    PROVE  /\ FieldsInv' /\ emitted' = emitted + ChunkLen(n)
           /\ ChunkLen(n) \in Nat /\ ChunkLen(n) >= 8
           /\ fields \subseteq fields'
           /\ \A f \in fields' :
                f \in fields \/ (~IsLateSize(f) /\ ~IsLateCount(f) /\ f.value # "unset")
<1> DEFINE new == New(c, "size", n, {})
<1>1. /\ FieldsInv' /\ emitted' = emitted + ChunkLen(n) /\ fields' = fields \cup new
      /\ \A f \in new :
            \/ f.chunk = c /\ f.name = "id" /\ f.value = "id"
            \/ f.chunk = c /\ f.name = "size" /\ f.value = "size"
  <2>1. "size" \in Values /\ {} \in SUBSET FieldType
    BY DEF Values
  <2> QED
    BY <2>1, Emitting DEF Inv
<1>2. ChunkLen(n) \in Nat /\ ChunkLen(n) >= 8
  BY ChunkLenFacts
<1> HIDE DEF new
<1>3. \A f \in new : ~IsLateSize(f) /\ ~IsLateCount(f) /\ f.value # "unset"
  BY <1>1 DEF IsLateSize, IsLateCount
<1> QED
  BY <1>1, <1>2, <1>3

\* What such a chunk leaves as it was.
LEMMA Carried ==
    ASSUME Inv, Underway, req' = req, offsets' = offsets, fields \subseteq fields',
           \A f \in fields' :
              f \in fields \/ (~IsLateSize(f) /\ ~IsLateCount(f) /\ f.value # "unset")
    PROVE  /\ SizesAt(4, 4) => SizesAt(4, 4)'
           /\ SizesAt(offsets.riff, offsets.data) => SizesAt(offsets.riff, offsets.data)'
           /\ Uncounted => Uncounted'
           /\ CountedOnce => CountedOnce'
           /\ UnsetInv'
<1>1. \A f : IsLateSize(f)' <=> IsLateSize(f)
  BY DEF IsLateSize
<1>2. \A f : IsLateCount(f)' <=> IsLateCount(f)
  BY DEF IsLateCount
<1>3. SizesAt(4, 4) => SizesAt(4, 4)'
  BY <1>1 DEF SizesAt
<1>4. SizesAt(offsets.riff, offsets.data) => SizesAt(offsets.riff, offsets.data)'
  BY <1>1 DEF SizesAt
<1>5. (Uncounted => Uncounted') /\ (CountedOnce => CountedOnce')
  BY <1>2 DEF Uncounted, CountedOnce
<1>6. UnsetInv'
  BY <1>1, <1>2 DEF Inv, UnsetInv
<1> QED
  BY <1>3, <1>4, <1>5, <1>6

LEMMA WriteFmtInv ==
    ASSUME Inv, WriteFmt
    PROVE  Inv'
<1>1. stage = "fmt" /\ Underway
  BY DEF WriteFmt, Underway
<1>2. CASE ~(req.fmt.extension <= U16Max)
  BY <1>1, <1>2, FailInv DEF WriteFmt
<1>3. CASE req.fmt.extension <= U16Max
  <2>1. /\ EmitChunk("fmt ", "size", FmtBodySize, {})
        /\ header_len' = header_len + ChunkLen(FmtBodySize)
        /\ stage' = (IF req.rf64 THEN "leading" ELSE "fact")
        /\ req' = req /\ written' = written /\ offsets' = offsets
    BY <1>3 DEF WriteFmt, FmtLen
  <2>2. req.rf64 \in BOOLEAN /\ FmtBodySize \in Nat
    <3>1. req.fmt \in Fmt /\ req.rf64 \in BOOLEAN
      BY RequestFacts DEF Inv, StageInv
    <3> QED
      BY <3>1 DEF Fmt, FmtBodySize, Absent
  <2>3. "fmt " \in Ids /\ "fmt " \notin {"RIFF", "data"}
    BY DEF Ids, ReservedIds
  <2> HIDE DEF FmtBodySize
  <2>4. /\ FieldsInv' /\ emitted' = emitted + ChunkLen(FmtBodySize)
        /\ ChunkLen(FmtBodySize) \in Nat
        /\ fields \subseteq fields'
        /\ \A f \in fields' :
             f \in fields \/ (~IsLateSize(f) /\ ~IsLateCount(f) /\ f.value # "unset")
    BY <2>1, <2>2, <2>3, PlainChunk
  <2>5. /\ SizesAt(4, 4) => SizesAt(4, 4)'
        /\ SizesAt(offsets.riff, offsets.data) => SizesAt(offsets.riff, offsets.data)'
        /\ Uncounted => Uncounted'
        /\ CountedOnce => CountedOnce'
        /\ UnsetInv'
    BY <1>1, <2>1, <2>4, Carried
  <2>6. StageInv'
    <3>1. Acceptable'
      BY <1>1, <2>1 DEF Inv, StageInv, Acceptable
    <3>2. header_len' = emitted' /\ emitted' >= 12 /\ header_len' \in Nat
      <4>1. header_len \in Nat /\ header_len = emitted /\ emitted >= 12
        BY <1>1 DEF Inv, StageInv
      <4>2. header_len' = header_len + ChunkLen(FmtBodySize)
        BY <2>1
      <4>3. emitted' = emitted + ChunkLen(FmtBodySize) /\ ChunkLen(FmtBodySize) \in Nat
        BY <2>4
      <4> QED
        BY <4>1, <4>2, <4>3
    <3>3. stage' \in {"leading", "fact"} /\ (stage' = "fact" => ~req.rf64)
      BY <2>1
    <3> QED
      BY <2>1, <3>1, <3>2, <3>3 DEF Inv, StageInv, Underway
  <2>7. SizesInv'
    BY <1>1, <2>1, <2>2, <2>5 DEF Inv, SizesInv, Located
  <2>8. CountsInv'
    BY <1>1, <2>1, <2>2, <2>5 DEF Inv, CountsInv
  <2> QED
    BY <2>4, <2>5, <2>6, <2>7, <2>8 DEF Inv
<1> QED
  BY <1>2, <1>3

LEMMA WriteLeadingInv ==
    ASSUME Inv, WriteLeading
    PROVE  Inv'
<1> DEFINE c == req.leading[written + 1]
<1>1. /\ stage = "leading" /\ Underway /\ written < Len(req.leading)
      /\ EmitChunk(c.id, "size", c.size, {})
      /\ header_len' = header_len + ChunkLen(c.size)
      /\ written' = written + 1
      /\ req' = req /\ stage' = stage /\ offsets' = offsets
  BY DEF WriteLeading, Underway
<1>2. /\ c.id \in Ids /\ c.size \in Nat /\ c.id \notin {"RIFF", "data"}
      /\ written + 1 \in 0 .. Len(req.leading)
  <2>1. /\ req.leading \in Seq([id : STRING, size : Nat])
        /\ written \in 0 .. Len(req.leading)
    BY RequestFacts DEF Inv, StageInv
  <2>2. written + 1 \in DOMAIN req.leading /\ written + 1 \in 1 .. Len(req.leading)
    BY <1>1, <2>1
  <2>3. c \in [id : STRING, size : Nat]
    BY <2>1, <2>2, ElementOfSeq
  <2>4. Suppliable(c, U32Max)
    BY <1>1, <2>2 DEF Inv, StageInv, Acceptable
  <2> HIDE DEF c
  <2>5. c.id \in STRING /\ c.size \in Nat
    BY <2>3
  <2>6. c.id \notin ReservedIds
    BY <2>4 DEF Suppliable
  <2>7. written + 1 \in 0 .. Len(req.leading)
    BY <2>2
  <2> QED
    BY <2>5, <2>6, <2>7 DEF ReservedIds, Ids
<1> HIDE DEF c
<1>3. /\ FieldsInv' /\ emitted' = emitted + ChunkLen(c.size)
      /\ ChunkLen(c.size) \in Nat
      /\ fields \subseteq fields'
      /\ \A f \in fields' :
           f \in fields \/ (~IsLateSize(f) /\ ~IsLateCount(f) /\ f.value # "unset")
  BY <1>1, <1>2, PlainChunk
<1>4. /\ SizesAt(4, 4) => SizesAt(4, 4)'
      /\ SizesAt(offsets.riff, offsets.data) => SizesAt(offsets.riff, offsets.data)'
      /\ Uncounted => Uncounted'
      /\ CountedOnce => CountedOnce'
      /\ UnsetInv'
  BY <1>1, <1>3, Carried
<1>5. StageInv'
  <2>1. Acceptable'
    BY <1>1 DEF Inv, StageInv, Acceptable
  <2> QED
    BY <1>1, <1>2, <1>3, <2>1 DEF Inv, FieldsInv, StageInv, Underway
<1>6. SizesInv'
  BY <1>1, <1>4 DEF Inv, SizesInv, Located
<1>7. CountsInv'
  BY <1>1, <1>4 DEF Inv, CountsInv
<1> QED
  BY <1>3, <1>4, <1>5, <1>6, <1>7 DEF Inv

\* ds64 records the places of its three sizes before it writes them.
LEMMA WriteDs64Inv ==
    ASSUME Inv, WriteDs64
    PROVE  Inv'
<1> DEFINE f1 == Field("ds64", "riffSize", 0, 8, "unset", 0)
           f2 == Field("ds64", "dataSize", 8, 8, "unset", 0)
           f3 == Field("ds64", "sampleCount", 16, 8, "zero", 0)
           f4 == Field("ds64", "table", 24, 4, "zero", 0)
           cs == {f1, f2, f3, f4}
           new == New("ds64", "size", 28, cs)
<1>1. /\ stage = "ds64" /\ stage' = "fmt" /\ req' = req /\ written' = written
      /\ offsets' = [riff |-> header_len + 8, data |-> header_len + 16,
                     count |-> header_len + 24]
      /\ header_len' = header_len + 36
      /\ EmitChunk("ds64", "size", 28, cs)
  BY DEF Inv, StageInv, WriteDs64, Ds64BodySize
<1>2. /\ req.rf64 /\ header_len = emitted /\ emitted >= 12 /\ header_len \in Nat
      /\ Acceptable /\ Uncounted /\ \A f \in fields : ~IsLateSize(f)
  BY <1>1 DEF Inv, StageInv, SizesInv, CountsInv, Underway
<1>3. /\ "ds64" \in Ids /\ "size" \in Values /\ "unset" \in Values /\ "zero" \in Values
      /\ "riffSize" \in Names /\ "dataSize" \in Names /\ "sampleCount" \in Names
      /\ "table" \in Names
  BY DEF Ids, ReservedIds, Names, Values
<1>4. f1 \in FieldType /\ f1.chunk = "ds64" /\ f1.name = "riffSize" /\ f1.at = 0
        /\ f1.width = 8 /\ f1.value = "unset"
  BY <1>3, FieldFacts
<1>5. f2 \in FieldType /\ f2.chunk = "ds64" /\ f2.name = "dataSize" /\ f2.at = 8
        /\ f2.width = 8 /\ f2.value = "unset"
  BY <1>3, FieldFacts
<1>6. f3 \in FieldType /\ f3.chunk = "ds64" /\ f3.name = "sampleCount" /\ f3.at = 16
        /\ f3.width = 8 /\ f3.value = "zero"
  BY <1>3, FieldFacts
<1>7. f4 \in FieldType /\ f4.chunk = "ds64" /\ f4.name = "table" /\ f4.at = 24
        /\ f4.width = 4 /\ f4.value = "zero"
  BY <1>3, FieldFacts
<1> HIDE DEF f1, f2, f3, f4
<1>8. cs \in SUBSET FieldType /\ \A f \in cs : f.at + f.width <= 28
  BY <1>4, <1>5, <1>6, <1>7
<1>9. /\ \A g \in cs : g = f1 \/ g = f2 \/ g = f3 \/ g = f4
      /\ f1 \in cs /\ f2 \in cs /\ f3 \in cs
  OBVIOUS
<1> HIDE DEF cs, new
<1>10. /\ FieldsInv' /\ emitted' = emitted + ChunkLen(28) /\ fields' = fields \cup new
       /\ \A f \in new :
             \/ f.chunk = "ds64" /\ f.name = "id" /\ f.value = "id"
             \/ f.chunk = "ds64" /\ f.name = "size" /\ f.value = "size" /\ f.at = emitted + 4
             \/ \E g \in cs : /\ f.chunk = g.chunk /\ f.name = g.name
                                            /\ f.value = g.value
                                            /\ f.at = emitted + 8 + g.at
       /\ \A g \in cs : \E f \in new :
             /\ f.chunk = g.chunk /\ f.name = g.name
             /\ f.value = g.value /\ f.at = emitted + 8 + g.at
  <2>1. 28 \in Nat /\ FieldsInv
    BY DEF Inv
  <2> QED
    BY <1>1, <1>3, <1>8, <2>1, Emitting DEF new
<1>11. \A f \in new :
        \/ f.chunk = "ds64" /\ f.name \in {"id", "size", "table"} /\ f.value # "unset"
        \/ f.chunk = "ds64" /\ f.name = "riffSize" /\ f.at = header_len + 8
        \/ f.chunk = "ds64" /\ f.name = "dataSize" /\ f.at = header_len + 16
        \/ f.chunk = "ds64" /\ f.name = "sampleCount" /\ f.at = header_len + 24
              /\ f.value = "zero"
  BY <1>2, <1>4, <1>5, <1>6, <1>7, <1>9, <1>10
<1>12. /\ \E f \in new : f.chunk = "ds64" /\ f.name = "riffSize" /\ f.at = header_len + 8
       /\ \E f \in new : f.chunk = "ds64" /\ f.name = "dataSize" /\ f.at = header_len + 16
       /\ \E f \in new : f.chunk = "ds64" /\ f.name = "sampleCount" /\ f.value = "zero"
  BY <1>2, <1>4, <1>5, <1>6, <1>9, <1>10
<1>13. /\ offsets'.riff = header_len + 8 /\ offsets'.data = header_len + 16
       /\ offsets'.count = header_len + 24
       /\ offsets' \in [{"riff", "data", "count"} -> Nat \cup {Absent}]
  BY <1>1, <1>2
<1>14. StageInv'
  <2>1. Acceptable'
    BY <1>1, <1>2 DEF Acceptable
  <2>2. emitted' = emitted + 36
    BY <1>10 DEF ChunkLen, ChunkHeaderSize, PadOf
  <2> QED
    BY <1>1, <1>2, <1>13, <2>1, <2>2 DEF Inv, StageInv, Underway
<1>15. SizesInv'
  <2>1. SizesAt(offsets.riff, offsets.data)'
    BY <1>1, <1>2, <1>10, <1>11, <1>12, <1>13 DEF SizesAt, IsLateSize
  <2> QED
    BY <1>1, <1>2, <1>13, <2>1 DEF SizesInv, Located
<1>16. CountsInv'
  <2>1. CountedOnce'
    BY <1>2, <1>10, <1>11, <1>12, <1>13 DEF CountedOnce, Uncounted, IsLateCount
  <2> QED
    BY <1>1, <1>2, <2>1 DEF CountsInv
<1>17. UnsetInv'
  BY <1>1, <1>2, <1>10, <1>11 DEF Inv, UnsetInv, Underway, IsLateSize, IsLateCount
<1> QED
  BY <1>10, <1>14, <1>15, <1>16, <1>17 DEF Inv

\* The stages on either side of the fact chunk.
LEMMA FactStage ==
    ASSUME Inv, stage = "fact", stage' = "leading", req' = req, written' = written,
           offsets' \in [{"riff", "data", "count"} -> Nat \cup {Absent}],
           NEW n \in Nat, header_len' = header_len + n, emitted' = emitted + n
    PROVE  StageInv'
<1>1. Acceptable'
  BY DEF Inv, StageInv, Acceptable
<1>2. header_len \in Nat /\ header_len = emitted /\ emitted >= 12
  BY DEF Inv, StageInv, Underway
<1> QED
  BY <1>1, <1>2 DEF Inv, StageInv, Underway

LEMMA NoFactInv ==
    ASSUME Inv, stage = "fact", stage' = "leading", req' = req, written' = written,
           NoFact
    PROVE  Inv'
<1>1. UNCHANGED <<header_len, offsets, emitted, fields>> /\ Underway
  BY DEF NoFact, Underway
<1>2. FieldsInv'
  BY <1>1 DEF Inv, FieldsInv
<1>3. StageInv'
  <2>1. header_len \in Nat /\ emitted \in Nat
    BY DEF Inv, StageInv, FieldsInv
  <2>2. header_len' = header_len + 0 /\ emitted' = emitted + 0
    BY <1>1, <2>1
  <2>3. offsets' \in [{"riff", "data", "count"} -> Nat \cup {Absent}]
    BY <1>1 DEF Inv, StageInv
  <2> QED
    BY <2>2, <2>3, FactStage
<1>4. /\ SizesAt(4, 4) => SizesAt(4, 4)'
      /\ Uncounted => Uncounted'
      /\ UnsetInv'
  BY <1>1, Carried
<1>5. SizesInv' /\ CountsInv'
  BY <1>4 DEF Inv, StageInv, SizesInv, Located, CountsInv
<1> QED
  BY <1>2, <1>3, <1>4, <1>5 DEF Inv

LEMMA VerbatimFactInv ==
    ASSUME Inv, stage = "fact", stage' = "leading", req' = req, written' = written,
           VerbatimFact
    PROVE  Inv'
<1> DEFINE n == req.fact.len
<1>1. /\ EmitChunk("fact", "size", n, {}) /\ header_len' = header_len + ChunkLen(n)
      /\ offsets' = offsets /\ Underway
  BY DEF VerbatimFact, Underway
<1>2. n \in Nat
  BY RequestFacts DEF Inv, StageInv, Fact
<1>3. "fact" \in Ids /\ "fact" \notin {"RIFF", "data"}
  BY DEF Ids, ReservedIds
<1> HIDE DEF n
<1>4. /\ FieldsInv' /\ emitted' = emitted + ChunkLen(n)
      /\ ChunkLen(n) \in Nat
      /\ fields \subseteq fields'
      /\ \A f \in fields' :
           f \in fields \/ (~IsLateSize(f) /\ ~IsLateCount(f) /\ f.value # "unset")
  BY <1>1, <1>2, <1>3, PlainChunk
<1>5. /\ SizesAt(4, 4) => SizesAt(4, 4)'
      /\ Uncounted => Uncounted'
      /\ UnsetInv'
  BY <1>1, <1>4, Carried
<1>6. StageInv'
  <2>1. offsets' \in [{"riff", "data", "count"} -> Nat \cup {Absent}]
    BY <1>1 DEF Inv, StageInv
  <2> QED
    BY <1>1, <1>4, <2>1, FactStage
<1>7. SizesInv' /\ CountsInv'
  BY <1>5 DEF Inv, StageInv, SizesInv, Located, CountsInv
<1> QED
  BY <1>4, <1>5, <1>6, <1>7 DEF Inv

\* The count of a RIFF file is the first behind the header of the fact chunk.
LEMMA CountFactInv ==
    ASSUME Inv, stage = "fact", stage' = "leading", req' = req, written' = written,
           CountFact
    PROVE  Inv'
<1> DEFINE v == IF FactToWrite = "counted" THEN "unset" ELSE "fixed"
           k == IF FactToWrite = "counted" THEN U32Max ELSE req.fact.count
           g == Field("fact", "dwSampleLength", 0, 4, v, k)
           cs == {g}
           new == New("fact", "size", 4, cs)
<1>1. /\ EmitChunk("fact", "size", 4, cs)
      /\ header_len' = header_len + ChunkLen(4)
      /\ offsets' = (IF FactToWrite = "counted"
                     THEN [offsets EXCEPT !.count = header_len + 8] ELSE offsets)
  <2>1. CASE FactToWrite = "counted"
    BY <2>1 DEF CountFact, FactOffset
  <2>2. CASE FactToWrite # "counted"
    BY <2>2 DEF CountFact
  <2> QED
    BY <2>1, <2>2
<1>2. /\ ~req.rf64 /\ header_len = emitted /\ header_len \in Nat
      /\ Uncounted /\ SizesAt(4, 4) /\ Underway
      /\ offsets \in [{"riff", "data", "count"} -> Nat \cup {Absent}]
  BY DEF Inv, StageInv, SizesInv, CountsInv, Underway
<1>3. /\ g \in FieldType /\ g.chunk = "fact" /\ g.name = "dwSampleLength" /\ g.at = 0
      /\ g.width = 4 /\ g.value = v
  <2>1. "fact" \in Ids /\ "dwSampleLength" \in Names /\ v \in Values
    BY DEF Ids, ReservedIds, Names, Values
  <2>2. k \in Int
    BY LimitsAssumption, RequestFacts DEF Inv, StageInv, Fact
  <2> HIDE DEF v, k
  <2> QED
    BY <2>1, <2>2, FieldFacts
<1>4. v = (IF FactToWrite = "counted" THEN "unset" ELSE "fixed")
  OBVIOUS
<1> HIDE DEF v, k, g
<1>5. cs \in SUBSET FieldType /\ \A f \in cs : f.at + f.width <= 4
  BY <1>3
<1>6. g \in cs /\ \A h \in cs : h = g
  OBVIOUS
<1> HIDE DEF cs, new
<1>7. /\ FieldsInv' /\ emitted' = emitted + ChunkLen(4) /\ fields' = fields \cup new
      /\ \A f \in new :
            \/ f.chunk = "fact" /\ f.name = "id" /\ f.value = "id"
            \/ f.chunk = "fact" /\ f.name = "size" /\ f.value = "size" /\ f.at = emitted + 4
            \/ \E h \in cs : /\ f.chunk = h.chunk /\ f.name = h.name
                              /\ f.value = h.value /\ f.at = emitted + 8 + h.at
      /\ \A h \in cs : \E f \in new :
            /\ f.chunk = h.chunk /\ f.name = h.name
            /\ f.value = h.value /\ f.at = emitted + 8 + h.at
  <2>1. "fact" \in Ids /\ "size" \in Values
    BY DEF Ids, ReservedIds, Values
  <2>2. 4 \in Nat /\ FieldsInv
    BY DEF Inv
  <2> QED
    BY <1>1, <1>5, <2>1, <2>2, Emitting DEF new
<1>8. /\ \A f \in new :
            \/ f.chunk = "fact" /\ f.name \in {"id", "size"} /\ f.value # "unset"
            \/ f.chunk = "fact" /\ f.name = "dwSampleLength" /\ f.value = v
                  /\ f.at = header_len + 8
      /\ \E f \in new : f.chunk = "fact" /\ f.name = "dwSampleLength" /\ f.value = v
  BY <1>2, <1>3, <1>7, <1>6
<1>9. StageInv'
  <2>1. offsets' \in [{"riff", "data", "count"} -> Nat \cup {Absent}]
    BY <1>1, <1>2
  <2>2. ChunkLen(4) \in Nat
    BY ChunkLenFacts
  <2> QED
    BY <1>1, <1>7, <2>1, <2>2, FactStage
<1>10. SizesInv'
  <2>1. SizesAt(4, 4)'
    BY <1>2, <1>7, <1>8 DEF SizesAt, IsLateSize
  <2> QED
    BY <1>2, <2>1 DEF SizesInv, Located
<1>11. CountsInv'
  <2>1. CASE FactToWrite = "counted"
    <3>1. offsets'.count = header_len + 8 /\ v = "unset"
      BY <1>1, <1>2, <1>4, <2>1
    <3>2. CountedOnce'
      BY <1>2, <1>7, <1>8, <3>1 DEF CountedOnce, Uncounted, IsLateCount
    <3> QED
      BY <3>2 DEF CountsInv
  <2>2. CASE FactToWrite # "counted"
    <3>1. offsets' = offsets /\ v = "fixed"
      BY <1>1, <1>4, <2>2
    <3>2. Uncounted'
      BY <1>2, <1>7, <1>8, <3>1 DEF Uncounted, IsLateCount
    <3> QED
      BY <3>2 DEF CountsInv
  <2> QED
    BY <2>1, <2>2
<1>12. UnsetInv'
  BY <1>2, <1>4, <1>7, <1>8 DEF Inv, UnsetInv, Underway, IsLateSize, IsLateCount
<1> QED
  BY <1>7, <1>9, <1>10, <1>11, <1>12 DEF Inv

LEMMA WriteFactInv ==
    ASSUME Inv, WriteFact
    PROVE  Inv'
<1>1. CASE FactTooLarge
  BY <1>1, FailInv DEF WriteFact, Underway
<1>2. CASE ~FactTooLarge
  <2>1. /\ stage = "fact" /\ stage' = "leading" /\ req' = req /\ written' = written
        /\ NoFact \/ VerbatimFact \/ CountFact
    BY <1>2 DEF WriteFact
  <2>2. CASE NoFact
    BY <2>1, <2>2, NoFactInv
  <2>3. CASE VerbatimFact
    BY <2>1, <2>3, VerbatimFactInv
  <2>4. CASE CountFact
    BY <2>1, <2>4, CountFactInv
  <2> QED
    BY <2>1, <2>2, <2>3, <2>4
<1> QED
  BY <1>1, <1>2

\* The data chunk comes last; its size is patched in RIFF alone.
LEMMA WriteDataHeaderInv ==
    ASSUME Inv, WriteDataHeader
    PROVE  Inv'
<1> DEFINE v == IF req.rf64 THEN "marker" ELSE "unset"
           new == New("data", v, 0, {})
<1>1. /\ stage = "leading" /\ stage' = "done" /\ req' = req /\ written' = written
      /\ EmitChunk("data", v, 0, {})
      /\ offsets' = (IF req.rf64 THEN offsets
                     ELSE [offsets EXCEPT !.riff = 4, !.data = header_len + 4])
      /\ header_len' = header_len + 8
  BY DEF WriteDataHeader
<1>2. /\ header_len = emitted /\ header_len \in Nat /\ emitted >= 12 /\ Underway
      /\ offsets \in [{"riff", "data", "count"} -> Nat \cup {Absent}]
      /\ req.rf64 \in BOOLEAN
  BY <1>1, RequestFacts DEF Inv, StageInv, Underway
<1>3. v \in Values /\ "data" \in Ids /\ v = (IF req.rf64 THEN "marker" ELSE "unset")
  BY DEF Ids, ReservedIds, Values
<1> HIDE DEF v, new
<1>4. /\ FieldsInv' /\ emitted' = emitted + ChunkLen(0) /\ fields' = fields \cup new
      /\ \A f \in new :
            \/ f.chunk = "data" /\ f.name = "id" /\ f.value = "id"
            \/ f.chunk = "data" /\ f.name = "size" /\ f.value = v /\ f.at = emitted + 4
      /\ \E f \in new :
            f.chunk = "data" /\ f.name = "size" /\ f.value = v /\ f.at = emitted + 4
  <2>1. FieldsInv /\ 0 \in Nat /\ {} \in SUBSET FieldType
    BY DEF Inv
  <2> QED
    BY <1>1, <1>3, <2>1, Emitting DEF new
<1>5. emitted' = header_len' /\ emitted' >= 12 /\ header_len' \in Nat
  BY <1>1, <1>2, <1>4 DEF ChunkLen, ChunkHeaderSize, PadOf
<1>6. CASE req.rf64
  <2>1. offsets' = offsets /\ v = "marker"
    BY <1>1, <1>3, <1>6
  <2>2. \A f \in new : ~IsLateSize(f) /\ ~IsLateCount(f) /\ f.value # "unset"
    BY <1>4, <1>6, <2>1 DEF IsLateSize, IsLateCount
  <2>3. /\ SizesAt(offsets.riff, offsets.data) => SizesAt(offsets.riff, offsets.data)'
        /\ Uncounted => Uncounted'
        /\ CountedOnce => CountedOnce'
        /\ UnsetInv'
    BY <1>1, <1>2, <1>4, <2>1, <2>2, Carried
  <2>4. StageInv'
    <3>1. Acceptable'
      BY <1>1 DEF Inv, StageInv, Acceptable
    <3> QED
      BY <1>1, <1>2, <1>5, <2>1, <3>1 DEF Inv, StageInv, Underway
  <2>5. SizesInv' /\ CountsInv'
    BY <1>1, <1>6, <2>1, <2>3 DEF Inv, SizesInv, CountsInv, Located
  <2> QED
    BY <1>4, <2>3, <2>4, <2>5 DEF Inv
<1>7. CASE ~req.rf64
  <2>1. /\ offsets'.riff = 4 /\ offsets'.data = header_len + 4
        /\ offsets'.count = offsets.count
        /\ offsets' \in [{"riff", "data", "count"} -> Nat \cup {Absent}]
        /\ v = "unset"
    <3>1. offsets' = [offsets EXCEPT !.riff = 4, !.data = header_len + 4]
      BY <1>1, <1>7
    <3>2. v = "unset"
      BY <1>3, <1>7
    <3>3. 4 \in Nat \cup {Absent} /\ header_len + 4 \in Nat \cup {Absent}
      BY <1>2
    <3>4. offsets'.riff = 4 /\ offsets'.data = header_len + 4
          /\ offsets'.count = offsets.count
      BY <1>2, <3>1
    <3>5. offsets' \in [{"riff", "data", "count"} -> Nat \cup {Absent}]
      BY <1>2, <3>1, <3>3
    <3> QED
      BY <3>2, <3>4, <3>5
  <2>2. SizesAt(4, 4)
    BY <1>1, <1>7 DEF Inv, SizesInv
  <2>3. StageInv'
    <3>1. Acceptable'
      BY <1>1 DEF Inv, StageInv, Acceptable
    <3> QED
      BY <1>1, <1>2, <1>5, <2>1, <3>1 DEF Inv, StageInv, Underway
  <2>4. SizesInv'
    <3>1. SizesAt(offsets.riff, offsets.data)'
      BY <1>1, <1>2, <1>4, <1>7, <2>1, <2>2 DEF SizesAt, IsLateSize
    <3>2. offsets'.riff < offsets'.data /\ offsets'.riff \in Nat /\ offsets'.data \in Nat
      BY <1>2, <2>1
    <3> QED
      BY <1>1, <3>1, <3>2 DEF SizesInv
  <2>5. CountsInv'
    <3>1. (Uncounted => Uncounted') /\ (CountedOnce => CountedOnce')
      BY <1>4, <2>1 DEF Uncounted, CountedOnce, IsLateCount
    <3> QED
      BY <1>1, <3>1 DEF Inv, CountsInv
  <2>6. UnsetInv'
    BY <1>1, <1>2, <1>4, <1>7 DEF Inv, UnsetInv, IsLateSize, IsLateCount
  <2> QED
    BY <1>4, <2>3, <2>4, <2>5, <2>6 DEF Inv
<1> QED
  BY <1>2, <1>6, <1>7

LEMMA NextInv == Inv /\ [Next]_vars => Inv'
<1> SUFFICES ASSUME Inv, [Next]_vars PROVE Inv'
  OBVIOUS
<1>1. CASE UNCHANGED vars
  <2>1. FieldsInv' /\ StageInv'
    BY <1>1 DEF vars, Inv, FieldsInv, StageInv, Underway, Acceptable
  <2>2. SizesInv' /\ CountsInv' /\ UnsetInv'
    BY <1>1 DEF vars, Inv, SizesInv, SizesAt, CountsInv, Uncounted, CountedOnce,
                UnsetInv, Located, Underway, IsLateSize, IsLateCount
  <2> QED
    BY <2>1, <2>2 DEF Inv
<1>2. CASE Check
  BY <1>2, CheckInv
<1>3. CASE WriteRiffWave
  BY <1>3, WriteRiffWaveInv
<1>4. CASE WriteDs64
  BY <1>4, WriteDs64Inv
<1>5. CASE WriteFmt
  BY <1>5, WriteFmtInv
<1>6. CASE WriteFact
  BY <1>6, WriteFactInv
<1>7. CASE WriteLeading
  BY <1>7, WriteLeadingInv
<1>8. CASE WriteDataHeader
  BY <1>8, WriteDataHeaderInv
<1> QED
  BY <1>1, <1>2, <1>3, <1>4, <1>5, <1>6, <1>7, <1>8 DEF Next

LEMMA Invariance == Spec => []Inv
BY InitInv, NextInv, PTL DEF Spec

-----------------------------------------------------------------------------

\* Every variable keeps its type, and no field reaches past the bytes written
\* (write_header).
THEOREM HeaderTypeCorrect == Spec => []TypeOK
<1>1. Inv /\ req \in Requests => TypeOK
  BY DEF Inv, FieldsInv, StageInv, TypeOK
<1>2. Init => req \in Requests
  BY DEF Init
<1>3. req \in Requests /\ [Next]_vars => (req \in Requests)'
  BY DEF Next, vars, Check, Fail, WriteRiffWave, WriteDs64, WriteFmt, WriteFact,
         WriteLeading, WriteDataHeader
<1> QED
  BY <1>1, <1>2, <1>3, Invariance, PTL DEF Spec

\* The running position of write_header is the number of bytes it has put out,
\* whatever the extension, the fact chunk and the leading chunks.
THEOREM PositionCounts == Spec => []PositionCountsBytes
<1>1. Inv => PositionCountsBytes
  BY DEF Inv, StageInv, PositionCountsBytes, Underway
<1> QED
  BY <1>1, Invariance, PTL

\* The offsets that finalize patches are those of the fields whose values are
\* not known when the header is written, all of them and no others.
THEOREM OffsetsHit == Spec => []OffsetsHitTheirFields
<1>1. Inv => OffsetsHitTheirFields
  <2> SUFFICES ASSUME Inv, stage = "done"
               PROVE  /\ {f \in fields : f.value = "unset"} \subseteq LateSizes \cup LateCounts
                      /\ {f.at : f \in LateSizes} = {offsets.riff, offsets.data}
                      /\ offsets.riff < offsets.data
                      /\ offsets.count # Absent <=> LateCounts # {}
                      /\ \A f \in LateCounts : f.at = offsets.count
    BY DEF OffsetsHitTheirFields
  <2>1. LateSizes = {f \in fields : IsLateSize(f)}
    BY DEF LateSizes, IsLateSize
  <2>2. LateCounts = {f \in fields : IsLateCount(f)}
    BY DEF LateCounts, IsLateCount
  <2>3. {f \in fields : f.value = "unset"} \subseteq LateSizes \cup LateCounts
    BY <2>1, <2>2 DEF Inv, UnsetInv, Underway
  <2>4. SizesAt(offsets.riff, offsets.data) /\ offsets.riff < offsets.data
    BY DEF Inv, SizesInv, Located
  <2>5. {f.at : f \in LateSizes} = {offsets.riff, offsets.data}
    BY <2>1, <2>4 DEF SizesAt
  <2>6. Uncounted \/ CountedOnce
    BY DEF Inv, CountsInv
  <2>7. /\ offsets.count # Absent <=> LateCounts # {}
        /\ \A f \in LateCounts : f.at = offsets.count
    BY <2>2, <2>6 DEF Uncounted, CountedOnce, Absent
  <2> QED
    BY <2>3, <2>4, <2>5, <2>7
<1> QED
  BY <1>1, Invariance, PTL
=============================================================================
