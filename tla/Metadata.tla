------------------------------ MODULE Metadata ------------------------------
(***************************************************************************)
(* The typed metadata (src/metadata.rs): bodies of LIST/INFO, LIST/adtl,   *)
(* bext, cue and smpl chunks, decoded into values a caller edits, and      *)
(* encoded again.  A body comes from a file somebody else wrote: sizes lie,*)
(* counts promise more than there is, text is in any encoding.  Decoding   *)
(* is lossy where it has to be; what matters is that nothing is lost that  *)
(* need not be, and nothing on the second pass.                            *)
(*                                                                         *)
(* A body is its bytes.  Text is as wide as in the code; every other field *)
(* has half its width, so that a u32 is a number of two bytes, an id is    *)
(* two letters and a cue point has 12 bytes.  Sizes keep their parity.     *)
(***************************************************************************)
EXTENDS Integers, SequencesExt

Byte == 0 .. 255

CONSTANTS
    Kinds,          \* the decoders looked at
    Found,          \* the chunks each may be given: [id, data]
    Supplied,       \* the values a caller may fill in for each
    Texts,          \* the texts a caller may put in a tag
    TagIds,         \* the ids of the tags a caller edits
    Widths,         \* bext: the widths of the text fields, scaled down
    Copied,         \* bext: version, umid and loudness, bytes that are copied
    Reserved,       \* bext: the reserved bytes
    MaxEdits,       \* bound: edits between a read and a write
    MaxWrites       \* bound: the times a chunk is written

ASSUME BoundsAssumption ==
    /\ Kinds \subseteq {"INFO", "adtl", "bext", "cue ", "smpl"}
    /\ Widths \in Seq(Nat)
    /\ Copied \in Nat /\ Reserved \in Nat
    /\ MaxEdits \in Nat /\ MaxWrites \in Nat

U32Max == 65535
U32 == 0 .. U32Max

VARIABLES
    kind,       \* which decoder is used
    chunk,      \* the chunk as it is in the file
    stage,      \* "found", "read" or "written"
    value,      \* what was decoded, and edited since; see None
    written,    \* history: what was last written
    reread,     \* history: whether that had been read, and not edited
    edits,      \* edits since the last read
    writes      \* writes so far

vars == <<kind, chunk, stage, value, written, reread, edits, writes>>

\* An Option<T> is a sequence of at most one T.
None == << >>
Some(v) == <<v>>

Smaller(a, b) == IF a < b THEN a ELSE b

\* The elements of a sequence that are at the places S, in order.
Kept(s, S) == FlattenSeq([i \in DOMAIN s |-> IF i \in S THEN <<s[i]>> ELSE << >>])

Zeros(n) == [i \in 1 .. n |-> 0]

\* n bytes from an offset.
Bytes(b, at, n) == SubSeq(b, at + 1, at + n)

\* Everything from an offset on.
Rest(b, at) == SubSeq(b, at + 1, Len(b))

NumberAt(b, at) == b[at + 1] + 256 * b[at + 2]
NumberBytes(n) == <<n % 256, (n \div 256) % 256>>

\* Fields of one number each, one after the other.
Numbers(b) == [i \in 1 .. Len(b) \div 2 |-> NumberAt(b, 2 * (i - 1))]
AllBytes(numbers) == FlattenSeq([i \in DOMAIN numbers |-> NumberBytes(numbers[i])])

-----------------------------------------------------------------------------
(* Text.  A string is the sequence of its code points.                     *)

\* A char: a code point that is no surrogate.
IsChar(c) == c \in Nat /\ c <= 1114111 /\ ~(55296 <= c /\ c <= 57343)

Malformed == -1

SequenceLen(lead) ==
    CASE lead < 128         -> 1
      [] lead \in 192 .. 223 -> 2
      [] lead \in 224 .. 239 -> 3
      [] lead \in 240 .. 247 -> 4
      [] OTHER              -> 0

Utf8Len(c) == IF c < 128 THEN 1 ELSE IF c < 2048 THEN 2 ELSE IF c < 65536 THEN 3 ELSE 4

\* Bytes behind the first carry six bits each.
Low(c) == 128 + (c % 64)

Utf8(c) ==
    CASE Utf8Len(c) = 1 -> <<c>>
      [] Utf8Len(c) = 2 -> <<192 + c \div 64, Low(c)>>
      [] Utf8Len(c) = 3 -> <<224 + c \div 4096, Low(c \div 64), Low(c)>>
      [] Utf8Len(c) = 4 -> <<240 + (c \div 64) \div 4096, Low(c \div 4096), Low(c \div 64), Low(c)>>

\* The bits of a sequence of n bytes.
Bits(b, i, n) ==
    CASE n = 1 -> b[i]
      [] n = 2 -> 64 * (b[i] - 192) + (b[i + 1] - 128)
      [] n = 3 -> 4096 * (b[i] - 224) + 64 * (b[i + 1] - 128) + (b[i + 2] - 128)
      [] n = 4 -> 64 * (4096 * (b[i] - 240) + 64 * (b[i + 1] - 128) + (b[i + 2] - 128))
                    + (b[i + 3] - 128)

\* The char encoded at a place, which has to be in its shortest form.
CharAt(b, i) ==
    LET n == SequenceLen(b[i])
    IN  IF /\ n # 0
           /\ i + n - 1 <= Len(b)
           /\ \A k \in i + 1 .. i + n - 1 : b[k] \in 128 .. 191
           /\ IsChar(Bits(b, i, n)) /\ Utf8Len(Bits(b, i, n)) = n
        THEN Bits(b, i, n) ELSE Malformed

\* str::from_utf8: the chars, up to the first that is malformed.
CharsFrom(b) ==
    LET from[i \in 1 .. Len(b) + 1] ==
            IF i > Len(b) THEN << >>
            ELSE IF CharAt(b, i) = Malformed THEN <<Malformed>>
            ELSE <<CharAt(b, i)>> \o from[i + Utf8Len(CharAt(b, i))]
    IN  from

FromUtf8(b) == CharsFrom(b)[1]

IsUtf8(b) == ~Contains(FromUtf8(b), Malformed)

\* What comes before the first NUL.
BeforeNul(b) ==
    IF Contains(b, 0)
    THEN SubSeq(b, 1, (CHOOSE i \in DOMAIN b : b[i] = 0 /\ 0 \notin {b[k] : k \in 1 .. i - 1}) - 1)
    ELSE b

\* Mutant: from_utf8_lossy.
DecodeTextLossy(raw) ==
    LET field == BeforeNul(raw)
    IN  IF IsUtf8(field) THEN FromUtf8(field)
        ELSE [i \in DOMAIN field |-> IF field[i] < 128 THEN field[i] ELSE 65533]

\* decode_text: UTF-8 if it is that, and Latin-1 otherwise.
DecodeText(raw) ==
    LET field == BeforeNul(raw)
    IN  IF IsUtf8(field) THEN FromUtf8(field) ELSE field

IsLatin1(s) == \A i \in DOMAIN s : s[i] <= 255

\* The first k characters, one byte each or as UTF-8.
Encoded(s, k) ==
    IF IsLatin1(s) THEN SubSeq(s, 1, k) ELSE FlattenSeq([i \in 1 .. k |-> Utf8(s[i])])

\* Mutant: Latin-1 whatever the characters.
EncodeTextLatin1(s, max) == SubSeq(s, 1, Smaller(Len(s), max))

\* Mutant: UTF-8 whatever the characters.
EncodeTextUtf8(s, max) ==
    LET fits == {k \in 0 .. Len(s) : Len(FlattenSeq([i \in 1 .. k |-> Utf8(s[i])])) <= max}
        n == CHOOSE k \in fits : \A j \in fits : j <= k
    IN  FlattenSeq([i \in 1 .. n |-> Utf8(s[i])])

\* encode_text: the characters that fit whole into max bytes.
EncodeText(s, max) ==
    LET fits == {k \in 0 .. Len(s) : Len(Encoded(s, k)) <= max}
    IN  Encoded(s, CHOOSE k \in fits : \A j \in fits : j <= k)

EncodeAll(s) == EncodeText(s, 4 * Len(s))

EncodeFixed(s, width) ==
    LET b == EncodeText(s, width) IN b \o Zeros(width - Len(b))

-----------------------------------------------------------------------------
(* Sub-chunks: an id, a size and that many bytes, padded to an even length.*)

SubHeader == 4

\* Mutant: an odd sub-chunk is not padded.
SubChunkUnpadded(id, data) == id \o NumberBytes(Len(data)) \o data

\* push_subchunk.
SubChunk(id, data) == id \o NumberBytes(Len(data)) \o data \o Zeros(Len(data) % 2)

\* The loops of InfoList::from_bytes and AdtlList::from_bytes: a sub-chunk that
\* is cut off is the end.
SubChunksFrom(b) ==
    LET from[pos \in 0 .. Len(b) + 1] ==
            IF pos + SubHeader > Len(b) THEN << >>
            ELSE LET size == NumberAt(b, pos + 2)
                     at == pos + SubHeader
                 IN  IF at + size > Len(b) THEN << >>
                     ELSE <<[id |-> Bytes(b, pos, 2), data |-> Bytes(b, at, size)]>>
                            \o from[at + size + (size % 2)]
    IN  from

SubChunks(b) == SubChunksFrom(b)[2]

HasForm(b, form) == Len(b) >= 2 /\ Bytes(b, 0, 2) = form

INFO == <<73, 78>>      \* "IN"
ADTL == <<97, 100>>     \* "ad"
LABL == <<108, 97>>     \* "la"
NOTE == <<110, 111>>    \* "no"
LTXT == <<108, 116>>    \* "lt"

\* An InfoList is its tags.
InfoFromBytes(b) ==
    IF ~HasForm(b, INFO) THEN None
    ELSE LET subs == SubChunks(b)
         IN  Some([i \in DOMAIN subs |-> [id |-> subs[i].id, text |-> DecodeText(subs[i].data)]])

InfoToBytes(tags) ==
    INFO \o FlattenSeq([i \in DOMAIN tags |->
                            SubChunk(tags[i].id, EncodeAll(tags[i].text) \o <<0>>)])

(* An AdtlList is its entries.  Behind the cue id, a labelled text has     *)
(* eight bytes more: its length, purpose, country and so on.               *)
FixedLen(id) == IF id = LTXT THEN 10 ELSE 2

\* Unknown sub-chunks, and those that are too short, are skipped.
IsEntry(sub) == sub.id \in {LABL, NOTE, LTXT} /\ Len(sub.data) >= FixedLen(sub.id)

EntriesOf(subs) == Kept(subs, {i \in DOMAIN subs : IsEntry(subs[i])})

Entry(sub) ==
    [id |-> sub.id, cue |-> NumberAt(sub.data, 0),
     more |-> Bytes(sub.data, 2, FixedLen(sub.id) - 2),
     text |-> DecodeText(Rest(sub.data, FixedLen(sub.id)))]

AdtlFromBytes(b) ==
    IF ~HasForm(b, ADTL) THEN None
    ELSE LET subs == EntriesOf(SubChunks(b))
         IN  Some([i \in DOMAIN subs |-> Entry(subs[i])])

AdtlToBytes(entries) ==
    ADTL \o FlattenSeq([i \in DOMAIN entries |->
        SubChunk(entries[i].id, NumberBytes(entries[i].cue) \o entries[i].more
                                    \o EncodeAll(entries[i].text) \o <<0>>)])

-----------------------------------------------------------------------------
(* Fixed layouts.                                                          *)

\* Where the i-th text field of bext begins, and, for one more, what follows.
FieldAt[i \in 1 .. Len(Widths) + 1] ==
    IF i = 1 THEN 0 ELSE FieldAt[i - 1] + Widths[i - 1]

TimeAt == FieldAt[Len(Widths) + 1]
CopiedAt == TimeAt + 4
BextFixedLen == CopiedAt + Copied + Reserved

BextFromBytes(b) ==
    IF Len(b) < BextFixedLen THEN None
    ELSE Some([texts |-> [i \in DOMAIN Widths |-> DecodeText(Bytes(b, FieldAt[i], Widths[i]))],
               time |-> NumberAt(b, TimeAt) + (U32Max + 1) * NumberAt(b, TimeAt + 2),
               copied |-> Bytes(b, CopiedAt, Copied),
               history |-> DecodeText(Rest(b, BextFixedLen))])

BextToBytes(v) ==
    FlattenSeq([i \in DOMAIN Widths |-> EncodeFixed(v.texts[i], Widths[i])])
        \o NumberBytes(v.time % (U32Max + 1)) \o NumberBytes(v.time \div (U32Max + 1))
        \o v.copied \o Zeros(Reserved) \o EncodeAll(v.history)

\* Cue points and sample loops: six numbers each.
RecordLen == 12

\* As many records as are promised and there.
Records(b, at, promised) ==
    LET n == Smaller(promised, (Len(b) - at) \div RecordLen)
    IN  [i \in 1 .. n |-> Numbers(Bytes(b, at + RecordLen * (i - 1), RecordLen))]

RecordBytes(records) == FlattenSeq([i \in DOMAIN records |-> AllBytes(records[i])])

CueFromBytes(b) == IF Len(b) < 2 THEN None ELSE Some(Records(b, 2, NumberAt(b, 0)))

CueToBytes(points) == NumberBytes(Len(points)) \o RecordBytes(points)

\* Seven numbers, the number of loops and the length of the sampler data.
SmplFixedLen == 18

SmplFromBytes(b) ==
    IF Len(b) < SmplFixedLen THEN None
    ELSE LET loops == Records(b, SmplFixedLen, NumberAt(b, 14))
             at    == SmplFixedLen + RecordLen * Len(loops)
         IN  Some([fields |-> Numbers(Bytes(b, 0, 14)),
                   loops |-> loops,
                   data |-> Bytes(b, at, Smaller(NumberAt(b, 16), Len(b) - at))])

SmplToBytes(v) ==
    AllBytes(v.fields) \o NumberBytes(Len(v.loops)) \o NumberBytes(Len(v.data))
        \o RecordBytes(v.loops) \o v.data

-----------------------------------------------------------------------------
(* Chunks.                                                                 *)

ChunkId(k) == IF k \in {"INFO", "adtl"} THEN "LIST" ELSE k

\* Any ids, those of the kinds looked at among them.
ChunkIds == STRING \cup {ChunkId(k) : k \in Kinds}

FromChunk(k, c) ==
    IF c.id # ChunkId(k) THEN None
    ELSE CASE k = "INFO" -> InfoFromBytes(c.data)
           [] k = "adtl" -> AdtlFromBytes(c.data)
           [] k = "bext" -> BextFromBytes(c.data)
           [] k = "cue " -> CueFromBytes(c.data)
           [] k = "smpl" -> SmplFromBytes(c.data)

ToChunk(k, v) ==
    [id |-> ChunkId(k),
     data |-> CASE k = "INFO" -> InfoToBytes(v)
                [] k = "adtl" -> AdtlToBytes(v)
                [] k = "bext" -> BextToBytes(v)
                [] k = "cue " -> CueToBytes(v)
                [] k = "smpl" -> SmplToBytes(v)]

-----------------------------------------------------------------------------
(* What a caller can hold.                                                 *)

Id == [1 .. 2 -> Byte]
IsText(s) == s \in Seq(Int) /\ \A i \in DOMAIN s : IsChar(s[i])
SixNumbers == [1 .. RecordLen \div 2 -> U32]

\* A text with n bytes before it and a NUL behind it is one sub-chunk, whose
\* length is cast to a u32: longer ones are not looked at.
FitsSubChunk(text, n) == n + Len(EncodeAll(text)) + 1 <= U32Max

IsInfoList(v) ==
    /\ v \in Seq([id : Id, text : Seq(Int)])
    /\ \A i \in DOMAIN v : IsText(v[i].text) /\ FitsSubChunk(v[i].text, 0)

IsAdtlList(v) ==
    /\ v \in Seq([id : {LABL, NOTE, LTXT}, cue : U32, more : Seq(Byte), text : Seq(Int)])
    /\ \A i \in DOMAIN v : /\ Len(v[i].more) = FixedLen(v[i].id) - 2
                           /\ IsText(v[i].text)
                           /\ FitsSubChunk(v[i].text, FixedLen(v[i].id))

IsBext(v) ==
    /\ v \in [texts : [DOMAIN Widths -> Seq(Int)], time : Nat,
              copied : [1 .. Copied -> Byte], history : Seq(Int)]
    /\ \A i \in DOMAIN Widths : IsText(v.texts[i])
    /\ IsText(v.history)
    /\ v.time \div (U32Max + 1) \in U32

IsCue(v) == v \in Seq(SixNumbers) /\ Len(v) \in U32

IsSmpl(v) ==
    /\ v \in [fields : [1 .. 7 -> U32], loops : Seq(SixNumbers), data : Seq(Byte)]
    /\ Len(v.loops) \in U32 /\ Len(v.data) \in U32

IsValue(k, v) ==
    CASE k = "INFO" -> IsInfoList(v)
      [] k = "adtl" -> IsAdtlList(v)
      [] k = "bext" -> IsBext(v)
      [] k = "cue " -> IsCue(v)
      [] k = "smpl" -> IsSmpl(v)

\* The size of a chunk is a u32 too.
ASSUME MetadataAssumption ==
    /\ \A k \in Kinds : \A c \in Found[k] :
            c \in [id : ChunkIds, data : Seq(Byte)] /\ Len(c.data) \in U32
    /\ \A k \in Kinds : \A v \in Supplied[k] : IsValue(k, v)
    /\ \A text \in Texts : IsText(text) /\ FitsSubChunk(text, 0)
    /\ TagIds \subseteq Id

-----------------------------------------------------------------------------
(* A chunk on its way through a program.                                   *)

Init ==
    /\ kind \in Kinds
    /\ chunk \in Found[kind]
    /\ stage = "found"
    /\ value = None
    /\ written = None
    /\ reread = FALSE
    /\ edits = 0
    /\ writes = 0

Read ==
    /\ stage # "read"
    /\ value' = FromChunk(kind, chunk)
    /\ stage' = "read"
    /\ edits' = 0
    /\ UNCHANGED <<kind, chunk, written, reread, writes>>

Write ==
    /\ stage = "read" /\ value # None
    /\ writes < MaxWrites
    /\ chunk' = ToChunk(kind, value[1])
    /\ stage' = "written"
    /\ written' = value
    /\ reread' = (edits = 0)
    /\ writes' = writes + 1
    /\ UNCHANGED <<kind, value, edits>>

Edit(v) ==
    /\ stage = "read"
    /\ edits < MaxEdits
    /\ value' = Some(v)
    /\ edits' = edits + 1
    /\ UNCHANGED <<kind, chunk, stage, written, reread, writes>>

Tags(id) == {i \in DOMAIN value[1] : value[1][i].id = id}

EditingTags == kind = "INFO" /\ stage = "read" /\ value # None

\* InfoList::set: the first tag with that id, or a new one.
SetTag(id, text) ==
    /\ EditingTags
    /\ IF Tags(id) = {} THEN Edit(Append(value[1], [id |-> id, text |-> text]))
       ELSE LET i == CHOOSE k \in Tags(id) : \A j \in Tags(id) : k <= j
            IN  Edit([value[1] EXCEPT ![i].text = text])

\* InfoList::push.
PushTag(id, text) == EditingTags /\ Edit(Append(value[1], [id |-> id, text |-> text]))

\* InfoList::remove: every tag with that id.
RemoveTag(id) ==
    EditingTags /\ Edit(Kept(value[1], DOMAIN value[1] \ Tags(id)))

\* A caller makes a value of its own, where there is none to be read: the fields
\* are public.
Fill(v) == value = None /\ Edit(v)

Next ==
    \/ Read
    \/ Write
    \/ \E id \in TagIds, text \in Texts : SetTag(id, text) \/ PushTag(id, text)
    \/ \E id \in TagIds : RemoveTag(id)
    \/ \E v \in Supplied[kind] : Fill(v)

Spec == Init /\ [][Next]_vars

-----------------------------------------------------------------------------
(* What has to hold.                                                       *)

\* The type of every variable: a chunk is bytes, whatever text is in it, and
\* what is decoded from any bytes is text, and fits its length fields.
TypeOK ==
    /\ kind \in Kinds
    /\ chunk \in [id : ChunkIds, data : Seq(Byte)]
    /\ stage \in {"found", "read", "written"}
    /\ value = None \/ (value = Some(value[1]) /\ IsValue(kind, value[1]))
    /\ written = None \/ (written = Some(written[1]) /\ IsValue(kind, written[1]))
    /\ reread \in BOOLEAN
    /\ edits \in 0 .. MaxEdits /\ writes \in 0 .. MaxWrites

\* Latin-1 text whose bytes are also UTF-8, of other characters.
Ambiguous(s) == IsLatin1(s) /\ IsUtf8(s) /\ FromUtf8(s) # s

\* The texts of a value, each with the bytes there are for it.
Unlimited(text) == [text |-> text, width |-> 4 * Len(text)]
TextsOf(k, v) ==
    CASE k \in {"INFO", "adtl"} -> [i \in DOMAIN v |-> Unlimited(v[i].text)]
      [] k = "bext" ->
            [i \in DOMAIN Widths |-> [text |-> v.texts[i], width |-> Widths[i]]]
                \o <<Unlimited(v.history)>>
      [] OTHER -> << >>

\* All the rest of it.
Untexted(k, v) ==
    CASE k = "INFO" -> [i \in DOMAIN v |-> v[i].id]
      [] k = "adtl" -> [i \in DOMAIN v |-> <<v[i].id, v[i].cue, v[i].more>>]
      [] k = "bext" -> <<v.time, v.copied>>
      [] OTHER -> v

\* t is what there is of s up to a NUL, or to the first character that does not
\* fit.
CutOf(t, s, width) ==
    /\ IsPrefix(t, s) /\ ~Contains(t, 0)
    /\ t # s => \/ s[Len(t) + 1] = 0
                \/ Len(Encoded(s, Len(t) + 1)) > width

Again == stage = "read" /\ written # None

\* What is written is read back: every tag, entry, point and loop, in order,
\* and every number; of a text, all that comes before a NUL and fits, cut
\* between two characters.  Latin-1 text that reads as UTF-8 by accident is
\* the exception (to_bytes and from_bytes of every kind, encode_text).
WrittenIsReadBack ==
    Again /\ edits = 0 =>
        /\ value # None
        /\ Untexted(kind, value[1]) = Untexted(kind, written[1])
        /\ \A i \in DOMAIN TextsOf(kind, written[1]) :
                LET s == TextsOf(kind, written[1])[i]
                    t == TextsOf(kind, value[1])[i].text
                IN  CutOf(t, s.text, s.width)
                        \/ (IsLatin1(s.text) /\ Ambiguous(BeforeNul(EncodeText(s.text, s.width))))

\* "Those losses all happen on the first decode, so everything after it must be
\* stable" (the fuzz targets): a value that was read is the same value when it
\* is written and read again, as long as its text is not ambiguous.
LossesHappenOnce ==
    Again /\ edits = 0 /\ reread =>
        \/ value = written
        \/ \E i \in DOMAIN TextsOf(kind, written[1]) : Ambiguous(TextsOf(kind, written[1])[i].text)

\* The bytes of the texts in a chunk that was just read.
RawTexts ==
    CASE kind = "INFO" -> [i \in DOMAIN SubChunks(chunk.data) |-> SubChunks(chunk.data)[i].data]
      [] kind = "adtl" -> LET subs == EntriesOf(SubChunks(chunk.data))
                          IN  [i \in DOMAIN subs |-> Rest(subs[i].data, FixedLen(subs[i].id))]
      [] kind = "bext" -> [i \in DOMAIN Widths |-> Bytes(chunk.data, FieldAt[i], Widths[i])]
                            \o <<Rest(chunk.data, BextFixedLen)>>
      [] OTHER -> << >>

\* A text that was read fits back into the field it came from, and if it was
\* not UTF-8 it is written back byte for byte (encode_text's guarantees).
FieldsFitBack ==
    stage = "read" /\ edits = 0 /\ value # None =>
        \A i \in DOMAIN RawTexts :
            LET raw == BeforeNul(RawTexts[i])
                new == EncodeAll(TextsOf(kind, value[1])[i].text)
            IN  Len(new) <= Len(raw) /\ (~IsUtf8(raw) => new = raw)

-----------------------------------------------------------------------------
(* What the documentation says and the code does not do.                   *)

\* "InfoList encode/decode is not idempotent" (the assertions of the fuzz
\* targets): a value that was read is the same when written and read again.
RereadingIsStable ==
    Again /\ edits = 0 /\ reread => value = written
=============================================================================
