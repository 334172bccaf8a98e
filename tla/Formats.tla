------------------------------ MODULE Formats ------------------------------
(***************************************************************************)
(* The fmt chunk (FmtChunk in src/header.rs, SampleFormat and WavSpec in   *)
(* src/format.rs) on its way between a caller's spec, the bytes of a file  *)
(* and the sample format the audio is converted by.                        *)
(*                                                                         *)
(* A life of a chunk starts with a spec, with a chunk a caller filled in   *)
(* by hand, or with the bytes of any file.  From then on it is written and *)
(* read back, again and again.                                             *)
(*                                                                         *)
(* Numbers are numbers: what a 16- or 32-bit field cannot hold is compared *)
(* with U16Max and U32Max, which are scaled down for the counts of bytes.  *)
(* Bit depths and format codes keep their values.  A channel mask is the   *)
(* set of its bits, a subformat GUID is its name.                          *)
(***************************************************************************)
EXTENDS Integers, FiniteSets

CONSTANTS
    U16Max, U32Max, \* the largest values of 16- and 32-bit fields, scaled
    Specs,          \* what callers ask for, see WavSpec
    Chunks,         \* chunks callers fill in by hand, see Fmt
    Bodies,         \* chunk bodies found in files, see Body
    OtherGuids      \* subformats this crate has no name for

\* A sample format is its name; its width on disk in bytes, its depth in bits
\* and its format code.
Width == [U8 |-> 1, I16 |-> 2, I24_3 |-> 3, I24_4 |-> 4, I32 |-> 4,
          F32 |-> 4, F64 |-> 8, ALAW |-> 1, MULAW |-> 1]
Depth == [U8 |-> 8, I16 |-> 16, I24_3 |-> 24, I24_4 |-> 24, I32 |-> 32,
          F32 |-> 32, F64 |-> 64, ALAW |-> 8, MULAW |-> 8]
Code == [U8 |-> 1, I16 |-> 1, I24_3 |-> 1, I24_4 |-> 1, I32 |-> 1,
         F32 |-> 3, F64 |-> 3, ALAW |-> 6, MULAW |-> 7]
SampleFormats == {"U8", "I16", "I24_3", "I24_4", "I32", "F32", "F64", "ALAW", "MULAW"}

Unmodelled == "unmodelled"
ExtensibleCode == 65534

\* An optional channel mask.
Mask == [given : BOOLEAN, bits : SUBSET (0 .. 31)]
NoMask == [given |-> FALSE, bits |-> {}]

WavSpec == [channels : Nat, rate : Nat, format : SampleFormats, mask : Mask]

\* The bytes after cbSize: how many, and the extensible fields if that many
\* hold them.  A chunk without cbSize has -1 of them.
ExtensibleLen == 22
Guids == {"", "PCM", "FLOAT", "ALAW", "MULAW"} \cup OtherGuids
Extension == [len : Nat \cup {-1}, valid : Nat, mask : SUBSET (0 .. 31), guid : Guids]
Opaque(len) == [len |-> len, valid |-> 0, mask |-> {}, guid |-> ""]
NoExtension == Opaque(-1)

\* The fields have the widths of their types; codes and bits are not scaled.
Fmt == [code : Nat, channels : 0 .. U16Max, rate : 0 .. U32Max, byte_rate : 0 .. U32Max,
        block_align : 0 .. U16Max, bits : Nat, ext : Extension]

\* The body in a file: its length, the chunk's fields, and cbSize as stored.
Body == [len : Nat, fmt : Fmt, cb : Nat]

CoreSize == 16
ExSize == 18

ASSUME WidthsAssumption == U16Max \in Nat /\ U32Max \in Nat

ASSUME InputsAssumption ==
    /\ Specs \subseteq WavSpec
    /\ Chunks \subseteq Fmt
    /\ Bodies \subseteq Body

-----------------------------------------------------------------------------
(* Decoding.                                                               *)

\* Mutant: a frame that is no whole number of samples is rounded down.
BytesPerSampleRounded(c) == IF c.channels = 0 THEN -1 ELSE c.block_align \div c.channels

\* FmtChunk::bytes_per_sample; -1 where it answers None.
BytesPerSample(c) ==
    IF c.channels = 0 \/ c.block_align % c.channels # 0 THEN -1
    ELSE c.block_align \div c.channels

IsExtensible(c) == c.code = ExtensibleCode /\ c.ext.len >= ExtensibleLen

\* Code, bits, width and format of the plain forms.
PlainForms ==
    {<<1, 8, 1, "U8">>, <<1, 16, 2, "I16">>, <<1, 24, 3, "I24_3">>,
     <<1, 24, 4, "I24_4">>, <<1, 32, 4, "I32">>, <<3, 32, 4, "F32">>,
     <<3, 64, 8, "F64">>, <<6, 8, 1, "ALAW">>, <<7, 8, 1, "MULAW">>}

\* GUID, bits, width, valid bits and format of the extensible ones.
ExtensibleForms ==
    {<<"PCM", 8, 1, 8, "U8">>, <<"PCM", 16, 2, 16, "I16">>,
     <<"PCM", 24, 3, 24, "I24_3">>, <<"PCM", 24, 4, 24, "I24_4">>,
     <<"PCM", 32, 4, 24, "I24_4">>, <<"PCM", 32, 4, 32, "I32">>,
     <<"FLOAT", 32, 4, 32, "F32">>, <<"FLOAT", 64, 8, 64, "F64">>,
     <<"ALAW", 8, 1, 8, "ALAW">>, <<"MULAW", 8, 1, 8, "MULAW">>}

\* FmtChunk::sample_format.
SampleFormatOf(c) ==
    LET plain == {f \in SampleFormats :
                    <<c.code, c.bits, BytesPerSample(c), f>> \in PlainForms}
        extensible == {f \in SampleFormats :
                    /\ IsExtensible(c)
                    /\ <<c.ext.guid, c.bits, BytesPerSample(c), c.ext.valid, f>>
                            \in ExtensibleForms}
        found == plain \cup extensible
    IN  IF found = {} THEN Unmodelled ELSE CHOOSE f \in found : TRUE

FrameBytes(c) ==
    IF SampleFormatOf(c) = Unmodelled THEN c.block_align
    ELSE c.channels * Width[SampleFormatOf(c)]

ChannelMask(c) ==
    IF IsExtensible(c) THEN [given |-> TRUE, bits |-> c.ext.mask] ELSE NoMask

\* WavParams::spec, for a chunk with a sample format.
SpecOf(c) ==
    [channels |-> c.channels, rate |-> c.rate, format |-> SampleFormatOf(c),
     mask |-> ChannelMask(c)]

-----------------------------------------------------------------------------
(* Building.                                                               *)

\* FmtChunk::for_format refuses what the fields cannot hold.
BadMask(s) == s.mask.bits # {} /\ Cardinality(s.mask.bits) # s.channels

\* Mutant: the size of a frame is not checked.
TooWideUnchecked(s) ==
    s.channels > U16Max \/ s.rate > U32Max \/ s.channels * s.rate * Width[s.format] > U32Max

TooWide(s) ==
    \/ s.channels > U16Max
    \/ s.rate > U32Max
    \/ s.channels * Width[s.format] > U16Max
    \/ s.channels * s.rate * Width[s.format] > U32Max

Refused(s) == s.channels = 0 \/ BadMask(s) \/ TooWide(s)

\* Mutant: a mask alone does not ask for the extensible form.
ExtensibleUnlessMasked(s) == s.format = "I24_4" \/ s.channels > 2

WritesAsExtensible(s) ==
    s.format = "I24_4" \/ s.channels > 2 \/ s.mask.bits # {}

\* Mutant: the extensible form knows PCM and float only.
GuidForLinear(f) == IF Code[f] = 3 THEN "FLOAT" ELSE "PCM"

GuidFor(f) ==
    IF Code[f] = 3 THEN "FLOAT"
    ELSE IF Code[f] = 6 THEN "ALAW"
    ELSE IF Code[f] = 7 THEN "MULAW"
    ELSE "PCM"

ForFormat(s) ==
    LET plain == [code        |-> Code[s.format],
                  channels    |-> s.channels,
                  rate        |-> s.rate,
                  byte_rate   |-> s.channels * s.rate * Width[s.format],
                  block_align |-> s.channels * Width[s.format],
                  bits        |-> Depth[s.format],
                  ext         |-> IF Code[s.format] = 1 THEN NoExtension ELSE Opaque(0)]
    IN  IF WritesAsExtensible(s)
        THEN [plain EXCEPT !.code = ExtensibleCode,
                           !.bits = 8 * Width[s.format],
                           !.ext  = [len |-> ExtensibleLen, valid |-> Depth[s.format],
                                     mask |-> s.mask.bits, guid |-> GuidFor(s.format)]]
        ELSE plain

-----------------------------------------------------------------------------
(* The bytes.                                                              *)

Encodable(c) == c.ext.len <= U16Max

ToBytes(c) ==
    IF c.ext.len = -1 THEN [len |-> CoreSize, fmt |-> c, cb |-> 0]
    ELSE [len |-> ExSize + c.ext.len, fmt |-> c, cb |-> c.ext.len]

Decodable(b) == b.len >= CoreSize

\* The extension of a body of another length than the one it was built with:
\* the extensible fields are there if it is long enough for them.
Stretched(ext, len) ==
    IF len >= ExtensibleLen THEN [ext EXCEPT !.len = len] ELSE Opaque(len)

\* Mutant: the byte rate becomes what the other fields say it should be.
FromBytesNormalizing(b) ==
    [b.fmt EXCEPT !.ext = IF b.len < ExSize THEN NoExtension
                          ELSE Stretched(b.fmt.ext, b.len - ExSize),
                  !.byte_rate = b.fmt.rate * b.fmt.block_align]

\* The body's length decides, whatever cbSize says; half a cbSize is none.
FromBytes(b) ==
    [b.fmt EXCEPT !.ext = IF b.len < ExSize THEN NoExtension
                          ELSE Stretched(b.fmt.ext, b.len - ExSize)]

-----------------------------------------------------------------------------
(* A life of a chunk.                                                      *)

VARIABLES
    stage,  \* "spec", "chunk", "body", or "refused"
    asked,  \* the specs this life began with: one or none
    found,  \* the bodies it began with: one or none
    held,   \* the chunks in hand: one or none
    body    \* the bodies written or read: one or none

vars == <<stage, asked, found, held, body>>

Init ==
    /\ \/ \E s \in Specs :
            stage = "spec" /\ asked = {s} /\ found = {} /\ held = {} /\ body = {}
       \/ \E c \in Chunks :
            stage = "chunk" /\ asked = {} /\ found = {} /\ held = {c} /\ body = {}
       \/ \E b \in Bodies :
            stage = "body" /\ asked = {} /\ found = {b} /\ held = {} /\ body = {b}

Build ==
    /\ stage = "spec"
    /\ \E s \in asked :
        IF Refused(s) THEN stage' = "refused" /\ held' = held
        ELSE stage' = "chunk" /\ held' = {ForFormat(s)}
    /\ UNCHANGED <<asked, found, body>>

Encode ==
    /\ stage = "chunk"
    /\ \E c \in held :
        IF Encodable(c) THEN stage' = "body" /\ body' = {ToBytes(c)}
        ELSE stage' = "refused" /\ body' = body
    /\ UNCHANGED <<asked, found, held>>

Decode ==
    /\ stage = "body"
    /\ \E b \in body :
        IF Decodable(b) THEN stage' = "chunk" /\ held' = {FromBytes(b)}
        ELSE stage' = "refused" /\ held' = held
    /\ UNCHANGED <<asked, found, body>>

Next == Build \/ Encode \/ Decode

Spec == Init /\ [][Next]_vars

-----------------------------------------------------------------------------
(* What has to hold.                                                       *)

\* The pieces in hand have their types; so a chunk built from a spec has numbers
\* its fields can hold: nothing is cut to a field's width (for_format).
TypeOK ==
    /\ stage \in {"spec", "chunk", "body", "refused"}
    /\ asked \subseteq Specs /\ found \subseteq Bodies
    /\ held \subseteq Fmt /\ body \subseteq Body

\* What was asked for is what a reader of the file finds, in the plain form and
\* in the extensible one, however often the chunk is written and read: the
\* sample format, the channels, the rate, the speakers and the size of a frame
\* (for_format, to_bytes, from_bytes, sample_format).
AskedIsWhatIsRead ==
    \A s \in asked, c \in held :
        /\ SampleFormatOf(c) = s.format
        /\ c.channels = s.channels /\ c.rate = s.rate
        /\ ChannelMask(c).bits = s.mask.bits
        /\ c.block_align = s.channels * Width[s.format]

\* Whatever a file says of itself, a format this crate converts has frames of
\* the size the file declares, so the float path, which counts samples, and the
\* raw path and the seeks, which count bytes, cut the audio at the same places
\* (bytes_per_sample, sample_format, frame_bytes).
FramesAreAsDeclared ==
    \A c \in held : SampleFormatOf(c) # Unmodelled => FrameBytes(c) = c.block_align

\* Writing a chunk that was read gives back the body that was read: every field
\* of the core as it was found, consistent with the others or not, and as many
\* bytes of extension, with the extensible fields as they were found where all
\* of them were there (of any other extension only the length is modelled).
\* Only cbSize comes out as the length it should have been, and half a cbSize
\* is dropped.  What was written reads as the same chunk from then on.
RewritesKeepTheBody ==
    \A b \in found, c \in held, w \in body :
        stage = "body" =>
            /\ w.len = IF b.len = CoreSize + 1 THEN CoreSize ELSE b.len
            /\ w.cb = IF w.len = CoreSize THEN 0 ELSE w.len - ExSize
            /\ w.fmt = [b.fmt EXCEPT !.ext = w.fmt.ext]
            /\ b.len >= ExSize + ExtensibleLen =>
                w.fmt.ext = [b.fmt.ext EXCEPT !.len = b.len - ExSize]
            /\ FromBytes(w) = c

\* WavParams::spec gives what the typed path needs to write the same format: a
\* chunk built from it is read as the same format, with the same frames and
\* speakers.  It is refused only for a mask that does not name one speaker per
\* channel or for a byte rate no field holds, which the parser lets pass.
SpecReproducesTheFormat ==
    \A c \in held : SampleFormatOf(c) # Unmodelled =>
        LET s == SpecOf(c)
            again == ForFormat(s)
        IN  IF Refused(s) THEN BadMask(s) \/ s.channels * s.rate * Width[s.format] > U32Max
            ELSE /\ SampleFormatOf(again) = SampleFormatOf(c)
                 /\ FrameBytes(again) = FrameBytes(c)
                 /\ again.channels = c.channels /\ again.rate = c.rate
                 /\ ChannelMask(again).bits = ChannelMask(c).bits
=============================================================================
