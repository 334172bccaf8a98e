--------------------------- MODULE FormatsProofs ---------------------------
(***************************************************************************)
(* Proofs about Formats, for any limits, specs, chunks and bodies.         *)
(***************************************************************************)
EXTENDS Formats, TLAPS

-----------------------------------------------------------------------------
(* Division.                                                               *)

\* A number that is divided without remainder is the product again.
LEMMA ExactQuotient ==
    ASSUME NEW n \in Nat \ {0}, NEW m \in Nat, m % n = 0
    PROVE  n * (m \div n) = m
OBVIOUS

\* A product is divided by its factor without remainder.
LEMMA ProductDivides ==
    ASSUME NEW n \in Nat \ {0}, NEW w \in Nat
    PROVE  (n * w) % n = 0 /\ (n * w) \div n = w
OBVIOUS

-----------------------------------------------------------------------------
(* What a chunk's format says about its frames.                            *)

\* The bytes per sample are those of the format found.
LEMMA FormatHasItsWidth ==
    ASSUME NEW c, SampleFormatOf(c) # Unmodelled
    PROVE  /\ SampleFormatOf(c) \in SampleFormats
           /\ BytesPerSample(c) = Width[SampleFormatOf(c)]
<1> DEFINE plain == {f \in SampleFormats :
                        <<c.code, c.bits, BytesPerSample(c), f>> \in PlainForms}
           extensible == {f \in SampleFormats :
                        /\ IsExtensible(c)
                        /\ <<c.ext.guid, c.bits, BytesPerSample(c), c.ext.valid, f>>
                                \in ExtensibleForms}
<1>1. SampleFormatOf(c) \in plain \cup extensible
  <2>1. plain \cup extensible # {}
    BY DEF SampleFormatOf
  <2>2. SampleFormatOf(c) = CHOOSE f \in plain \cup extensible : TRUE
    BY <2>1 DEF SampleFormatOf
  <2> QED
    BY <2>1, <2>2
<1>2. ASSUME NEW f \in plain PROVE BytesPerSample(c) = Width[f]
  BY <1>2 DEF PlainForms, Width
<1>3. ASSUME NEW f \in extensible PROVE BytesPerSample(c) = Width[f]
  BY <1>3 DEF ExtensibleForms, Width
<1> QED
  BY <1>1, <1>2, <1>3

\* Converting by samples and stepping by declared frames agree.
LEMMA FramesAgree ==
    ASSUME NEW c, c.channels \in Nat, c.block_align \in Nat,
           SampleFormatOf(c) # Unmodelled
    PROVE  FrameBytes(c) = c.block_align
<1> DEFINE f == SampleFormatOf(c)
<1>1. f \in SampleFormats /\ BytesPerSample(c) = Width[f]
  BY FormatHasItsWidth
<1>2. Width[f] \in Nat
  BY <1>1 DEF SampleFormats, Width
<1>3. /\ c.channels # 0
      /\ c.block_align % c.channels = 0
      /\ BytesPerSample(c) = c.block_align \div c.channels
  BY <1>1, <1>2 DEF BytesPerSample
<1>4. c.channels * (c.block_align \div c.channels) = c.block_align
  BY <1>3, ExactQuotient
<1> QED
  BY <1>1, <1>3, <1>4 DEF FrameBytes

-----------------------------------------------------------------------------
(* Specs and the chunks built for them.                                    *)

\* The types of a spec's parts.
LEMMA SpecTypes ==
    ASSUME NEW s \in WavSpec
    PROVE  /\ s.channels \in Nat /\ s.rate \in Nat
           /\ s.format \in SampleFormats /\ Width[s.format] \in Nat
           /\ s.mask \in Mask
<1>1. s.format \in SampleFormats
  BY DEF WavSpec
<1>2. Width[s.format] \in Nat
  BY <1>1 DEF SampleFormats, Width
<1> QED
  BY <1>1, <1>2 DEF WavSpec

\* The fields of a plain chunk.
LEMMA PlainFields ==
    ASSUME NEW s \in WavSpec, ~WritesAsExtensible(s)
    PROVE  /\ ForFormat(s).code = Code[s.format]
           /\ ForFormat(s).bits = Depth[s.format]
           /\ ForFormat(s).ext = NoExtension \/ ForFormat(s).ext = Opaque(0)
           /\ ForFormat(s).ext.len \in Int /\ ForFormat(s).ext.len < ExtensibleLen
           /\ ForFormat(s).channels = s.channels
           /\ ForFormat(s).rate = s.rate
           /\ ForFormat(s).block_align = s.channels * Width[s.format]
<1>1. /\ NoExtension.len \in Int /\ NoExtension.len < ExtensibleLen
      /\ Opaque(0).len \in Int /\ Opaque(0).len < ExtensibleLen
  BY DEF NoExtension, Opaque, ExtensibleLen
<1> QED
  BY <1>1 DEF ForFormat

\* The fields of an extensible chunk.
LEMMA ExtensibleFields ==
    ASSUME NEW s \in WavSpec, WritesAsExtensible(s)
    PROVE  /\ ForFormat(s).code = ExtensibleCode
           /\ ForFormat(s).bits = 8 * Width[s.format]
           /\ ForFormat(s).ext = [len |-> ExtensibleLen, valid |-> Depth[s.format],
                                  mask |-> s.mask.bits, guid |-> GuidFor(s.format)]
           /\ ForFormat(s).ext.len = ExtensibleLen
           /\ ForFormat(s).ext.valid = Depth[s.format]
           /\ ForFormat(s).ext.mask = s.mask.bits
           /\ ForFormat(s).ext.guid = GuidFor(s.format)
           /\ ForFormat(s).channels = s.channels
           /\ ForFormat(s).rate = s.rate
           /\ ForFormat(s).block_align = s.channels * Width[s.format]
BY DEF ForFormat

-----------------------------------------------------------------------------
(* Every chunk in hand or in a body has what its fields can hold.          *)

Counted(c) ==
    /\ c.channels \in 0 .. U16Max /\ c.block_align \in 0 .. U16Max
    /\ c.rate \in 0 .. U32Max
    /\ c.ext.mask \in SUBSET (0 .. 31)

CountedInv ==
    /\ asked \subseteq Specs
    /\ \A c \in held : Counted(c)
    /\ \A b \in body : Counted(b.fmt)

\* The mask of an extension that was read is the one written, or none.
LEMMA StretchedMask ==
    /\ NoExtension.mask = {}
    /\ \A ext, n : Stretched(ext, n).mask \in {{}, ext.mask}
<1>1. NoExtension.mask = {} /\ \A n : Opaque(n).mask = {}
  BY DEF NoExtension, Opaque
<1>2. ASSUME NEW ext, NEW n PROVE Stretched(ext, n).mask \in {{}, ext.mask}
  <2>1. CASE n >= ExtensibleLen
    BY <2>1 DEF Stretched
  <2>2. CASE ~(n >= ExtensibleLen)
    BY <1>1, <2>2 DEF Stretched
  <2> QED
    BY <2>1, <2>2
<1> QED
  BY <1>1, <1>2

LEMMA ForFormatCounted ==
    ASSUME NEW s \in Specs, ~Refused(s)
    PROVE  Counted(ForFormat(s))
<1>1. s \in WavSpec
  BY InputsAssumption
<1>2. /\ s.channels \in Nat /\ s.rate \in Nat
      /\ s.format \in SampleFormats /\ Width[s.format] \in Nat
  BY <1>1, SpecTypes
<1>3. /\ s.channels <= U16Max /\ s.rate <= U32Max
      /\ s.channels * Width[s.format] <= U16Max
  BY <1>2, WidthsAssumption DEF Refused, TooWide
<1>4. /\ ForFormat(s).channels = s.channels
      /\ ForFormat(s).rate = s.rate
      /\ ForFormat(s).block_align = s.channels * Width[s.format]
  BY DEF ForFormat
<1>5. s.channels * Width[s.format] \in Nat
  BY <1>2
<1>6. ForFormat(s).ext.mask \in SUBSET (0 .. 31)
  <2>1. CASE WritesAsExtensible(s)
    BY <1>1, <2>1, ExtensibleFields DEF WavSpec, Mask
  <2>2. CASE ~WritesAsExtensible(s)
    <3>1. NoExtension.mask = {} /\ Opaque(0).mask = {}
      BY DEF NoExtension, Opaque
    <3> QED
      BY <1>1, <2>2, <3>1, PlainFields
  <2> QED
    BY <2>1, <2>2
<1> QED
  BY <1>2, <1>3, <1>4, <1>5, <1>6, WidthsAssumption DEF Counted

LEMMA CountedInit == Init => CountedInv
<1> SUFFICES ASSUME Init PROVE CountedInv
  OBVIOUS
<1>1. \A c \in Fmt : Counted(c)
  BY DEF Fmt, Extension, Counted
<1>2. \A b \in Bodies : b.fmt \in Fmt
  BY InputsAssumption DEF Body
<1> QED
  BY <1>1, <1>2, InputsAssumption DEF Init, CountedInv

LEMMA CountedStep == CountedInv /\ [Next]_vars => CountedInv'
<1> SUFFICES ASSUME CountedInv, [Next]_vars PROVE CountedInv'
  OBVIOUS
<1>1. CASE Build
  BY <1>1, ForFormatCounted, InputsAssumption DEF Build, CountedInv
<1>2. CASE Encode
  <2>1. \A c \in held : ToBytes(c).fmt = c
    BY DEF ToBytes
  <2> QED
    BY <1>2, <2>1 DEF Encode, CountedInv
<1>3. CASE Decode
  <2>1. ASSUME NEW b \in body, Counted(b.fmt) PROVE Counted(FromBytes(b))
    <3>1. FromBytes(b).ext \in {NoExtension, Stretched(b.fmt.ext, b.len - ExSize)}
      BY DEF FromBytes
    <3>2. FromBytes(b).ext.mask \in SUBSET (0 .. 31)
      BY <2>1, <3>1, StretchedMask DEF Counted
    <3>3. /\ FromBytes(b).channels = b.fmt.channels /\ FromBytes(b).rate = b.fmt.rate
          /\ FromBytes(b).block_align = b.fmt.block_align
      BY DEF FromBytes
    <3> QED
      BY <2>1, <3>2, <3>3 DEF Counted
  <2> QED
    BY <1>3, <2>1 DEF Decode, CountedInv
<1>4. CASE UNCHANGED vars
  BY <1>4 DEF vars, CountedInv
<1> QED
  BY <1>1, <1>2, <1>3, <1>4 DEF Next

\* Whatever specs, chunks and bodies there are: a format this crate converts
\* has frames of the declared size (bytes_per_sample, frame_bytes).
THEOREM FramesDeclared == Spec => []FramesAreAsDeclared
<1>1. CountedInv => FramesAreAsDeclared
  BY FramesAgree, WidthsAssumption DEF CountedInv, Counted, FramesAreAsDeclared
<1> QED
  BY <1>1, CountedInit, CountedStep, PTL DEF Spec

-----------------------------------------------------------------------------
(* Every piece in hand has its type.                                       *)

\* An extension of any length is one.
LEMMA ExtensionTypes ==
    /\ NoExtension \in Extension
    /\ \A n \in Nat : Opaque(n) \in Extension
    /\ \A ext \in Extension, n \in Nat : Stretched(ext, n) \in Extension
<1>1. \A n \in Nat \cup {-1} : Opaque(n) \in Extension
  BY DEF Opaque, Extension, Guids
<1>2. ASSUME NEW ext \in Extension, NEW n \in Nat PROVE Stretched(ext, n) \in Extension
  <2>1. [ext EXCEPT !.len = n] \in Extension
    BY DEF Extension
  <2> QED
    BY <1>1, <2>1 DEF Stretched
<1> QED
  BY <1>1, <1>2 DEF NoExtension

\* What for_format builds fits the fields, the byte rate included.
LEMMA ForFormatTypes ==
    ASSUME NEW s \in Specs, ~Refused(s)
    PROVE  ForFormat(s) \in Fmt
<1> DEFINE f == s.format
           ext == [len |-> ExtensibleLen, valid |-> Depth[f], mask |-> s.mask.bits,
                   guid |-> GuidFor(f)]
<1>1. s \in WavSpec
  BY InputsAssumption
<1>2. /\ s.channels \in Nat /\ s.rate \in Nat
      /\ f \in SampleFormats /\ Width[f] \in Nat
      /\ s.mask.bits \in SUBSET (0 .. 31)
  BY <1>1, SpecTypes DEF Mask
<1>3. s.channels * Width[f] \in Nat /\ s.channels * s.rate \in Nat
  BY <1>2
<1>4. s.channels * s.rate * Width[f] \in Nat
  BY <1>2, <1>3
<1>5. /\ s.channels \in 0 .. U16Max /\ s.rate \in 0 .. U32Max
      /\ s.channels * Width[f] \in 0 .. U16Max
      /\ s.channels * s.rate * Width[f] \in 0 .. U32Max
  BY <1>2, <1>3, <1>4, WidthsAssumption DEF Refused, TooWide
<1>6. /\ Code[f] \in Nat /\ Depth[f] \in Nat /\ 8 * Width[f] \in Nat
      /\ GuidFor(f) \in Guids
  BY <1>2 DEF SampleFormats, Code, Depth, Width, GuidFor, Guids
<1>7. ExtensibleCode \in Nat /\ ExtensibleLen \in Nat
  BY DEF ExtensibleCode, ExtensibleLen
<1>8. NoExtension \in Extension /\ Opaque(0) \in Extension
  BY ExtensionTypes
<1>9. ext \in Extension
  BY <1>2, <1>6, <1>7 DEF Extension
<1> QED
  BY <1>5, <1>6, <1>7, <1>8, <1>9 DEF ForFormat, Fmt

\* A chunk's bytes are a body, and a body long enough is a chunk's.
LEMMA BytesTypes ==
    /\ \A c \in Fmt : ToBytes(c) \in Body
    /\ \A b \in Body : Decodable(b) => FromBytes(b) \in Fmt
<1>1. ASSUME NEW c \in Fmt PROVE ToBytes(c) \in Body
  <2>1. c.ext.len \in Nat \cup {-1}
    BY DEF Fmt, Extension
  <2>2. CoreSize \in Nat /\ (c.ext.len # -1 => ExSize + c.ext.len \in Nat)
    BY <2>1 DEF CoreSize, ExSize
  <2> QED
    BY <2>1, <2>2 DEF ToBytes, Body
<1>2. ASSUME NEW b \in Body PROVE FromBytes(b) \in Fmt
  <2>1. b.len \in Nat /\ b.fmt \in Fmt /\ b.fmt.ext \in Extension
    BY DEF Body, Fmt
  <2>2. \A ext \in Extension : [b.fmt EXCEPT !.ext = ext] \in Fmt
    BY <2>1 DEF Fmt
  <2>3. ~(b.len < ExSize) => b.len - ExSize \in Nat
    BY <2>1 DEF ExSize
  <2> QED
    BY <2>1, <2>2, <2>3, ExtensionTypes DEF FromBytes
<1> QED
  BY <1>1, <1>2

LEMMA TypeInit == Init => TypeOK
BY InputsAssumption DEF Init, TypeOK

LEMMA TypeStep == TypeOK /\ [Next]_vars => TypeOK'
<1> SUFFICES ASSUME TypeOK, [Next]_vars PROVE TypeOK'
  OBVIOUS
<1>1. CASE Build
  BY <1>1, ForFormatTypes DEF Build, TypeOK
<1>2. CASE Encode
  BY <1>2, BytesTypes DEF Encode, TypeOK
<1>3. CASE Decode
  BY <1>3, BytesTypes DEF Decode, TypeOK
<1>4. CASE UNCHANGED vars
  BY <1>4 DEF vars, TypeOK
<1> QED
  BY <1>1, <1>2, <1>3, <1>4 DEF Next

\* Whatever specs, chunks and bodies there are: no number of a chunk is cut to
\* the width of its field, whether it was computed, filled in or read
\* (for_format, to_bytes, from_bytes).
THEOREM NumbersFit == Spec => []TypeOK
BY TypeInit, TypeStep, PTL DEF Spec

-----------------------------------------------------------------------------
(* A spec that is not refused comes back from the chunk built for it.      *)

\* Samples are as wide as asked for.
LEMMA BuiltWidth ==
    ASSUME NEW s \in WavSpec, s.channels # 0
    PROVE  BytesPerSample(ForFormat(s)) = Width[s.format]
<1>1. /\ ForFormat(s).channels = s.channels
      /\ ForFormat(s).block_align = s.channels * Width[s.format]
  BY PlainFields, ExtensibleFields
<1>2. /\ (s.channels * Width[s.format]) % s.channels = 0
      /\ (s.channels * Width[s.format]) \div s.channels = Width[s.format]
  BY SpecTypes, ProductDivides
<1> QED
  BY <1>1, <1>2 DEF BytesPerSample

\* The plain form of a format is looked up as that format.
LEMMA PlainFormFound ==
    ASSUME NEW f \in SampleFormats, f # "I24_4"
    PROVE  \A g : <<Code[f], Depth[f], Width[f], g>> \in PlainForms <=> g = f
BY DEF SampleFormats, Code, Depth, Width, PlainForms

\* And so is the extensible form, the one with a wider container included.
LEMMA ExtensibleFormFound ==
    ASSUME NEW f \in SampleFormats
    PROVE  \A g : <<GuidFor(f), 8 * Width[f], Width[f], Depth[f], g>> \in ExtensibleForms
                    <=> g = f
BY DEF SampleFormats, Code, Depth, Width, GuidFor, ExtensibleForms

\* The plain codes are none of the extensible form.
LEMMA PlainCodes ==
    ASSUME NEW f, NEW n, NEW m
    PROVE  <<ExtensibleCode, n, m, f>> \notin PlainForms
BY DEF PlainForms, ExtensibleCode

\* Whether the extensible fields are there.
LEMMA LongEnough == ASSUME NEW n, n = ExtensibleLen PROVE n >= ExtensibleLen
BY DEF ExtensibleLen

LEMMA TooShort == ASSUME NEW c, c.ext.len \in Int, c.ext.len < ExtensibleLen
                  PROVE  ~IsExtensible(c)
BY DEF IsExtensible, ExtensibleLen

LEMMA BuiltFormat ==
    ASSUME NEW s \in WavSpec, s.channels # 0
    PROVE  SampleFormatOf(ForFormat(s)) = s.format
<1> DEFINE c == ForFormat(s)
           plain == {f \in SampleFormats :
                        <<c.code, c.bits, BytesPerSample(c), f>> \in PlainForms}
           extensible == {f \in SampleFormats :
                        /\ IsExtensible(c)
                        /\ <<c.ext.guid, c.bits, BytesPerSample(c), c.ext.valid, f>>
                                \in ExtensibleForms}
<1>1. BytesPerSample(c) = Width[s.format] /\ s.format \in SampleFormats
  BY BuiltWidth, SpecTypes
<1>2. plain \cup extensible = {s.format}
  <2>1. CASE WritesAsExtensible(s)
    <3>1. /\ c.code = ExtensibleCode /\ c.bits = 8 * Width[s.format]
          /\ c.ext.guid = GuidFor(s.format) /\ c.ext.valid = Depth[s.format]
          /\ IsExtensible(c)
      BY <2>1, ExtensibleFields, LongEnough DEF IsExtensible
    <3> HIDE DEF c
    <3>2. plain = {}
      BY <3>1, PlainCodes
    <3>3. extensible = {s.format}
      BY <1>1, <3>1, ExtensibleFormFound
    <3> QED
      BY <3>2, <3>3
  <2>2. CASE ~WritesAsExtensible(s)
    <3>1. /\ c.code = Code[s.format] /\ c.bits = Depth[s.format]
          /\ ~IsExtensible(c)
      BY <2>2, PlainFields, TooShort
    <3>2. s.format # "I24_4"
      BY <2>2 DEF WritesAsExtensible
    <3> HIDE DEF c
    <3>3. plain = {s.format}
      BY <1>1, <3>1, <3>2, PlainFormFound
    <3>4. extensible = {}
      BY <3>1
    <3> QED
      BY <3>3, <3>4
  <2> QED
    BY <2>1, <2>2
<1>3. SampleFormatOf(c) = CHOOSE f \in plain \cup extensible : TRUE
  BY <1>2 DEF SampleFormatOf
<1> QED
  BY <1>2, <1>3

\* The speakers are those asked for.
LEMMA BuiltMask ==
    ASSUME NEW s \in WavSpec
    PROVE  ChannelMask(ForFormat(s)).bits = s.mask.bits
<1>1. CASE WritesAsExtensible(s)
  <2>1. ForFormat(s).ext.mask = s.mask.bits /\ IsExtensible(ForFormat(s))
    BY <1>1, ExtensibleFields, LongEnough DEF IsExtensible
  <2> QED
    BY <2>1 DEF ChannelMask
<1>2. CASE ~WritesAsExtensible(s)
  <2>1. s.mask.bits = {}
    BY <1>2 DEF WritesAsExtensible
  <2>2. ~IsExtensible(ForFormat(s))
    BY <1>2, PlainFields, TooShort
  <2> QED
    BY <2>1, <2>2 DEF ChannelMask, NoMask
<1> QED
  BY <1>1, <1>2

\* The body of a chunk is read with the extension it was written with.
LEMMA ExtensionRereads ==
    ASSUME NEW c, \/ c.ext = NoExtension
                  \/ c.ext = Opaque(0)
                  \/ \E v, m, g : c.ext = [len |-> ExtensibleLen, valid |-> v,
                                          mask |-> m, guid |-> g]
    PROVE  FromBytes(ToBytes(c)) = [c EXCEPT !.ext = c.ext]
<1> DEFINE b == ToBytes(c)
<1>1. CASE c.ext = NoExtension
  <2>1. c.ext.len = -1
    <3>1. NoExtension.len = -1
      BY DEF NoExtension, Opaque
    <3> QED
      BY <1>1, <3>1
  <2>2. b.len < ExSize /\ b.fmt = c
    BY <2>1 DEF ToBytes, CoreSize, ExSize
  <2> HIDE DEF b
  <2> QED
    BY <1>1, <2>2 DEF FromBytes, b
<1>2. CASE c.ext = Opaque(0)
  <2>1. c.ext.len = 0
    <3>1. Opaque(0).len = 0
      BY DEF Opaque
    <3> QED
      BY <1>2, <3>1
  <2>2. b.len = 18 /\ b.fmt = c
    BY <2>1 DEF ToBytes, ExSize
  <2>3. Stretched(c.ext, 0) = c.ext
    <3>1. Stretched(c.ext, 0) = Opaque(0)
      BY DEF Stretched, ExtensibleLen
    <3> QED
      BY <1>2, <3>1
  <2>4. ~(b.len < ExSize) /\ b.len - ExSize = 0
    BY <2>2 DEF ExSize
  <2> HIDE DEF b
  <2> QED
    BY <2>2, <2>3, <2>4 DEF FromBytes, b
<1>3. ASSUME NEW v, NEW m, NEW g,
             c.ext = [len |-> ExtensibleLen, valid |-> v, mask |-> m, guid |-> g]
      PROVE  FromBytes(ToBytes(c)) = [c EXCEPT !.ext = c.ext]
  <2>1. c.ext.len = 22
    BY <1>3 DEF ExtensibleLen
  <2>2. b.len = 40 /\ b.fmt = c
    BY <2>1 DEF ToBytes, ExSize
  <2>3. Stretched(c.ext, 22) = c.ext
    <3>1. Stretched(c.ext, 22) = [c.ext EXCEPT !.len = 22]
      BY DEF Stretched, ExtensibleLen
    <3> QED
      BY <1>3, <3>1 DEF ExtensibleLen
  <2>4. ~(b.len < ExSize) /\ b.len - ExSize = 22
    BY <2>2 DEF ExSize
  <2> HIDE DEF b
  <2> QED
    BY <2>2, <2>3, <2>4 DEF FromBytes, b
<1> QED
  BY <1>1, <1>2, <1>3

\* Writing a built chunk and reading it gives the chunk.
LEMMA BuiltRereads ==
    ASSUME NEW s \in WavSpec
    PROVE  FromBytes(ToBytes(ForFormat(s))) = ForFormat(s)
<1>1. [ForFormat(s) EXCEPT !.ext = ForFormat(s).ext] = ForFormat(s)
  BY DEF ForFormat
<1>2. CASE WritesAsExtensible(s)
  <2>1. \E v, m, g : ForFormat(s).ext = [len |-> ExtensibleLen, valid |-> v,
                                        mask |-> m, guid |-> g]
    <3> WITNESS Depth[s.format], s.mask.bits, GuidFor(s.format)
    <3> QED
      BY <1>2, ExtensibleFields
  <2> QED
    BY <1>1, <2>1, ExtensionRereads
<1>3. CASE ~WritesAsExtensible(s)
  BY <1>1, <1>3, PlainFields, ExtensionRereads
<1> QED
  BY <1>2, <1>3

\* A life that began with a spec holds the chunk built for it and no other.
BuiltInv ==
    /\ asked \subseteq Specs
    /\ \A s, r \in asked : s = r
    /\ \A s \in asked : \A c \in held : s.channels # 0 /\ c = ForFormat(s)
    /\ \A s \in asked : \A b \in body : s.channels # 0 /\ b = ToBytes(ForFormat(s))

LEMMA BuiltInit == Init => BuiltInv
BY DEF Init, BuiltInv

LEMMA BuiltStep == BuiltInv /\ [Next]_vars => BuiltInv'
<1> SUFFICES ASSUME BuiltInv, [Next]_vars PROVE BuiltInv'
  OBVIOUS
<1>1. CASE Build
  BY <1>1 DEF Build, BuiltInv, Refused
<1>2. CASE Encode
  BY <1>2 DEF Encode, BuiltInv
<1>3. CASE Decode
  BY <1>3, BuiltRereads, InputsAssumption DEF Decode, BuiltInv
<1>4. CASE UNCHANGED vars
  BY <1>4 DEF vars, BuiltInv
<1> QED
  BY <1>1, <1>2, <1>3, <1>4 DEF Next

\* Whatever is asked for and not refused is what every reader of the file finds,
\* however often the chunk is rewritten (for_format, to_bytes, from_bytes).
THEOREM AskedIsRead == Spec => []AskedIsWhatIsRead
<1>1. BuiltInv => AskedIsWhatIsRead
  <2> SUFFICES ASSUME BuiltInv, NEW s \in asked, NEW c \in held
               PROVE  /\ SampleFormatOf(c) = s.format
                      /\ c.channels = s.channels /\ c.rate = s.rate
                      /\ ChannelMask(c).bits = s.mask.bits
                      /\ c.block_align = s.channels * Width[s.format]
    BY DEF AskedIsWhatIsRead
  <2>1. s \in WavSpec /\ s.channels # 0 /\ c = ForFormat(s)
    BY InputsAssumption DEF BuiltInv
  <2> QED
    BY <2>1, BuiltMask, BuiltFormat, PlainFields, ExtensibleFields
<1> QED
  BY <1>1, BuiltInit, BuiltStep, PTL DEF Spec

-----------------------------------------------------------------------------
(* The spec of a chunk that was read builds a chunk that is read the same. *)

\* What WavParams::spec answers is a spec; it asks for the frames of the chunk.
LEMMA SpecOfChunk ==
    ASSUME NEW c, Counted(c), SampleFormatOf(c) # Unmodelled
    PROVE  /\ SpecOf(c) \in WavSpec
           /\ SpecOf(c).channels = c.channels /\ SpecOf(c).rate = c.rate
           /\ SpecOf(c).format = SampleFormatOf(c)
           /\ SpecOf(c).mask.bits = ChannelMask(c).bits
           /\ c.channels # 0
           /\ c.block_align = c.channels * Width[SampleFormatOf(c)]
<1>1. SampleFormatOf(c) \in SampleFormats /\ c.channels \in Nat /\ c.rate \in Nat
  BY FormatHasItsWidth, WidthsAssumption DEF Counted
<1>2. ChannelMask(c) \in Mask
  BY DEF ChannelMask, NoMask, Mask, Counted
<1>3. c.channels # 0
  <2>1. Width[SampleFormatOf(c)] # -1
    BY <1>1 DEF SampleFormats, Width
  <2> QED
    BY <2>1, FormatHasItsWidth DEF BytesPerSample
<1>4. c.block_align = c.channels * Width[SampleFormatOf(c)]
  BY FramesAgree, WidthsAssumption DEF FrameBytes, Counted
<1>5. SpecOf(c) \in WavSpec
  BY <1>1, <1>2 DEF SpecOf, WavSpec
<1> QED
  BY <1>3, <1>4, <1>5 DEF SpecOf

\* Whatever chunks and files there are: a caller who writes with the spec of what
\* was read writes the same format, unless its mask or its byte rate is one that
\* no built chunk has (WavParams::spec, for_format).
THEOREM SpecReproduces == Spec => []SpecReproducesTheFormat
<1>1. CountedInv => SpecReproducesTheFormat
  <2> SUFFICES ASSUME CountedInv, NEW c \in held, SampleFormatOf(c) # Unmodelled
               PROVE  LET s == SpecOf(c)
                          again == ForFormat(s)
                      IN  IF Refused(s)
                          THEN BadMask(s) \/ s.channels * s.rate * Width[s.format] > U32Max
                          ELSE /\ SampleFormatOf(again) = SampleFormatOf(c)
                               /\ FrameBytes(again) = FrameBytes(c)
                               /\ again.channels = c.channels /\ again.rate = c.rate
                               /\ ChannelMask(again).bits = ChannelMask(c).bits
    BY DEF SpecReproducesTheFormat
  <2> DEFINE s == SpecOf(c)
             again == ForFormat(s)
  <2>1. Counted(c)
    BY DEF CountedInv
  <2>2. /\ s \in WavSpec
        /\ s.channels = c.channels /\ s.rate = c.rate
        /\ s.format = SampleFormatOf(c)
        /\ s.mask.bits = ChannelMask(c).bits
        /\ c.channels # 0
        /\ c.block_align = c.channels * Width[SampleFormatOf(c)]
    BY <2>1, SpecOfChunk
  <2> HIDE DEF s
  <2>3. Refused(s) => BadMask(s) \/ s.channels * s.rate * Width[s.format] > U32Max
    <3>1. /\ s.channels <= U16Max /\ s.rate <= U32Max
          /\ s.channels * Width[s.format] <= U16Max
      BY <2>1, <2>2, WidthsAssumption DEF Counted
    <3>2. ~(s.channels > U16Max) /\ ~(s.rate > U32Max)
          /\ ~(s.channels * Width[s.format] > U16Max)
      BY <2>1, <2>2, <3>1, SpecTypes, WidthsAssumption
    <3> QED
      BY <2>2, <3>2 DEF Refused, TooWide
  <2>4. SampleFormatOf(again) = SampleFormatOf(c)
    BY <2>2, BuiltFormat
  <2>5. again.channels = c.channels /\ again.rate = c.rate
    BY <2>2, PlainFields, ExtensibleFields
  <2>6. FrameBytes(again) = FrameBytes(c)
    BY <2>4, <2>5 DEF FrameBytes
  <2>7. ChannelMask(again).bits = ChannelMask(c).bits
    BY <2>2, BuiltMask
  <2> QED
    BY <2>3, <2>4, <2>5, <2>6, <2>7 DEF s
<1> QED
  BY <1>1, CountedInit, CountedStep, PTL DEF Spec

-----------------------------------------------------------------------------
(* A body that was read and written again reads the same.                  *)

\* Cutting an extension to the length it has changes nothing.
LEMMA StretchedTwice ==
    ASSUME NEW ext, NEW v, NEW m, NEW g, NEW l, NEW n \in Nat,
           ext = [len |-> l, valid |-> v, mask |-> m, guid |-> g]
    PROVE  /\ Stretched(ext, n).len = n
           /\ Stretched(Stretched(ext, n), n) = Stretched(ext, n)
<1>1. CASE n >= ExtensibleLen
  <2>1. Stretched(ext, n) = [len |-> n, valid |-> v, mask |-> m, guid |-> g]
    BY <1>1 DEF Stretched
  <2>2. [Stretched(ext, n) EXCEPT !.len = n] = Stretched(ext, n)
    BY <2>1
  <2>3. Stretched(Stretched(ext, n), n) = [Stretched(ext, n) EXCEPT !.len = n]
    BY <1>1 DEF Stretched
  <2> QED
    BY <2>1, <2>2, <2>3
<1>2. CASE ~(n >= ExtensibleLen)
  <2>1. \A e : Stretched(e, n) = Opaque(n)
    BY <1>2 DEF Stretched
  <2>2. Opaque(n).len = n
    BY DEF Opaque
  <2> QED
    BY <2>1, <2>2
<1> QED
  BY <1>1, <1>2

\* The body written for a chunk that was read: its length, its cbSize, its
\* fields, and what it reads as.
LEMMA BodyRewrites ==
    ASSUME NEW b \in Body, Decodable(b)
    PROVE  LET w == ToBytes(FromBytes(b))
           IN  /\ w.len = IF b.len = CoreSize + 1 THEN CoreSize ELSE b.len
               /\ w.cb = IF w.len = CoreSize THEN 0 ELSE w.len - ExSize
               /\ w.fmt = [b.fmt EXCEPT !.ext = w.fmt.ext]
               /\ b.len >= ExSize + ExtensibleLen =>
                    w.fmt.ext = [b.fmt.ext EXCEPT !.len = b.len - ExSize]
               /\ FromBytes(w) = FromBytes(b)
<1> DEFINE c == FromBytes(b)
           w == ToBytes(c)
<1>1. b.len \in Nat /\ b.len >= 16 /\ b.fmt \in Fmt /\ b.fmt.ext \in Extension
  BY DEF Body, Decodable, CoreSize, Fmt
<1>2. c = [b.fmt EXCEPT !.ext = c.ext] /\ [c EXCEPT !.ext = c.ext] = c
  BY <1>1 DEF FromBytes, Fmt
<1>3. CASE b.len < ExSize
  <2>1. c.ext = NoExtension
    BY <1>1, <1>3 DEF FromBytes, Fmt
  <2>2. c.ext.len = -1
    <3>1. NoExtension.len = -1
      BY DEF NoExtension, Opaque
    <3> QED
      BY <2>1, <3>1
  <2> HIDE DEF c
  <2>3. w = [len |-> CoreSize, fmt |-> c, cb |-> 0]
    BY <2>2 DEF ToBytes
  <2>4. w.len = CoreSize /\ w.cb = 0 /\ w.fmt = c
    BY <2>3
  <2>5. b.len = 16 \/ b.len = 17
    BY <1>1, <1>3 DEF ExSize
  <2>6. FromBytes(w) = [c EXCEPT !.ext = NoExtension]
    BY <2>4 DEF FromBytes, CoreSize, ExSize
  <2>7. ~(b.len >= ExSize + ExtensibleLen)
    BY <1>1, <1>3 DEF ExSize, ExtensibleLen
  <2>8. w.fmt = [b.fmt EXCEPT !.ext = w.fmt.ext]
    BY <1>2, <2>4
  <2>9. FromBytes(w) = c
    BY <1>2, <2>1, <2>6
  <2> QED
    BY <2>4, <2>5, <2>7, <2>8, <2>9 DEF c, CoreSize
<1>4. CASE ~(b.len < ExSize)
  <2> DEFINE n == b.len - ExSize
  <2>1. n \in Nat /\ ExSize + n = b.len
    BY <1>1, <1>4 DEF ExSize
  <2>2. c.ext = Stretched(b.fmt.ext, n)
    BY <1>1, <1>4 DEF FromBytes, Fmt
  <2>3. \E l, v, m, g : b.fmt.ext = [len |-> l, valid |-> v, mask |-> m, guid |-> g]
    BY <1>1 DEF Extension
  <2> HIDE DEF c, n
  <2>4. c.ext.len = n /\ Stretched(c.ext, n) = c.ext
    BY <2>1, <2>2, <2>3, StretchedTwice
  <2>5. w = [len |-> ExSize + n, fmt |-> c, cb |-> n]
    BY <2>1, <2>4 DEF ToBytes
  <2>6. w.len = b.len /\ w.cb = n /\ w.fmt = c
    BY <2>1, <2>5
  <2>7. FromBytes(w) = [c EXCEPT !.ext = Stretched(c.ext, n)]
    <3>1. ~(w.len < ExSize) /\ w.len - ExSize = n
      BY <1>4, <2>6 DEF n
    <3> HIDE DEF w
    <3> QED
      BY <2>6, <3>1 DEF FromBytes
  <2>8. FromBytes(w) = c
    BY <1>2, <2>4, <2>7
  <2>9. b.len # CoreSize + 1 /\ b.len # CoreSize
    BY <1>1, <1>4 DEF ExSize, CoreSize
  <2>10. w.fmt = [b.fmt EXCEPT !.ext = w.fmt.ext]
    BY <1>2, <2>6
  <2>11. ASSUME b.len >= ExSize + ExtensibleLen
         PROVE  w.fmt.ext = [b.fmt.ext EXCEPT !.len = b.len - ExSize]
    <3>1. n >= ExtensibleLen
      BY <2>1, <2>11 DEF ExSize, ExtensibleLen
    <3>2. c.ext = [b.fmt.ext EXCEPT !.len = n]
      BY <2>2, <3>1 DEF Stretched
    <3> QED
      BY <2>6, <3>2 DEF n
  <2> QED
    BY <2>6, <2>8, <2>9, <2>10, <2>11 DEF c, n
<1> QED
  BY <1>3, <1>4

\* A life that began with a body holds the chunk that body reads as, and writes
\* that chunk's body.
RewrittenInv ==
    /\ found \subseteq Bodies
    /\ \A b, d \in found : b = d
    /\ \A b \in found : asked = {}
    /\ \A b \in found : \A c \in held : Decodable(b) /\ c = FromBytes(b)
    /\ \A b \in found : \A w \in body :
            \/ w = b /\ (stage = "body" => held = {})
            \/ w = ToBytes(FromBytes(b)) /\ Decodable(b)

LEMMA RewrittenInit == Init => RewrittenInv
BY InputsAssumption DEF Init, RewrittenInv

LEMMA RewrittenStep == RewrittenInv /\ [Next]_vars => RewrittenInv'
<1> SUFFICES ASSUME RewrittenInv, [Next]_vars PROVE RewrittenInv'
  OBVIOUS
<1>1. CASE Build
  BY <1>1 DEF Build, RewrittenInv
<1>2. CASE Encode
  BY <1>2 DEF Encode, RewrittenInv
<1>3. CASE Decode
  <2>1. PICK w \in body : IF Decodable(w) THEN stage' = "chunk" /\ held' = {FromBytes(w)}
                          ELSE stage' = "refused" /\ held' = held
    BY <1>3 DEF Decode
  <2>2. asked' = asked /\ found' = found /\ body' = body
    BY <1>3 DEF Decode
  <2>3. stage' # "body"
    BY <2>1
  <2>4. ASSUME NEW b \in found, Decodable(w)
        PROVE  Decodable(b) /\ FromBytes(w) = FromBytes(b)
    BY <2>4, BodyRewrites, InputsAssumption DEF RewrittenInv
  <2>5. \A b \in found' : \A c \in held' : Decodable(b) /\ c = FromBytes(b)
    BY <2>1, <2>2, <2>4 DEF RewrittenInv
  <2> QED
    BY <2>2, <2>3, <2>5 DEF RewrittenInv
<1>4. CASE UNCHANGED vars
  BY <1>4 DEF vars, RewrittenInv
<1> QED
  BY <1>1, <1>2, <1>3, <1>4 DEF Next

\* Whatever bodies are found: a chunk that was read is written as the body it
\* came from, field by field, with the cbSize that body should have had
\* (from_bytes, to_bytes).
THEOREM RewritesKeep == Spec => []RewritesKeepTheBody
<1>1. RewrittenInv => RewritesKeepTheBody
  <2> SUFFICES ASSUME RewrittenInv, NEW b \in found, NEW c \in held, NEW w \in body,
                      stage = "body"
               PROVE  /\ w.len = IF b.len = CoreSize + 1 THEN CoreSize ELSE b.len
                      /\ w.cb = IF w.len = CoreSize THEN 0 ELSE w.len - ExSize
                      /\ w.fmt = [b.fmt EXCEPT !.ext = w.fmt.ext]
                      /\ b.len >= ExSize + ExtensibleLen =>
                           w.fmt.ext = [b.fmt.ext EXCEPT !.len = b.len - ExSize]
                      /\ FromBytes(w) = c
    BY DEF RewritesKeepTheBody
  <2>1. b \in Body /\ Decodable(b) /\ c = FromBytes(b) /\ w = ToBytes(FromBytes(b))
    BY InputsAssumption DEF RewrittenInv
  <2> QED
    BY <2>1, BodyRewrites
<1> QED
  BY <1>1, RewrittenInit, RewrittenStep, PTL DEF Spec
=============================================================================
