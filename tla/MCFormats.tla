----------------------------- MODULE MCFormats -----------------------------
(***************************************************************************)
(* A small instance of Formats.  A frame has at most 24 bytes and a second *)
(* at most 96, so that both limits are met by a few channels.              *)
(***************************************************************************)
EXTENDS Formats

MCU16Max == 24
MCU32Max == 96

MCOtherGuids == {"other"}

MCMasks == {NoMask} \cup [given : {TRUE}, bits : {{}, {2}, {0, 1}, {0, 1, 2}}]

MCSpecs == [channels : {0, 1, 2, 3, 4, 25}, rate : {1, 4, 97},
            format : SampleFormats, mask : MCMasks]

MCFmt(codes, exts) ==
    [code : codes, channels : {0, 1, 2, 3}, rate : {4, 40}, byte_rate : {7},
     block_align : {0, 2, 3, 4, 6, 8, 12, 24}, bits : {0, 8, 16, 24, 32, 64},
     ext : exts]

\* Every code, without cbSize, with a short extension, and with one that is
\* too long for cbSize.
MCChunks ==
    MCFmt({1, 2, 3, 6, 7, ExtensibleCode}, {NoExtension, Opaque(0), Opaque(4), Opaque(25)})

MCExtensible ==
    [len : {22}, valid : {8, 16, 24, 32, 64}, mask : {{}, {0, 1}},
     guid : {"PCM", "FLOAT", "ALAW", "MULAW"} \cup MCOtherGuids]

Plainest == [len |-> 22, valid |-> 8, mask |-> {}, guid |-> "PCM"]

\* Bodies with all extensible fields, of an extensible chunk or another; and
\* bodies that end in front of cbSize, inside it, inside the extensible fields
\* or inside the core.  cbSize is right, zero, or wrong.
MCBodies ==
    {b \in [len : {15, 16, 17, 18, 22, 40}, fmt : MCFmt({1, ExtensibleCode}, MCExtensible),
            cb : {0, 22}] :
        b.len = 40 \/ b.fmt.ext = Plainest}
=============================================================================
