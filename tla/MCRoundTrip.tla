----------------------------- MODULE MCRoundTrip -----------------------------
(***************************************************************************)
(* A small instance of RoundTrip.  The requests are those of a caller who  *)
(* asks for anything: formats with and without an extension of odd length, *)
(* every form of fact, up to two leading chunks, and each of the refusals. *)
(* u16::MAX is 30 and u32::MAX 300, so a size that is refused differs from *)
(* every length of a file.                                                 *)
(***************************************************************************)
EXTENDS RoundTrip

MCU16Max == 30
MCU32Max == 300
MCU64Max == 9999

Plain(ext, modelled, pcm) ==
    [channels |-> 1, extension |-> ext, modelled |-> modelled, pcm |-> pcm,
     extensible |-> FALSE]

\* PCM, float, extensible PCM, ADPCM, a codec with an odd extension, a fmt too
\* long to describe and one without channels.
MCFmts ==
    {Plain(Absent, TRUE, TRUE), Plain(0, TRUE, FALSE),
     [Plain(22, TRUE, TRUE) EXCEPT !.extensible = TRUE],
     Plain(2, FALSE, FALSE), Plain(5, FALSE, FALSE), Plain(31, FALSE, FALSE),
     [Plain(Absent, FALSE, FALSE) EXCEPT !.channels = 0]}

MCFacts ==
    {[kind |-> "Auto", len |-> 0, count |-> 0], [kind |-> "None", len |-> 0, count |-> 0]}
        \cup {[kind |-> "Samples", len |-> 0, count |-> n] : n \in {7, 301}}
        \cup {[kind |-> "Body", len |-> n, count |-> 0] : n \in {0, 3, 4, 5, 301}}

LIST == [id |-> "LIST", size |-> 4]
Note == [id |-> "note", size |-> 3]
Injected == [id |-> "ds64", size |-> 4]
TooLong == [id |-> "long", size |-> 301]

MCLeadings ==
    {<< >>, <<Note>>, <<LIST, Note>>, <<Note, LIST>>, <<Note, Injected>>, <<TooLong>>}

MCAttachable == {LIST, Note}

\* What the audio may look like: no chunk, one that is cut off, a small one, one
\* the reader consumes and one the writer refuses.
MCLooks == [id : {"none", "LIST", "fact", "RIFF"}, len : {0, 300}]
=============================================================================
