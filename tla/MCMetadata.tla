----------------------------- MODULE MCMetadata -----------------------------
(***************************************************************************)
(* A small instance of Metadata: chunks put together from pieces, whole,   *)
(* cut off, unpadded, or with a size or a count that lies.  Texts are      *)
(* ASCII, Latin-1, UTF-8 of two and three bytes, and both at once.         *)
(***************************************************************************)
EXTENDS Metadata

MCKinds == {"INFO", "adtl", "bext", "cue ", "smpl"}
MCWidths == <<4, 3>>
MCTagIds == {<<84, 73>>, <<65, 82>>}

A == 65
EAcute == 233
Euro == 8364
TITLE == <<84, 73>>

\* Strings: with a NUL, ambiguous, too long, cut between and inside characters.
MCTexts ==
    {<< >>, <<A>>, <<EAcute>>, <<A, 0, A>>, <<195, 169>>, <<Euro, Euro>>,
     <<EAcute, Euro>>, <<A, A, A, A, A>>, <<EAcute, A, 195, 169, Euro>>}

\* Bytes: as above, padded with NULs, and cut inside a sequence.
MCRaw ==
    {<< >>, <<A>>, <<A, 0>>, <<195, 169, 0>>, <<233>>, <<226, 130, 172>>,
     <<226, 130>>, <<195, 131, 194, 169>>, <<0, A>>}

\* A sub-chunk, whose size may promise one byte too many and whose pad may be
\* missing.
Pieces(ids, raws) ==
    {id \o NumberBytes(Len(raw) + lie) \o raw \o Zeros(pad * (Len(raw) % 2)) :
        id \in ids, raw \in raws, lie \in {0, 1}, pad \in {0, 1}}

Lists(form, pieces) == {form} \cup {form \o p : p \in pieces}
                            \cup {form \o p \o q : p, q \in pieces}

InfoBodies == Lists(INFO, Pieces({TITLE}, MCRaw)) \cup {ADTL, <<73>>}

\* Too short for a cue id, no text, text; labelled text; an unknown one.
AdtlPieces ==
    Pieces({LABL, NOTE}, {<<1>>, <<1, 0>>, <<1, 0, A>>, <<1, 1, 233, 0>>})
        \cup Pieces({LTXT}, {Zeros(9), <<1, 1, 2, 3, 4, 5, 6, 7, 8, 9, A>>})
        \cup Pieces({TITLE}, {<<1, 0, A>>})

AdtlBodies == Lists(ADTL, AdtlPieces) \cup {INFO}

Fields(w) == [1 .. w -> {0, A, 131, 169, 194, 195}]

BextBodies ==
    {f \o g \o <<1, 2, 3, 4>> \o <<5, 6>> : f \in Fields(4),
        g \in {<<A, 233, 0>>, <<226, 130, 172>>, <<233, 226, 130>>}}

MCBext ==
    {b \o <<0, 0>> : b \in BextBodies} \cup {b \o <<7, 8, A, 0>> : b \in BextBodies}
        \cup {Zeros(14)}

Record(n) == <<n, 1, 2, n>> \o Zeros(8)

\* Up to two records and some of a third.
Tails == {Zeros(k) : k \in {0, 1, 11}} \cup {Record(3) \o Zeros(k) : k \in {0, 2, 11}}
            \cup {Record(3) \o Record(4) \o <<9, 9>>}

CueBodies == {NumberBytes(n) \o t : n \in {0, 1, 2, 300}, t \in Tails} \cup {<<1>>}

SmplBodies ==
    {Zeros(12) \o <<7, 1>> \o NumberBytes(n) \o NumberBytes(d) \o t :
        n \in {0, 1, 2, 300}, d \in {0, 1, 5, 300}, t \in Tails} \cup {Zeros(17)}

ChunksOf(k) ==
    LET bodies == CASE k = "INFO" -> InfoBodies
                    [] k = "adtl" -> AdtlBodies
                    [] k = "bext" -> MCBext
                    [] k = "cue " -> CueBodies
                    [] k = "smpl" -> SmplBodies
        id == IF k \in {"INFO", "adtl"} THEN "LIST" ELSE k
    IN  [id : {id}, data : bodies] \cup {[id |-> "note", data |-> ADTL]}

MCFound == [k \in MCKinds |-> ChunksOf(k)]

Point(n) == <<n, n, 1, 0, 0, 65535>>

\* The other INFO values are made with set, push and remove.
ValuesOf(k) ==
    CASE k = "INFO" -> {<< >>, <<[id |-> TITLE, text |-> <<A, Euro>>],
                               [id |-> TITLE, text |-> <<195, 169>>]>>}
      [] k = "adtl" -> {<<[id |-> i, cue |-> 258, more |-> << >>, text |-> t]>> :
                            i \in {LABL, NOTE}, t \in MCTexts}
                       \cup {<<[id |-> LTXT, cue |-> 1, more |-> <<1, 2, 3, 4, 5, 6, 7, 8>>,
                                text |-> t],
                               [id |-> LABL, cue |-> 1, more |-> << >>, text |-> <<A>>]>> :
                            t \in MCTexts}
      [] k = "bext" -> {[texts |-> <<s, t>>, time |-> 65536 * n + 2, copied |-> <<n, n>>,
                         history |-> s] : s, t \in MCTexts, n \in {0, 255}}
      [] k = "cue " -> {<< >>, <<Point(1)>>, <<Point(1), Point(300), Point(1)>>}
      [] k = "smpl" -> {[fields |-> <<1, 2, 3, 4, 5, 6, n>>, loops |-> l, data |-> d] :
                            n \in {0, 65535}, l \in {<< >>, <<Point(2), Point(1)>>},
                            d \in {<< >>, <<A>>, Zeros(13)}}

MCSupplied == [k \in MCKinds |-> ValuesOf(k)]
=============================================================================
