CONSTANTS
    Kinds <- MCKinds
    Found <- MCFound
    Supplied <- MCSupplied
    Texts <- MCTexts
    TagIds <- MCTagIds
    Widths <- MCWidths
    Copied = 2
    Reserved = 2
    MaxEdits = 1
    MaxWrites = 2
SPECIFICATION Spec
INVARIANTS
    TypeOK
    WrittenIsReadBack
    LossesHappenOnce
    FieldsFitBack
\* A chunk that was written often enough, or could not be read, is the end.
CHECK_DEADLOCK FALSE
