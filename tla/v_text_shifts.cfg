CONSTANTS
    Kinds <- MCKinds
    Found <- MCFound
    Supplied <- MCSupplied
    Texts <- MCTexts
    TagIds <- MCTagIds
    Widths <- MCWidths
    Copied = 2
    Reserved = 2
    MaxEdits = 1
    MaxWrites = 2
SPECIFICATION Spec
INVARIANT RereadingIsStable
CHECK_DEADLOCK FALSE
