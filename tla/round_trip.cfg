CONSTANTS
    U16Max <- MCU16Max
    U32Max <- MCU32Max
    U64Max <- MCU64Max
    Fmts <- MCFmts
    Facts <- MCFacts
    Leadings <- MCLeadings
    Attachable <- MCAttachable
    Looks <- MCLooks
    MaxAudio = 2
    MaxAttached = 2
SPECIFICATION RoundTripSpec
INVARIANTS
    TypeOK
    PositionCountsBytes
    OffsetsHitTheirFields
    FinishedFilesReadBack
    KilledFilesStayReadable
    ChunksHandedOutWereAttached
    CopiesReadTheSame
\* A file that was read, or copied and read, is the end.
CHECK_DEADLOCK FALSE
