CONSTANTS
    U16Max <- MCU16Max
    U32Max <- MCU32Max
    U64Max <- MCU64Max
    Fmts <- MCFmts
    Facts <- MCFacts
    Leadings <- MCLeadings
    Attachable <- MCAttachable
    Looks <- MCLooks
    MaxAudio = 2
    MaxAttached = 1
SPECIFICATION RoundTripSpec
INVARIANT StreamedChunksComeBack
CHECK_DEADLOCK FALSE
