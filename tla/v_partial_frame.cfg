CONSTANTS
    Files <- MCFiles
    MaxAsk <- MCMaxAsk
SPECIFICATION Spec
INVARIANT
    PartialFrameIsDropped
CHECK_DEADLOCK FALSE
