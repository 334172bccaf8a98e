\* A caller that writes chunks only with the cursor at the end of the audio.
CONSTANTS
    a = a
    b = b
    zero = zero
    Zero = zero
    U32Max <- MCU32Max
    Bytes <- MCBytes
    Writes <- MCWrites
    Chunks <- MCChunks
    Configs <- MCAllConfigs
    MaxFrame = 3
    MaxData = 6
    MaxTail = 20
SPECIFICATION DisciplinedSpec
INVARIANTS
    TypeOK
    StreamAtCursor
    AudioAloneAlwaysFits
    RemainingFramesIsExact
    FileIsExactlyDescribed
    TailIsWalkable
    FinalizedSizesAreExact
PROPERTIES
    HeaderStaysCovered
    ImplementsTrack
\* A consumed writer accepts no further call.
CHECK_DEADLOCK FALSE
