CONSTANTS
    a = a
    b = b
    zero = zero
    Zero = zero
    U32Max <- MCU32Max
    Bytes <- MCBytes
    Writes <- MCWrites
    Chunks <- MCChunks
    Configs <- MCConfigs
    MaxFrame = 3
    MaxData = 6
    MaxTail = 20
SPECIFICATION Spec
INVARIANT
    ChunksFollowTheAudio
CHECK_DEADLOCK FALSE
