\* Calls that fail at any step, and kills at any step.
CONSTANTS
    a = a
    b = b
    zero = zero
    Zero = zero
    U32Max <- MCU32Max
    Bytes <- MCBytes
    Writes <- MCWrites
    Chunks <- MCChunks
    Configs <- MCConfigs
    MaxFrame = 1
    MaxData = 3
    MaxTail = 11
    MaxTorn = 1
SPECIFICATION IOSpec
INVARIANTS
    SeekPutsTheStreamRight
    KilledFilesAreConsistent
    AudioIsWhatSucceeded
PROPERTIES
    ImplementsCalls
\* A consumed writer accepts no further call.
CHECK_DEADLOCK FALSE
