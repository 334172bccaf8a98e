CONSTANTS
    U32Max <- MCU32Max
    U64Max <- MCU64Max
    FileSizes <- MCFileSizes
    Declared <- MCDeclared
    Ids <- MCIds
    Lengths <- MCLengths
    Ds64Values <- MCDs64Values
    Tables <- MCTables
    CoreSize = 1
    RiffSizeEnd = 1
    DataSizeEnd = 1
    TableEnd = 1
SPECIFICATION Spec
INVARIANTS
    TypeOK
    ReadsAreBoundedByTheFile
    AudioIsNotMetadata
    OwnedChunksAreConsumed
    TrailingChunksAreInsideRiff
PROPERTIES
    FirstChunkDecides
    WalkEnds
\* The walk ends.
CHECK_DEADLOCK FALSE
