CONSTANTS
    Files <- MCFiles
    MaxAsk <- MCMaxAsk
SPECIFICATION Spec
INVARIANTS
    TypeOK
    ReadsReturnTheFramesAtPosition
    NoReadReturnsMetadata
    ShortReadsMeanTheEnd
\* A file whose frames have no size cannot be read.
CHECK_DEADLOCK FALSE
