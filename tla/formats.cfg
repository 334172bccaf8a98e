\* Every form of every sample format, and files that mix them up.
CONSTANTS
    U16Max <- MCU16Max
    U32Max <- MCU32Max
    Specs <- MCSpecs
    Chunks <- MCChunks
    Bodies <- MCBodies
    OtherGuids <- MCOtherGuids
SPECIFICATION Spec
INVARIANTS
    TypeOK
    AskedIsWhatIsRead
    FramesAreAsDeclared
    RewritesKeepTheBody
    SpecReproducesTheFormat
\* A life may end in a refusal.
CHECK_DEADLOCK FALSE
