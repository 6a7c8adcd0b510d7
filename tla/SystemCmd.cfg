\* A buffer of four bytes and a pipe of two, so that output fills both.
\* The system stops when the machine reboots.
SPECIFICATION FairSpec
CONSTANTS
    Length = 4
    Throwaway = 2
    PipeCap = 2
    MaxOut = 5
INVARIANTS
    TypeOK
    AllOutput
    RevertedIfForked
    TrimmedUnlessBlank
PROPERTY
    CallEnds
CHECK_DEADLOCK FALSE
