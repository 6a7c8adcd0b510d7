\* A program that writes one byte.
SPECIFICATION Spec
CONSTANTS
    Length = 3
    Throwaway = 2
    PipeCap = 2
    MaxOut = 1
INVARIANT
    OutputIsTrimmed
CHECK_DEADLOCK FALSE
