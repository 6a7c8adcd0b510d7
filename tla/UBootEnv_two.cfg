\* Two areas of one device; B cannot hold what it was shipped with.  A variable may
\* have an empty name.
CONSTANTS
    A = A
    B = B
    mmc = mmc
    Some = Some
    Other = Other
    Default = A
    CapA = 3
    CapB = 2
    Dev <- MCDev
    Cap <- MCCap
    Initial <- MCInitialTwo
    Names = {0, 1, 2}
    Values = {Some}
    Locs = {A, B}
    MaxWrites = 2
SPECIFICATION Spec
INVARIANTS
    TypeOK
    SavedSurvives
