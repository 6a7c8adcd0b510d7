\* One area of two pairs, two values, three writes and any number of restarts.
CONSTANTS
    A = A
    B = B
    mmc = mmc
    Some = Some
    Other = Other
    Default = A
    CapA = 3
    CapB = 2
    Dev <- MCDev
    Cap <- MCCap
    Initial <- MCInitial
    Names = {1, 2}
    Values = {Some, Other}
    Locs = {A}
    MaxWrites = 3
SPECIFICATION Spec
INVARIANTS
    UniqueNames
    OnlyTouchedDiffer
PROPERTY
    IsStore
