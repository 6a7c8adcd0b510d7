\* Two areas of one device: a save that did not fit, then one that did.
CONSTANTS
    A = A
    B = B
    mmc = mmc
    Some = Some
    Other = Other
    Default = A
    CapA = 3
    CapB = 2
    Dev <- MCDev
    Cap <- MCCap
    Initial <- MCInitialTwo
    Names = {1, 2}
    Values = {Some}
    Locs = {A, B}
    MaxWrites = 1
SPECIFICATION Spec
INVARIANT SavedIsOnStorage
