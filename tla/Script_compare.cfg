\* The same scripts; a comparison of a string with a number.
SPECIFICATION MCSpec
CONSTANTS
    Names <- MCNames
    Strings <- MCStrings
    Functions <- MCFunctions
    Inputs <- MCInputs
    Null = Null
    HeapCells = 110
    StringCells = 1
    IntBits = 3
    MaxEvals = 2
    MaxDepth = 6
    Reductions <- Post
INVARIANT ComparesSameKind
