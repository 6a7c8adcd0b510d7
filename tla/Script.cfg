\* Two inputs of up to two statements each; the heap holds three or four statements.
SPECIFICATION MCSpec
CONSTANTS
    Names <- MCNames
    Strings <- MCStrings
    Functions <- MCFunctions
    Inputs <- MCInputs
    Null = Null
    HeapCells = 110
    StringCells = 1
    IntBits = 3
    MaxEvals = 2
    MaxDepth = 6
    Reductions <- Post
INVARIANTS
    HeapTypeOK
    NamedOnce
    NoDangling
    MeansWhatItSays
    AnswersLastStatement
    OnlyMisuseCrashes
PROPERTIES
    HeapSpec
    KeepsVariables
