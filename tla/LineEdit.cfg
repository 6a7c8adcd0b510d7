\* Two letters and a NUL, lines of up to two characters, a history of three
\* entries.  The prompt may end, so there is a last state.
CONSTANTS
    a = a
    Space = Space
    Nul = Nul
    Chars = {a, Space, Nul}
    BufLen = 2
    HistoryMax = 3
    Plen = 2
    Cols = {1, 2, 3, 4, 5}
    Terminals = {"tty", "dumb", "pipe"}
    PlainLines <- MCPlainLines
SPECIFICATION FairSpec
INVARIANTS
    TypeOK
    ScreenShowsLine
    OnlyNarrowCrashes
    CookedForCommands
PROPERTIES
    MovesKeepLines
    IsBook
    ReplEnds
CHECK_DEADLOCK FALSE
