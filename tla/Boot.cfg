\* A script that may mount a filesystem, up to two steps that fail, and a socket
\* that a program has left in the initramfs.  The boot ends: there is a last state.
CONSTANTS
    Files <- MCFiles
    FsOf <- MCFsOf
    Below <- MCBelow
    Top <- MCTop
    Odd = {"run/log/sock"}
    ScriptDirs = {"data"}
    MaxFaults = 2
SPECIFICATION Spec
INVARIANTS
    TypeOK
    ExecsRealInit
    CleansOldRootOnly
    OldRootEmptied
    HandedOver
CHECK_DEADLOCK FALSE
