\* Two disks and an empty one under any names; two milliseconds of waiting.
CONSTANTS
    emmc = emmc
    usb = usb
    loop0 = loop0
    Disks = {emmc, usb, loop0}
    Mbr = {usb}
    Gpt = {emmc}
    Empty = {loop0}
    ReadOnly = {usb}
    PartNums = {1, 2}
    Names = {1, 2, 3}
    Tries = 2
    Used <- MCUsed
SPECIFICATION FairSpec
INVARIANTS
    TypeOK
    WaitIsShared
    NeverMissed
    RightDevice
PROPERTIES
    EveryCallReturns
    KeepsPromise
