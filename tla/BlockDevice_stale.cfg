\* A USB stick with an MBR and an empty loop device: what the stale sector does.
CONSTANTS
    emmc = emmc
    usb = usb
    loop0 = loop0
    Disks = {usb, loop0}
    Mbr = {usb}
    Gpt = {}
    Empty = {loop0}
    ReadOnly = {}
    PartNums = {1, 2}
    Names = {1, 2}
    Tries = 1
    Used <- MCUsed
SPECIFICATION Spec
INVARIANT UuidsFind
