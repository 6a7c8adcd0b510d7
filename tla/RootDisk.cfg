\* A boot area and a memory stick that come and go and share device numbers
\* while the disks are scanned.  The root filesystem may be on any device.
CONSTANTS
    Disks <- MCDisks
    Parts <- MCParts
    Areas <- MCAreas
    On <- MCOn
    Number <- MCNumber
    NamesOf <- MCNamesOf
    DevsOf <- MCDevsOf
SPECIFICATION Spec
INVARIANTS
    TypeOK
    LinksRight
    LinksComplete
PROPERTY ScanEnds
