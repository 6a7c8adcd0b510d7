----------------------------- MODULE MCUBootEnv -----------------------------
(***************************************************************************)
(* Instances of UBootEnv for TLC: two areas of one device, with contents a *)
(* device may be shipped with.                                             *)
(***************************************************************************)
EXTENDS UBootEnv

CONSTANTS A, B, mmc, Some, Other, CapA, CapB

MCDev == [l \in Locs |-> mmc]
MCCap == [l \in Locs |-> IF l = A THEN CapA ELSE CapB]

One == Some

\* Never written: no checksum, 0xff throughout.
Blank(l) == [crc |-> <<>>, data |-> [k \in 1 .. Cap[l] |-> Fill]]

\* A block with a checksum whose second string has no '='.
Malformed(l) ==
    LET row == [k \in 1 .. Cap[l] |->
                    IF k = 1 THEN Pair(<<2, One>>) ELSE IF k = 2 THEN Junk ELSE Fill]
    IN  [crc |-> row, data |-> row]

\* Pairs up to the last byte, without the NUL after the last one.
Packed(l) ==
    LET row == [k \in 1 .. Cap[l] |-> Pair(<<k, One>>)]
    IN  [crc |-> row, data |-> row]

MCInitial == [l \in Locs |-> {Blank(l), Malformed(l), Encode(<<<<1, One>>>>, l)}]

MCInitialTwo == [l \in Locs |->
    IF l = A THEN {Encode(<<<<1, One>>>>, l)} ELSE {Malformed(l), Packed(l)}]
=============================================================================
