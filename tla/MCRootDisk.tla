----------------------------- MODULE MCRootDisk -----------------------------
(***************************************************************************)
(* Instances of RootDisk for TLC: an eMMC with two partitions and a boot   *)
(* area, and a memory stick with one partition.                            *)
(***************************************************************************)
EXTENDS RootDisk

MCDisks   == {"emmc", "boot", "stick"}
MCParts   == {"emmc1", "emmc2", "stick1"}
MCAreas   == {"boot"}
MCOn      == [x \in MCParts \cup MCAreas |-> IF x = "stick1" THEN "stick" ELSE "emmc"]
MCNumber  == [p \in MCParts |-> IF p = "emmc2" THEN 2 ELSE 1]
MCNamesOf == [x \in MCDisks \cup MCParts |->
    CASE x = "stick"  -> {"sda", "sdb"}
      [] x = "stick1" -> {"sda1"}
      [] OTHER        -> {x}]
MCDevsOf  == [x \in MCDisks \cup MCParts |->
    CASE x = "emmc"  -> {1}
      [] x = "emmc1" -> {2}
      [] x = "emmc2" -> {3}
      [] x = "boot"  -> {4}
      [] OTHER       -> {4, 5}]
=============================================================================
