--------------------------- MODULE MCBlockDevice ---------------------------
(***************************************************************************)
(* Instances of BlockDevice for TLC: an eMMC with a GPT, a USB stick with  *)
(* an MBR, and a loop device that nothing is bound to.                     *)
(***************************************************************************)
EXTENDS BlockDevice

CONSTANTS emmc, usb, loop0

MCUsed == [d \in Disks |->
    CASE d = emmc -> {1, 2}
      [] d = usb  -> {1}
      [] OTHER    -> {}]
=============================================================================
