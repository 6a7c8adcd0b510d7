-------------------------------- MODULE Boot --------------------------------
(***************************************************************************)
(* The boot sequence of PID 1, src/nerves_initramfs.c: mount /dev, /sys    *)
(* and /proc, run the script, mount the root filesystem on /mnt, link its  *)
(* disk, and switch_root() to it.                                          *)
(*                                                                         *)
(* Steps under OK_OR_WARN, OK_OR_DEBUG or without a check go on when they  *)
(* fail; steps under OK_OR_FATAL and fatal() end in a kernel panic.  Each  *)
(* step of the first kind may fail here, up to MaxFaults of them, and the  *)
(* cleanup may fail for any of the entries that it tries to remove.        *)
(*                                                                         *)
(* Files are the files of every filesystem, named by where the initramfs   *)
(* shows them.  on says what is mounted on a directory of the initramfs;   *)
(* a mounted filesystem hides what lies below its directory.               *)
(***************************************************************************)
EXTENDS Integers

CONSTANTS
    Files,
    FsOf,       \* [Files -> filesystem], the filesystem each file is on
    Below,      \* [Files -> SUBSET Files], the files below it on the same one
    Top,        \* the entries of the initramfs's root directory
    Odd,        \* the block device nodes and the sockets
    ScriptDirs, \* the directories a script may mount a filesystem on
    MaxFaults   \* bound: how many steps fail

OldInit == "sbin/init"
Points  == {"dev", "sys", "proc", "mnt"} \cup ScriptDirs
RootSkipList == {"dev", "mnt", "proc", "sys"}

\* The initramfs is a tree below Top, and its own init, if it has one, is an
\* ordinary file that the script mounts nothing over.
ASSUME BootAssumption ==
    /\ Top \subseteq Files /\ RootSkipList \subseteq Top
    /\ ScriptDirs \subseteq Files \ RootSkipList
    /\ \A d \in ScriptDirs : FsOf[d] = "initramfs"
    /\ \A f \in Files : FsOf[f] # "none"
    /\ Below \in [Files -> SUBSET Files]
    /\ \A f \in Files : Below[f] \cap Top = {}
    /\ \A t \in Top : FsOf[t] = "initramfs" /\ \A x \in Below[t] : FsOf[x] = "initramfs"
    /\ \A s, t \in Top : s # t => Below[s] \cap Below[t] = {}
    /\ \A x \in Files : FsOf[x] = "initramfs" => x \in Top \cup UNION {Below[t] : t \in Top}
    /\ OldInit \in Files =>
         /\ Below[OldInit] = {} /\ OldInit \notin Odd
         /\ \E t \in Top \ RootSkipList : OldInit \in Below[t]
         /\ \A d \in Points : OldInit # d /\ OldInit \notin Below[d]
    /\ MaxFaults \in Nat

VARIABLES
    pc,
    on,         \* what is mounted on each of Points, or "none"
    newDev,     \* /dev was moved below the root filesystem
    files,      \* the files that exist
    encrypted,  \* rootfs.encrypted
    wholeDisk,  \* the root filesystem is on a disk without a partition table
    source,     \* what was mounted on /mnt: "none", "device" or "dm-0"
    links,      \* the filesystem that has all of the root disk's symlinks, or "none"
    cwd, root,  \* the filesystem of the working and of the root directory
    cleanup,    \* history: cleanup_old_rootfs() ran
    stuck,      \* history: the entries it could not remove
    faults      \* bound: the steps that failed

config  == <<encrypted, wholeDisk>>
cleaned == <<files, cleanup, stuck>>
state   == <<on, newDev, config, source, links, cwd, root, cleaned>>
vars    == <<pc, state, faults>>

Final == {"running", "panic", "restarted"}

-----------------------------------------------------------------------------
Init ==
    /\ pc = "mount_dev"
    /\ on = [d \in Points |-> "none"]
    /\ newDev = FALSE
    /\ files = Files
    /\ encrypted = FALSE
    /\ wholeDisk = FALSE
    /\ source = "none"
    /\ links = "none"
    /\ cwd = "initramfs"
    /\ root = "initramfs"
    /\ cleanup = "pending"
    /\ stuck = {}
    /\ faults = 0

Go(here, there) == pc = here /\ pc' = there

\* A step that goes on when it fails.
Fails == faults < MaxFaults /\ faults' = faults + 1 /\ UNCHANGED state

\* setup_initramfs(): one mount.
Setup(here, dir, fs, there) ==
    /\ Go(here, there)
    /\ \/ /\ on' = [on EXCEPT ![dir] = fs]
          /\ UNCHANGED <<newDev, config, source, links, cwd, root, cleaned, faults>>
       \/ Fails

\* eval_file() and then, if run_repl is set, repl().  The script sets variables,
\* may run a program that mounts a filesystem, and may not come back.
Assign ==
    /\ pc \in {"script", "repl"}
    /\ encrypted' \in BOOLEAN
    /\ UNCHANGED <<pc, on, newDev, wholeDisk, source, links, cwd, root, cleaned, faults>>

ScriptMounts(d) ==
    /\ pc \in {"script", "repl"}
    /\ on[d] = "none"
    /\ on' = [on EXCEPT ![d] = "extra"]
    /\ UNCHANGED <<pc, newDev, config, source, links, cwd, root, cleaned, faults>>

Script ==
    /\ \/ /\ pc = "script"
          /\ pc' \in {"repl", "resolve", "panic", "restarted"}
       \/ /\ pc = "repl"
          /\ pc' \in {"resolve", "panic", "restarted"}
    /\ UNCHANGED <<state, faults>>

\* resolve_block_device_spec() fails only for good.  What it finds may be a disk
\* or a partition.
Resolve ==
    /\ pc = "resolve"
    /\ \/ pc' = "mount_root" /\ wholeDisk' \in BOOLEAN
       \/ pc' = "panic" /\ UNCHANGED wholeDisk
    /\ UNCHANGED <<on, newDev, encrypted, source, links, cwd, root, cleaned, faults>>

\* Mutant: an encrypted root filesystem is mounted from its own device.
MountUnmapped ==
    /\ Go("mount_root", "link")
    /\ on' = [on EXCEPT !["mnt"] = "rootfs"]
    /\ source' = "device"
    /\ UNCHANGED <<newDev, config, links, cwd, root, cleaned, faults>>

\* mount_fs() or losetup(), dm_create() and the mount of mount_encrypted_fs().
MountRoot ==
    /\ Go("mount_root", "link")
    /\ on' = [on EXCEPT !["mnt"] = "rootfs"]
    /\ source' = IF encrypted THEN "dm-0" ELSE "device"
    /\ UNCHANGED <<newDev, config, links, cwd, root, cleaned, faults>>

CannotMountRoot ==
    /\ Go("mount_root", "panic")
    /\ UNCHANGED <<state, faults>>

\* create_rootdisk_symlinks() finds the root filesystem's device in sysfs, and it
\* is a partition of a disk.
RootDiskKnown == on["sys"] # "none" /\ ~wholeDisk

\* Mutant: the symlinks are made where the disks were found.
LinkInSys ==
    /\ Go("link", "move_dev")
    /\ \/ RootDiskKnown /\ links' = on["sys"] /\ UNCHANGED faults
       \/ ~RootDiskKnown /\ UNCHANGED <<links, faults>>
    /\ UNCHANGED <<on, newDev, config, source, cwd, root, cleaned>>

\* create_rootdisk_symlinks(), in whatever /dev is.  stat() of the device fails, or
\* some or all of the symlink() calls; which links those are is in RootDisk.
Link ==
    /\ Go("link", "move_dev")
    /\ \/ /\ RootDiskKnown
          /\ links' = IF on["dev"] = "none" THEN "initramfs" ELSE on["dev"]
          /\ UNCHANGED <<on, newDev, config, source, cwd, root, cleaned, faults>>
       \/ ~RootDiskKnown /\ UNCHANGED <<state, faults>>
       \/ Fails

-----------------------------------------------------------------------------
\* switch_root(), one action per call.
MoveDev ==
    /\ Go("move_dev", "umount_sys")
    /\ \/ /\ on["dev"] # "none"
          /\ on' = [on EXCEPT !["dev"] = "none"]
          /\ newDev' = TRUE
          /\ UNCHANGED <<config, source, links, cwd, root, cleaned, faults>>
       \/ /\ on["dev"] = "none"
          /\ UNCHANGED <<state, faults>>
       \/ Fails

Umount(here, dir, there) ==
    /\ Go(here, there)
    /\ \/ /\ on' = [on EXCEPT ![dir] = "none"]
          /\ UNCHANGED <<newDev, config, source, links, cwd, root, cleaned, faults>>
       \/ Fails

\* What cleanup_dir() finds below the directory f.
Hidden(x)  == \E d \in Points : on[d] # "none" /\ x \in Below[d]
Inside(f)  == {x \in files :
                  \/ x \in Below[f] /\ ~Hidden(x)
                  \/ \E d \in Points \cap (Below[f] \cup {f}) :
                        on[d] # "none" /\ FsOf[x] = on[d]}

\* Mutant: the skip list lacks "dev".
VisitedWithDev == UNION {Inside(t) \cup {t} : t \in (Top \cap files) \ {"mnt", "proc", "sys"}}

\* The skip list is consulted in the root directory only.
Visited    == UNION {Inside(t) \cup {t} : t \in (Top \cap files) \ RootSkipList}

\* Mutant: a directory is removed before what it contains.
RemovableEmpty(x, F) == Inside(x) = {}

\* d_type & DT_DIR is true for a block device and a socket too: rmdir() refuses
\* them.  A directory goes if everything in it went and nothing is mounted on it.
\* The calls for the entries in F fail.
Stubborn(x)     == x \in Odd \/ (x \in Points /\ on[x] # "none")
Removable(x, F) == \A y \in Inside(x) \cup {x} : ~Stubborn(y) /\ y \notin F

\* cleanup_old_rootfs(), with its two rmdir() calls at the end.  It goes on with the
\* next entry where openat(), unlinkat() or rmdir() fails, and does nothing at all
\* where "/" cannot be opened.
Cleanup ==
    /\ Go("cleanup", "chdir")
    /\ \/ /\ \E F \in SUBSET (Visited \cup {"sys", "proc"}) :
               /\ files' = files \ ({x \in Visited : Removable(x, F)}
                                    \cup {d \in {"sys", "proc"} \ F : on[d] = "none" /\ Inside(d) = {}})
               /\ stuck' = F
               /\ IF F = {} THEN UNCHANGED faults
                            ELSE faults < MaxFaults /\ faults' = faults + 1
          /\ cleanup' = "done"
          /\ UNCHANGED <<on, newDev, config, source, links, cwd, root>>
       \/ Fails

Chdir ==
    /\ Go("chdir", "move_root")
    /\ \/ /\ cwd' = "rootfs"
          /\ UNCHANGED <<on, newDev, config, source, links, root, cleaned, faults>>
       \/ Fails

\* Until chroot(), the process still looks paths up from the old root.
MoveRoot ==
    /\ Go("move_root", "chroot")
    /\ \/ UNCHANGED <<state, faults>>
       \/ Fails

\* Mutant: chroot() is forgotten.
NoChroot ==
    /\ Go("chroot", "exec")
    /\ UNCHANGED <<state, faults>>

Chroot ==
    /\ Go("chroot", "exec")
    /\ \/ /\ root' = cwd
          /\ UNCHANGED <<on, newDev, config, source, links, cwd, cleaned, faults>>
       \/ Fails

\* execv("/sbin/init") finds a file or main() is fatal.
Exec ==
    /\ pc = "exec"
    /\ \/ pc' = "panic"
       \/ /\ root = "rootfs" \/ OldInit \in files
          /\ pc' = "running"
    /\ UNCHANGED <<state, faults>>

-----------------------------------------------------------------------------
Main ==
    \/ Setup("mount_dev", "dev", "devtmpfs", "mount_sys")
    \/ Setup("mount_sys", "sys", "sysfs", "mount_proc")
    \/ Setup("mount_proc", "proc", "procfs", "script")
    \/ Resolve
    \/ MountRoot
    \/ CannotMountRoot
    \/ Link
    \/ MoveDev
    \/ Umount("umount_sys", "sys", "umount_proc")
    \/ Umount("umount_proc", "proc", "cleanup")
    \/ Cleanup
    \/ Chdir
    \/ MoveRoot
    \/ Chroot
    \/ Exec

Next ==
    \/ Main
    \/ Assign
    \/ \E d \in ScriptDirs : ScriptMounts(d)
    \/ Script

Spec == Init /\ [][Next]_vars

-----------------------------------------------------------------------------
\* Type correctness.
TypeOK ==
    /\ on \in [Points -> {"none", "devtmpfs", "sysfs", "procfs", "rootfs", "extra"}]
    /\ newDev \in BOOLEAN
    /\ files \subseteq Files
    /\ {encrypted, wholeDisk} \subseteq BOOLEAN
    /\ source \in {"none", "device", "dm-0"}
    /\ links \in {"none", "initramfs", "devtmpfs"}
    /\ {cwd, root} \subseteq {"initramfs", "rootfs"}
    /\ cleanup \in {"pending", "done"}
    /\ stuck \subseteq Files
    /\ faults \in 0 .. MaxFaults

\* Whichever one step of the boot fails, what is executed is the init of the
\* root filesystem, never a /sbin/init the initramfs happens to have: if
\* chdir() or chroot() failed the cleanup has removed that one, and if the
\* cleanup failed the switch works (nerves_initramfs.c:156-178, 343).
ExecsRealInit == pc = "running" /\ faults <= 1 => root = "rootfs"

\* The cleanup removes nothing but files of the initramfs and of what the script
\* mounted on its directories: not the device nodes, sysfs or procfs when moving
\* or unmounting them failed, and never the root filesystem
\* (nerves_initramfs.c:167, "Clean up the "old" rootfs.").
CleansOldRootOnly ==
    \A x \in Files \ files :
        FsOf[x] = "initramfs" \/ \E d \in ScriptDirs : on[d] = FsOf[x]

\* Once the cleanup ran, the initramfs holds nothing but the directories of
\* the skip list and what is in them (CHANGELOG.md:62, "Clean up all files
\* before switching the rootfs"), also when a step before it had failed; the
\* directories something is mounted on with what that hides; against that entry, the
\* sockets and block device nodes with the directories above them; and, where single
\* calls failed, those entries with the directories above them and nothing else.
OldRootEmptied ==
    cleanup = "done" => \A x \in files : FsOf[x] = "initramfs" =>
        \/ \E t \in RootSkipList : x = t \/ x \in Below[t]
        \/ \E d \in ScriptDirs : on[d] # "none" /\ (x = d \/ x \in Below[d] \/ d \in Below[x])
        \/ x \in Odd \/ Below[x] \cap Odd # {}
        \/ x \in stuck \/ Below[x] \cap stuck # {}

\* A boot without a failed step hands the real init everything it needs: the
\* root filesystem as it was configured, /dev with the symlinks made in it - without
\* any if the root filesystem is on a whole disk (rootdisk.c:219-222) -, and /sys and
\* /proc free to be mounted again, their directories removed unless the initramfs has
\* files of its own in them.
HandedOver ==
    pc = "running" /\ faults = 0 =>
        /\ on["mnt"] = "rootfs"
        /\ source = (IF encrypted THEN "dm-0" ELSE "device")
        /\ newDev /\ links = (IF wholeDisk THEN "none" ELSE "devtmpfs")
        /\ on["sys"] = "none" /\ on["proc"] = "none"
        /\ \A d \in {"sys", "proc"} \cap files : Below[d] # {}
=============================================================================
