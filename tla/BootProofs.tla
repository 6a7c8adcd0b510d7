----------------------------- MODULE BootProofs -----------------------------
(***************************************************************************)
(* Proofs about Boot for every initramfs, every content of the mounted     *)
(* filesystems and any number of failed steps.                             *)
(***************************************************************************)
EXTENDS Boot, TLAPS

\* Everything a step of the boot may be, but for the cleanup.
LEMMA OnlyCleanupRemoves ==
    [Next]_vars => Cleanup \/ UNCHANGED <<files, cleanup, stuck>>
<1> SUFFICES ASSUME [Next]_vars, ~Cleanup PROVE UNCHANGED <<files, cleanup, stuck>>
    OBVIOUS
<1> QED
    BY DEF Next, Main, vars, state, config, cleaned, Fails, Setup, Assign, ScriptMounts, Script, Resolve,
           MountRoot, CannotMountRoot, Link, MoveDev, Umount, Chdir, MoveRoot, Chroot, Exec

\* What the cleanup of nerves_initramfs.c:112-154 does to the files, where the
\* calls for the entries in stuck' fail.
LEMMA CleanupEffect ==
    Cleanup => \/ Fails /\ UNCHANGED <<files, cleanup, stuck>>
               \/ /\ cleanup' = "done"
                  /\ stuck' \subseteq Visited \cup {"sys", "proc"}
                  /\ files' = files \ ({x \in Visited : Removable(x, stuck')}
                                         \cup {d \in {"sys", "proc"} \ stuck' : on[d] = "none" /\ Inside(d) = {}})
                  /\ IF stuck' = {} THEN faults' = faults ELSE faults' = faults + 1
                  /\ UNCHANGED on
BY DEF Cleanup, Fails, state, cleaned

-----------------------------------------------------------------------------
(***************************************************************************)
(* The init that is executed.  ExecsRealInit is not inductive: it has to   *)
(* be known at each stage which failure has been spent, and that a cleanup *)
(* without a failure took the initramfs's own init away.                   *)
(***************************************************************************)
InitInv ==
    /\ faults \in Nat
    /\ cleanup # "done" => files = Files
    /\ cleanup = "done" => pc \in {"chdir", "move_root", "chroot", "exec"} \cup Final
    /\ pc = "chdir" => OldInit \notin files \/ faults >= 1
    /\ pc \in {"move_root", "chroot"} =>
         /\ OldInit \notin files \/ faults >= 1
         /\ cwd # "rootfs" => faults >= 1 /\ (OldInit \notin files \/ faults >= 2)
    /\ pc = "exec" => root = "rootfs" \/ OldInit \notin files \/ faults >= 2
    /\ ExecsRealInit

\* A cleanup in which no call fails removes the initramfs's own init.
LEMMA OldInitRemoved ==
    ASSUME Cleanup, ~Fails, stuck' = {}, files = Files
    PROVE  OldInit \notin files'
<1> SUFFICES ASSUME OldInit \in files PROVE OldInit \notin files'
    BY CleanupEffect
<1>1. PICK t \in Top \ RootSkipList : OldInit \in Below[t]
    BY BootAssumption
<1>2. ~Hidden(OldInit)
    BY BootAssumption DEF Hidden
<1>3. OldInit \in Visited
    BY <1>1, <1>2, BootAssumption DEF Visited, Inside
<1>4. Inside(OldInit) = {}
    BY BootAssumption DEF Inside
<1>5. ~Stubborn(OldInit)
    BY BootAssumption DEF Stubborn
<1>6. Removable(OldInit, stuck')
    BY <1>4, <1>5 DEF Removable
<1> QED
    BY <1>3, <1>6, CleanupEffect

\* The invariant holds after every step.
LEMMA InitStep == InitInv /\ [Next]_vars => InitInv'
<1> USE DEF InitInv, ExecsRealInit, config, cleaned, Final
<1> SUFFICES ASSUME InitInv, [Next]_vars PROVE InitInv'
    OBVIOUS
<1>1. CASE Cleanup
  <2>1. CASE Fails
    BY <1>1, <2>1 DEF Fails, Cleanup, Go, state
  <2>2. CASE ~Fails
    <3>1. cleanup' = "done" /\ pc = "cleanup" /\ pc' = "chdir"
        BY <1>1, <2>2 DEF Cleanup, Go
    <3>2. files = Files
        BY <3>1 DEF Final
    <3>3. CASE stuck' = {}
        <4>1. OldInit \notin files' /\ faults' = faults
            BY <1>1, <2>2, <3>2, <3>3, OldInitRemoved, CleanupEffect
        <4> QED
            BY <3>1, <4>1
    <3>4. CASE stuck' # {}
        <4>1. faults' = faults + 1
            BY <1>1, <2>2, <3>4, CleanupEffect
        <4> QED
            BY <3>1, <4>1
    <3> QED
        BY <3>3, <3>4
  <2> QED
    BY <2>1, <2>2
<1>2. CASE Chdir
    BY <1>2 DEF Fails, Chdir, Go, state
<1>3. CASE MoveRoot
    BY <1>3 DEF Fails, MoveRoot, Go, state
<1>4. CASE Chroot
    BY <1>4 DEF Fails, Chroot, Go, state
<1>5. CASE Exec
    BY <1>5 DEF Exec, state
<1>6. CASE \/ Setup("mount_dev", "dev", "devtmpfs", "mount_sys")
           \/ Setup("mount_sys", "sys", "sysfs", "mount_proc")
           \/ Setup("mount_proc", "proc", "procfs", "script")
    BY <1>6 DEF Fails, Setup, Go, state
<1>7. CASE Umount("umount_sys", "sys", "umount_proc") \/ Umount("umount_proc", "proc", "cleanup")
    BY <1>7 DEF Fails, Umount, Go, state
<1>8. CASE MoveDev
    BY <1>8 DEF Fails, MoveDev, Go, state
<1>9. CASE Resolve \/ MountRoot \/ CannotMountRoot \/ Link
    BY <1>9 DEF Fails, Resolve, MountRoot, CannotMountRoot, Link, Go, state
<1>10. CASE Assign \/ (\E d \in ScriptDirs : ScriptMounts(d)) \/ Script
    BY <1>10 DEF Assign, ScriptMounts, Script, state
<1>11. CASE UNCHANGED vars
    BY <1>11 DEF vars, state
<1> QED
    BY <1>1, <1>2, <1>3, <1>4, <1>5, <1>6, <1>7, <1>8, <1>9, <1>10, <1>11 DEF Next, Main

\* For every initramfs, also one with a /sbin/init of its own, and whichever
\* one step of the boot fails: what PID 1 becomes is the init of the root
\* filesystem (nerves_initramfs.c:156-178, 343).
THEOREM ExecsRealInitAlways == Spec => []ExecsRealInit
<1>1. Init => InitInv
    BY DEF Init, InitInv, ExecsRealInit
<1>2. InitInv => ExecsRealInit
    BY DEF InitInv
<1> QED
    BY <1>1, <1>2, InitStep, PTL DEF Spec

-----------------------------------------------------------------------------
(***************************************************************************)
(* The cleanup.                                                            *)
(***************************************************************************)

\* A directory that something is mounted on, and that the cleanup visits or
\* comes to, is one of the script's.
LEMMA ScriptPointsVisited ==
    ASSUME NEW t \in Top \ RootSkipList, NEW d \in Points \cap (Below[t] \cup {t})
    PROVE  d \in ScriptDirs
BY BootAssumption DEF Points, RootSkipList

\* So everything it visits is a file of the initramfs or of what the script has
\* mounted.
LEMMA VisitedIsOld ==
    ASSUME NEW x \in Visited
    PROVE  FsOf[x] = "initramfs" \/ \E d \in ScriptDirs : on[d] = FsOf[x]
<1>1. PICK t \in (Top \cap files) \ RootSkipList : x \in Inside(t) \cup {t}
    BY DEF Visited
<1>2. CASE x \in Below[t] \cup {t}
    BY <1>1, <1>2, BootAssumption
<1>3. CASE \E d \in Points \cap (Below[t] \cup {t}) : on[d] # "none" /\ FsOf[x] = on[d]
    BY <1>1, <1>3, ScriptPointsVisited
<1> QED
    BY <1>1, <1>2, <1>3 DEF Inside

\* What the script has mounted stays, as src/nerves_initramfs.c:156-165 moves
\* and unmounts other directories.
LEMMA ScriptMountsStay ==
    ASSUME [Next]_vars, on = [e \in Points |-> on[e]], NEW d \in ScriptDirs, on[d] # "none"
    PROVE  on'[d] = on[d]
<1>1. d \in Points /\ d \notin {"dev", "sys", "proc", "mnt"}
    BY BootAssumption DEF Points, RootSkipList
<1>2. CASE \E e \in ScriptDirs : ScriptMounts(e)
    BY <1>1, <1>2 DEF ScriptMounts, Points
<1>3. CASE Main \/ Assign \/ Script \/ UNCHANGED vars
    BY <1>1, <1>3 DEF Main, vars, state, config, cleaned, Fails, Setup, Assign, Script, Resolve, MountRoot, CannotMountRoot,
                      Link, MoveDev, Umount, Cleanup, Chdir, MoveRoot, Chroot, Exec, Points
<1> QED
    BY <1>2, <1>3 DEF Next

\* on remains a function on the mount points.
LEMMA OnStep ==
    on = [e \in Points |-> on[e]] /\ [Next]_vars => on' = [e \in Points |-> on'[e]]
<1> SUFFICES ASSUME on = [e \in Points |-> on[e]], [Next]_vars
             PROVE  on' = [e \in Points |-> on'[e]]
    OBVIOUS
<1> QED
    BY DEF Next, Main, vars, state, config, cleaned, Fails, Setup, Assign, ScriptMounts, Script, Resolve, MountRoot,
           CannotMountRoot, Link, MoveDev, Umount, Cleanup, Chdir, MoveRoot, Chroot, Exec

CleanInv == on = [e \in Points |-> on[e]] /\ files \subseteq Files /\ CleansOldRootOnly

\* However many steps of the boot fail: no device node, no entry of sysfs or
\* procfs and no file of the root filesystem is removed
\* (nerves_initramfs.c:99-154).
THEOREM CleansOldRootOnlyAlways == Spec => []CleansOldRootOnly
<1>1. Init => CleanInv
    BY DEF Init, CleanInv, CleansOldRootOnly
<1>2. CleanInv /\ [Next]_vars => CleanInv'
  <2> SUFFICES ASSUME CleanInv, [Next]_vars PROVE CleanInv'
    OBVIOUS
  <2>1. on' = [e \in Points |-> on'[e]]
    BY OnStep DEF CleanInv
  <2>2. ASSUME NEW x \in Files, FsOf[x] = "initramfs" \/ \E d \in ScriptDirs : on[d] = FsOf[x]
        PROVE  FsOf[x] = "initramfs" \/ \E d \in ScriptDirs : on'[d] = FsOf[x]
    BY <2>2, ScriptMountsStay, BootAssumption DEF CleanInv
  <2>3. ASSUME NEW x \in files \ files'
        PROVE  FsOf[x] = "initramfs" \/ \E d \in ScriptDirs : on[d] = FsOf[x]
    <3>1. x \in Visited \/ x \in {"sys", "proc"}
        BY <2>3, OnlyCleanupRemoves, CleanupEffect
    <3> QED
        BY <3>1, VisitedIsOld, BootAssumption DEF RootSkipList
  <2>4. files' \subseteq files
    BY OnlyCleanupRemoves, CleanupEffect
  <2> QED
    BY <2>1, <2>2, <2>3, <2>4 DEF CleanInv, CleansOldRootOnly
<1>3. CleanInv => CleansOldRootOnly
    BY DEF CleanInv
<1> QED
    BY <1>1, <1>2, <1>3, PTL DEF Spec

-----------------------------------------------------------------------------
(***************************************************************************)
(* What the cleanup leaves.                                                *)
(***************************************************************************)

\* Nothing is mounted or unmounted after the cleanup, whose files stay gone.
EmptyInv ==
    /\ files \subseteq Files
    /\ cleanup # "done" => files = Files
    /\ cleanup = "done" => pc \in {"chdir", "move_root", "chroot", "exec"} \cup Final
    /\ OldRootEmptied

\* What the cleanup does not remove of the initramfs.
LEMMA CleanupEmpties ==
    ASSUME Cleanup, ~Fails, files = Files, NEW x \in files', FsOf[x] = "initramfs"
    PROVE  \/ \E t \in RootSkipList : x = t \/ x \in Below[t]
           \/ \E d \in ScriptDirs : on[d] # "none" /\ (x = d \/ x \in Below[d] \/ d \in Below[x])
           \/ x \in Odd \/ Below[x] \cap Odd # {}
           \/ x \in stuck' \/ Below[x] \cap stuck' # {}
<1> SUFFICES ASSUME ~\E t \in RootSkipList : x = t \/ x \in Below[t]
             PROVE  \/ \E d \in ScriptDirs : on[d] # "none" /\ (x = d \/ x \in Below[d] \/ d \in Below[x])
                    \/ x \in Odd \/ Below[x] \cap Odd # {}
                    \/ x \in stuck' \/ Below[x] \cap stuck' # {}
    OBVIOUS
<1>1. x \in Files /\ ~(x \in Visited /\ Removable(x, stuck'))
    BY CleanupEffect
<1>2. PICK t \in Top \ RootSkipList : x \in Below[t] \cup {t}
    BY <1>1, BootAssumption
\* A directory on the way that something is mounted on is one of the script's.
<1>3. ASSUME NEW d \in Points, x = d \/ x \in Below[d] \/ d \in Below[x]
      PROVE  d \in ScriptDirs
    BY <1>1, <1>3, BootAssumption DEF Points, RootSkipList
<1>4. CASE x \notin Visited
  <2>1. Hidden(x)
      BY <1>1, <1>2, <1>4, BootAssumption DEF Visited, Inside
  <2> QED
      BY <1>3, <2>1 DEF Hidden
<1>5. CASE ~Removable(x, stuck')
  <2>1. PICK y \in Inside(x) \cup {x} : Stubborn(y) \/ y \in stuck'
      BY <1>5 DEF Removable
  <2>2. CASE y \in Below[x] \cup {x}
      BY <1>3, <2>1, <2>2 DEF Stubborn
  <2>3. CASE \E d \in Points \cap (Below[x] \cup {x}) : on[d] # "none" /\ FsOf[y] = on[d]
      BY <1>3, <2>3
  <2> QED
      BY <2>1, <2>2, <2>3 DEF Inside
<1> QED
    BY <1>1, <1>4, <1>5

\* Every step but the cleanup's that comes after it leaves the mounts alone.
LEMMA LateStepsKeepMounts ==
    ASSUME pc \in {"chdir", "move_root", "chroot", "exec"} \cup Final, [Next]_vars
    PROVE  UNCHANGED <<on, cleaned>> /\ pc' \in {"chdir", "move_root", "chroot", "exec"} \cup Final
BY DEF Next, Main, vars, state, config, cleaned, Fails, Setup, Assign, ScriptMounts, Script, Resolve, MountRoot, CannotMountRoot,
       Link, RootDiskKnown, MoveDev, Umount, Cleanup, Chdir, MoveRoot, Chroot, Exec, Go, Final

\* For every initramfs, whatever the script mounts in it and however many steps
\* fail: a cleanup that ran leaves only the directories of the skip list, what
\* is mounted on, the sockets and block device nodes with the directories above
\* them, and the entries whose own removal failed with those above them
\* (nerves_initramfs.c:112-154, CHANGELOG.md:62).
THEOREM OldRootEmptiedAlways == Spec => []OldRootEmptied
<1>1. Init => EmptyInv
    BY DEF Init, EmptyInv, OldRootEmptied
<1>2. EmptyInv /\ [Next]_vars => EmptyInv'
  <2> SUFFICES ASSUME EmptyInv, [Next]_vars PROVE EmptyInv'
      OBVIOUS
  <2>1. CASE cleanup = "done"
    <3>1. UNCHANGED <<on, cleaned>> /\ pc' \in {"chdir", "move_root", "chroot", "exec"} \cup Final
        BY <2>1, LateStepsKeepMounts DEF EmptyInv
    <3> QED
        BY <3>1 DEF EmptyInv, OldRootEmptied, cleaned
  <2>2. CASE cleanup # "done" /\ Cleanup /\ ~Fails
    <3>1. /\ files' \subseteq files /\ cleanup' = "done" /\ pc' = "chdir" /\ on' = on
          /\ files = Files
        BY <2>2 DEF EmptyInv, Cleanup, Go
    <3>2. OldRootEmptied'
        BY <2>2, <3>1, CleanupEmpties DEF OldRootEmptied
    <3> QED
        BY <3>1, <3>2 DEF EmptyInv
  <2>3. CASE cleanup # "done" /\ ~(Cleanup /\ ~Fails)
    <3>1. UNCHANGED <<files, cleanup, stuck>>
        BY <2>3, OnlyCleanupRemoves DEF Fails, state, cleaned
    <3> QED
        BY <2>3, <3>1 DEF EmptyInv, OldRootEmptied
  <2> QED
      BY <2>1, <2>2, <2>3
<1>3. EmptyInv => OldRootEmptied
    BY DEF EmptyInv
<1> QED
    BY <1>1, <1>2, <1>3, PTL DEF Spec

-----------------------------------------------------------------------------
(***************************************************************************)
(* Types.                                                                  *)
(***************************************************************************)

\* Only devtmpfs is ever mounted on /dev, where the symlinks are made.
BootTypeInv == TypeOK /\ on["dev"] \in {"none", "devtmpfs"}

\* The variables keep their types; the symlinks are in devtmpfs, in the
\* initramfs or nowhere (nerves_initramfs.c:343-349).
THEOREM BootTypes == Spec => []TypeOK
<1> DEFINE Mountable == {"none", "devtmpfs", "sysfs", "procfs", "rootfs", "extra"}
<1> USE DEF BootTypeInv, TypeOK, config, cleaned
<1>0. /\ MaxFaults \in Nat /\ 0 \in 0 .. MaxFaults
      /\ {"dev", "sys", "proc", "mnt"} \cup ScriptDirs \subseteq Points
    BY BootAssumption DEF Points
<1>1. Init => BootTypeInv
  <2> HIDE DEF BootTypeInv, TypeOK
  <2> SUFFICES ASSUME Init PROVE BootTypeInv
      OBVIOUS
  <2>1. on \in [Points -> Mountable] /\ on["dev"] = "none"
      BY <1>0 DEF Init
  <2> QED
      BY <1>0, <2>1 DEF Init, BootTypeInv, TypeOK
<1>2. BootTypeInv /\ [Next]_vars => BootTypeInv'
  <2> SUFFICES ASSUME BootTypeInv, [Next]_vars PROVE BootTypeInv'
      OBVIOUS
  <2> USE DEF Go
\* A mount or an unmount, on /dev only of devtmpfs.
  <2>1. ASSUME NEW d \in Points, NEW fs \in Mountable, on' = [on EXCEPT ![d] = fs],
               d = "dev" => fs \in {"none", "devtmpfs"}
        PROVE  on' \in [Points -> Mountable] /\ on'["dev"] \in {"none", "devtmpfs"}
      BY <1>0, <2>1
  <2>2. CASE Fails
    <3>1. faults' \in 0 .. MaxFaults
        BY <1>0, <2>2 DEF Fails
    <3> QED
        BY <2>2, <3>1 DEF Fails, state
  <2>3. CASE ~Fails /\ (\/ Setup("mount_dev", "dev", "devtmpfs", "mount_sys")
                        \/ Setup("mount_sys", "sys", "sysfs", "mount_proc")
                        \/ Setup("mount_proc", "proc", "procfs", "script"))
      BY <1>0, <2>1, <2>3 DEF Setup
  <2>4. CASE Resolve \/ CannotMountRoot \/ Script \/ Exec
      BY <2>4 DEF Resolve, CannotMountRoot, Script, Exec, state
  <2>5. CASE MountRoot
      BY <1>0, <2>1, <2>5 DEF MountRoot
  <2>6. CASE ~Fails /\ Link
      BY <2>6 DEF Link, state
  <2>7. CASE ~Fails /\ MoveDev
      BY <1>0, <2>1, <2>7 DEF MoveDev, state
  <2>8. CASE ~Fails /\ (Umount("umount_sys", "sys", "umount_proc") \/ Umount("umount_proc", "proc", "cleanup"))
      BY <1>0, <2>1, <2>8 DEF Umount
  <2>9. CASE ~Fails /\ Cleanup
    <3>1. Visited \cup {"sys", "proc"} \subseteq Files
        BY BootAssumption DEF Visited, Inside, RootSkipList
    <3>2. stuck' \subseteq Files /\ files' \subseteq Files
        BY <2>9, <3>1, CleanupEffect
    <3>3. faults' \in 0 .. MaxFaults
        BY <1>0, <2>9 DEF Cleanup
    <3> QED
        BY <2>9, <3>2, <3>3 DEF Cleanup
  <2>10. CASE ~Fails /\ (Chdir \/ MoveRoot \/ Chroot)
      BY <2>10 DEF Chdir, MoveRoot, Chroot, state
  <2>11. CASE Assign
      BY <2>11 DEF Assign
  <2>12. ASSUME NEW d \in ScriptDirs, ScriptMounts(d) PROVE BootTypeInv'
    <3>1. d # "dev"
        BY BootAssumption DEF RootSkipList
    <3> QED
        BY <1>0, <2>1, <2>12, <3>1 DEF ScriptMounts
  <2>13. CASE UNCHANGED vars
      BY <2>13 DEF vars, state
  <2> QED
      BY <2>2, <2>3, <2>4, <2>5, <2>6, <2>9, <2>10, <2>11, <2>12, <2>7, <2>8, <2>13 DEF Next, Main
<1>3. BootTypeInv => TypeOK
    OBVIOUS
<1> QED
    BY <1>1, <1>2, <1>3, PTL DEF Spec

-----------------------------------------------------------------------------
(***************************************************************************)
(* A boot in which nothing fails: what each of the steps leaves for those  *)
(* after it.                                                               *)
(***************************************************************************)
Cleaned   == {"chdir", "move_root", "chroot", "exec", "running"}
Unmounted == Cleaned \cup {"cleanup"}
Moved     == Unmounted \cup {"umount_sys", "umount_proc"}
Linked    == Moved \cup {"move_dev"}
MountedFs == Linked \cup {"link"}
Prepared  == {"script", "repl", "resolve", "mount_root", "link"}

HandInv ==
    /\ on = [e \in Points |-> on[e]]
    /\ faults \in Nat
    /\ faults = 0 =>
         /\ pc \in {"mount_sys", "mount_proc", "move_dev"} \cup Prepared => on["dev"] = "devtmpfs"
         /\ pc \in {"mount_proc"} \cup Prepared => on["sys"] # "none"
         /\ pc \in MountedFs => on["mnt"] = "rootfs" /\ source = (IF encrypted THEN "dm-0" ELSE "device")
         /\ pc \notin Linked \cup Final => links = "none"
         /\ pc \in Linked => links = (IF wholeDisk THEN "none" ELSE "devtmpfs")
         /\ pc \in Moved => newDev
         /\ pc \in Moved \ {"umount_sys"} => on["sys"] = "none"
         /\ pc \in Unmounted => on["proc"] = "none"
         /\ pc \in Cleaned => \A d \in {"sys", "proc"} \cap files : Below[d] # {}

\* The two rmdir() calls leave only a directory with files of the initramfs.
LEMMA MountDirsRemoved ==
    ASSUME Cleanup, ~Fails, stuck' = {}, NEW d \in {"sys", "proc"}, on[d] = "none", d \in files'
    PROVE  Below[d] # {}
<1>1. Inside(d) # {}
    BY CleanupEffect
<1> QED
    BY <1>1 DEF Inside

LEMMA HandStep == HandInv /\ [Next]_vars => HandInv'
<1> SUFFICES ASSUME HandInv, [Next]_vars PROVE HandInv'
    OBVIOUS
<1>1. on' = [e \in Points |-> on'[e]]
    BY OnStep DEF HandInv
<1> USE <1>1 DEF HandInv, Cleaned, Unmounted, Moved, Linked, MountedFs, Prepared, Points, Final
<1> USE DEF Go, Fails, state, config, cleaned
<1>2. CASE \/ Setup("mount_dev", "dev", "devtmpfs", "mount_sys")
           \/ Setup("mount_sys", "sys", "sysfs", "mount_proc")
           \/ Setup("mount_proc", "proc", "procfs", "script")
  <2>1. CASE Setup("mount_dev", "dev", "devtmpfs", "mount_sys")
      BY <2>1 DEF Setup
  <2>2. CASE Setup("mount_sys", "sys", "sysfs", "mount_proc")
      BY <2>2 DEF Setup
  <2>3. CASE Setup("mount_proc", "proc", "procfs", "script")
      BY <2>3 DEF Setup
  <2> QED
      BY <1>2, <2>1, <2>2, <2>3
<1>3. CASE Resolve \/ CannotMountRoot
    BY <1>3 DEF Resolve, CannotMountRoot
<1>4. CASE Script
    BY <1>4 DEF Script
<1>5. CASE Exec
    BY <1>5 DEF Exec
<1>6. CASE MountRoot
    BY <1>6 DEF MountRoot
<1>7. CASE Link
    BY <1>7 DEF Link, RootDiskKnown
<1>8. CASE MoveDev
    BY <1>8 DEF MoveDev
<1>9. CASE Umount("umount_sys", "sys", "umount_proc") \/ Umount("umount_proc", "proc", "cleanup")
  <2>1. CASE Umount("umount_sys", "sys", "umount_proc")
      BY <2>1 DEF Umount
  <2>2. CASE Umount("umount_proc", "proc", "cleanup")
    <3>1. CASE Fails
        BY <2>2, <3>1 DEF Umount
    <3>2. CASE ~Fails
      <4>1. /\ on' = [on EXCEPT !["proc"] = "none"]
            /\ UNCHANGED <<newDev, encrypted, wholeDisk, source, links, files, faults>>
          BY <2>2, <3>2 DEF Umount
      <4> QED
          BY <2>2, <4>1 DEF Umount
    <3> QED
        BY <3>1, <3>2
  <2> QED
      BY <1>9, <2>1, <2>2
<1>10. CASE Cleanup
  <2>1. CASE Fails
      BY <1>10, <2>1 DEF Cleanup
  <2>2. CASE ~Fails
    <3>1. CASE stuck' = {}
        <4>1. faults = 0 => \A d \in {"sys", "proc"} \cap files' : Below[d] # {}
            BY <1>10, <2>2, <3>1, MountDirsRemoved DEF Cleanup
        <4> QED
            BY <1>10, <2>2, <3>1, <4>1 DEF Cleanup
    <3>2. CASE stuck' # {}
        BY <1>10, <2>2, <3>2 DEF Cleanup
    <3> QED
        BY <3>1, <3>2
  <2> QED
      BY <2>1, <2>2
<1>11. CASE Chdir \/ MoveRoot \/ Chroot
    BY <1>11 DEF Chdir, MoveRoot, Chroot
<1>12. CASE Assign
    BY <1>12 DEF Assign
<1>13. ASSUME NEW d \in ScriptDirs, ScriptMounts(d) PROVE HandInv'
  <2>1. d \notin {"dev", "sys", "proc", "mnt"}
      BY BootAssumption DEF RootSkipList
  <2> QED
      BY <1>13, <2>1 DEF ScriptMounts
<1>14. CASE UNCHANGED vars
    BY <1>14 DEF vars
<1> QED
    BY <1>2, <1>3, <1>4, <1>5, <1>6, <1>7, <1>8, <1>9, <1>10, <1>11, <1>12, <1>13, <1>14 DEF Next, Main

\* For every initramfs and every script: without a failed step, the real init
\* gets the configured root filesystem, /dev with the symlinks in it - or none for
\* a root filesystem on a whole disk -, and /sys and /proc free (nerves_initramfs.c:60-70, 156-178, 330-350).
THEOREM HandedOverAlways == Spec => []HandedOver
<1>1. Init => HandInv
    BY DEF Init, HandInv, Cleaned, Unmounted, Moved, Linked, MountedFs, Prepared, Final
<1>2. HandInv => HandedOver
    BY DEF HandInv, HandedOver, Cleaned, Unmounted, Moved, Linked, MountedFs, Prepared
<1> QED
    BY <1>1, <1>2, HandStep, PTL DEF Spec
=============================================================================
