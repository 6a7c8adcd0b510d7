------------------------------ MODULE RootDisk ------------------------------
(***************************************************************************)
(* create_rootdisk_symlinks() of src/rootdisk.c: read /sys/block, find the *)
(* disk the root filesystem's partition is on, and make /dev/rootdisk0 and *)
(* /dev/rootdisk0pN for the disk and its partitions.                       *)
(*                                                                         *)
(* Every file of sysfs is read by a call of its own, while the kernel adds *)
(* and removes devices.  The disk of the root filesystem stays and has all *)
(* its partitions: it is mounted, and opening a partition waits until the  *)
(* kernel has read the partition table.  Entries are taken in any order;   *)
(* the code goes by alphasort().                                           *)
(***************************************************************************)
EXTENDS Integers

CONSTANTS
    Disks,      \* the devices with an entry in /sys/block
    Parts,      \* the partitions
    Areas,      \* disks below another disk, like the boot areas of an eMMC
    On,         \* [Parts \cup Areas -> Disks], the directory each is in
    Number,     \* [Parts -> 1 ..], the partition numbers
    NamesOf,    \* the names the kernel may give a device
    DevsOf      \* the device numbers the kernel may give a device

Nodes == Disks \cup Parts

ASSUME RootDiskAssumption ==
    /\ Areas \subseteq Disks
    /\ Disks \cap Parts = {}
    /\ On \in [Parts \cup Areas -> Disks]
    /\ \A a \in Areas : On[a] \notin Areas
    /\ Number \in [Parts -> Nat \ {0}]
    /\ \A p, q \in Parts : On[p] = On[q] /\ Number[p] = Number[q] => p = q
    /\ DevsOf \in [Nodes -> SUBSET (Nat \ {0})]
    /\ "none" \notin Nodes
    /\ "none" \notin UNION {NamesOf[x] : x \in Nodes}

Gone == [name |-> "none", dev |-> 0]

VARIABLES
    at,         \* the name and number of each device, or Gone
    root,       \* the device the root filesystem is mounted from, or "none"
    pc,
    disks,      \* scan_for_block_devices(): the names still to read
    disk,       \* and the one being read
    parts,      \* scan_for_partitions(): the names still to read
    part, dev,  \* the one being read and what its dev file said, or 0
    infos,
    links,      \* the symlinks: pairs of a suffix and a name
    refused     \* the names symlink() could not be called for, or failed for

kernel == <<at, root>>
scan   == <<disks, disk, parts, part, dev, infos>>
vars   == <<at, root, pc, disks, disk, parts, part, dev, infos, links, refused>>

Present     == {x \in Nodes : at[x] # Gone}
ChildrenOf(d) == {x \in Present \cap (Parts \cup Areas) : On[x] = d}
RootDiskOf(r) == IF r \in Parts THEN On[r] ELSE r
Family(d)     == {d} \cup {p \in Parts : On[p] = d}

\* The devices that stay.
Staying == Family(RootDiskOf(root))

-----------------------------------------------------------------------------
Init ==
    /\ at = [x \in Nodes |-> Gone]
    /\ root = "none"
    /\ pc = "mount"
    /\ disks = {} /\ disk = "none"
    /\ parts = {} /\ part = "none" /\ dev = 0
    /\ infos = {}
    /\ links = {} /\ refused = {}

-----------------------------------------------------------------------------
(* The kernel.                                                             *)

Appears(x) ==
    /\ x \notin Present
    /\ x \in Parts \cup Areas => On[x] \in Present
    /\ \E n \in NamesOf[x], d \in DevsOf[x] :
         /\ \A y \in Present : at[y].name # n /\ at[y].dev # d
         /\ at' = [at EXCEPT ![x] = [name |-> n, dev |-> d]]
    /\ UNCHANGED <<root, pc, scan, links, refused>>

Vanishes(x) ==
    /\ x \in Present
    /\ x \notin Staying
    /\ ChildrenOf(x) = {}
    /\ at' = [at EXCEPT ![x] = Gone]
    /\ UNCHANGED <<root, pc, scan, links, refused>>

-----------------------------------------------------------------------------
(* The scan.                                                               *)

\* main() has mounted the root filesystem.
Mount ==
    /\ pc = "mount"
    /\ \E r \in Present : Family(RootDiskOf(r)) \subseteq Present /\ root' = r
    /\ pc' = "scan"
    /\ UNCHANGED <<at, scan, links, refused>>

\* What a path below /sys/block leads to now: at most one device.
DiskNamed(n)     == {x \in Present \cap Disks : at[x].name = n}
PartNamed(n, m)  == {x \in UNION {ChildrenOf(d) : d \in DiskNamed(n)} : at[x].name = m}

\* read_dev_file() and read_partition_file(): 0 if there is no such file.
DevRead(X)    == IF X = {} THEN 0 ELSE at[CHOOSE x \in X : TRUE].dev
NumberRead(X) == IF X \cap Parts = {} THEN 0 ELSE Number[CHOOSE x \in X \cap Parts : TRUE]

ListDisks ==
    /\ pc = "scan"
    /\ disks' = {at[x].name : x \in Present \cap Disks}
    /\ pc' = "disk"
    /\ UNCHANGED <<kernel, disk, parts, part, dev, infos, links, refused>>

\* Mutant: the scan ends at a disk that is gone.
ReadDiskOrBreak(n) ==
    /\ pc = "disk"
    /\ n \in disks
    /\ LET d == DevRead(DiskNamed(n)) IN
         IF d = 0
         THEN disks' = {} /\ UNCHANGED <<pc, disk, infos>>
         ELSE /\ infos' = infos \cup {[name |-> n, dev |-> d, number |-> 0, parent |-> "none"]}
              /\ disks' = disks \ {n}
              /\ disk' = n
              /\ pc' = "list"
    /\ UNCHANGED <<kernel, parts, part, dev, links, refused>>

\* Mutant: a disk that is gone is tried again.
ReadDiskAgain(n) ==
    /\ pc = "disk"
    /\ n \in disks
    /\ LET d == DevRead(DiskNamed(n)) IN
         IF d = 0
         THEN UNCHANGED <<disks, pc, disk, infos>>
         ELSE /\ infos' = infos \cup {[name |-> n, dev |-> d, number |-> 0, parent |-> "none"]}
              /\ disks' = disks \ {n}
              /\ disk' = n
              /\ pc' = "list"
    /\ UNCHANGED <<kernel, parts, part, dev, links, refused>>

ReadDisk(n) ==
    /\ pc = "disk"
    /\ n \in disks
    /\ disks' = disks \ {n}
    /\ LET d == DevRead(DiskNamed(n)) IN
         IF d = 0
         THEN UNCHANGED <<pc, disk, infos>>
         ELSE /\ infos' = infos \cup {[name |-> n, dev |-> d, number |-> 0, parent |-> "none"]}
              /\ disk' = n
              /\ pc' = "list"
    /\ UNCHANGED <<kernel, parts, part, dev, links, refused>>

ListParts ==
    /\ pc = "list"
    /\ parts' = {at[x].name : x \in UNION {ChildrenOf(d) : d \in DiskNamed(disk)}}
    /\ pc' = "part"
    /\ UNCHANGED <<kernel, disks, disk, part, dev, infos, links, refused>>

ReadDev(m) ==
    /\ pc = "part"
    /\ m \in parts
    /\ parts' = parts \ {m}
    /\ part' = m
    /\ dev' = DevRead(PartNamed(disk, m))
    /\ pc' = "number"
    /\ UNCHANGED <<kernel, disks, disk, infos, links, refused>>

\* Mutant: an entry without a partition number is taken for a partition.
ReadAnyNumber ==
    /\ pc = "number"
    /\ infos' = infos \cup (IF dev = 0 THEN {}
                            ELSE {[name |-> part, dev |-> dev, parent |-> disk,
                                   number |-> NumberRead(PartNamed(disk, part))]})
    /\ pc' = "part"
    /\ UNCHANGED <<kernel, disks, disk, parts, part, dev, links, refused>>

ReadNumber ==
    /\ pc = "number"
    /\ LET k == NumberRead(PartNamed(disk, part)) IN
         infos' = infos \cup (IF dev = 0 \/ k = 0 THEN {}
                              ELSE {[name |-> part, dev |-> dev, number |-> k, parent |-> disk]})
    /\ pc' = "part"
    /\ UNCHANGED <<kernel, disks, disk, parts, part, dev, links, refused>>

EndParts ==
    /\ pc = "part"
    /\ parts = {}
    /\ pc' = "disk"
    /\ UNCHANGED <<kernel, scan, links, refused>>

EndScan ==
    /\ pc = "disk"
    /\ disks = {}
    /\ pc' = "link"
    /\ UNCHANGED <<kernel, scan, links, refused>>

-----------------------------------------------------------------------------
(* The links.                                                              *)

\* Mutant: the partitions of every disk are linked.
WantedAll(d) == {<<0, d>>} \cup {<<i.number, i.name>> : i \in {j \in infos : j.parent # "none"}}

Wanted(d) == {<<0, d>>} \cup {<<i.number, i.name>> : i \in {j \in infos : j.parent = d}}

\* symlink() fails where there is a link already, and may fail otherwise.
Symlinks(W) ==
    \E made \in SUBSET W :
      /\ \A v, w \in made : v[1] = w[1] => v = w
      /\ links' = made
      /\ refused' = {w[2] : w \in W \ made}

\* stat() of the root filesystem's device, the search for it among the infos,
\* and the symlinks.
Link ==
    /\ pc = "link"
    /\ pc' = "done"
    /\ \/ refused' = {at[x].name : x \in Present} /\ UNCHANGED links
       \/ LET found == {i \in infos : i.dev = at[root].dev} IN
            \/ /\ found = {} \/ \E i \in found : i.parent = "none"
               /\ UNCHANGED <<links, refused>>
            \/ \E i \in found : i.parent # "none" /\ Symlinks(Wanted(i.parent))
    /\ UNCHANGED <<kernel, scan>>

-----------------------------------------------------------------------------
Kernel == \E x \in Nodes : Appears(x) \/ Vanishes(x)

Main ==
    \/ ListDisks
    \/ \E n \in disks : ReadDisk(n)
    \/ ListParts
    \/ \E m \in parts : ReadDev(m)
    \/ ReadNumber
    \/ EndParts
    \/ EndScan
    \/ Link

Next == Kernel \/ Mount \/ Main

\* init is scheduled, whatever the kernel's other threads do.
Spec == Init /\ [][Next]_vars /\ WF_vars(Main)

-----------------------------------------------------------------------------
RootLinks ==
    IF root \in Parts
    THEN {<<0, at[On[root]].name>>}
         \cup {<<Number[p], at[p].name>> : p \in {q \in Parts : On[q] = On[root]}}
    ELSE {}

\* Type correctness.
TypeOK ==
    /\ at \in [Nodes -> {Gone} \cup [name : UNION {NamesOf[x] : x \in Nodes}, dev : Nat \ {0}]]
    /\ pc \in {"mount", "scan", "disk", "list", "part", "number", "link", "done"}
    /\ \A i \in infos : i.dev # 0 /\ (i.parent = "none" <=> i.number = 0)
    /\ \A l \in links : l[1] \in Nat

\* Whatever is plugged in or pulled while sysfs is read, and whichever names
\* and numbers are used again, no link leads to anything but the root
\* filesystem's disk and the partition of that number on it; without a
\* partition there is no link (rootdisk.c:203-239).
LinksRight == links \subseteq RootLinks

\* Each partition of the disk gets its link unless symlink() refuses that one, or all
\* of them are missing because stat() of the root filesystem's device failed
\* (rootdisk.c:195-209, 230-236, "Create all of the partition symlinks").
LinksComplete == pc = "done" => \A l \in RootLinks : l \in links \/ l[2] \in refused

\* The scan ends, however long devices come and go (rootdisk.c:146-155).
ScanEnds == pc = "scan" ~> pc = "done"
=============================================================================
