--------------------------- MODULE RootDiskProofs ---------------------------
(***************************************************************************)
(* Proof that the links are right and complete for any set of disks,       *)
(* partitions, names and device numbers, and whatever comes and goes       *)
(* during the scan.                                                        *)
(***************************************************************************)
EXTENDS RootDisk, TLAPS

(***************************************************************************)
(* Once the root filesystem is mounted, its disk's names and numbers are   *)
(* fixed and nobody else has them.  An entry of infos below the name of    *)
(* that disk can then only be one of its partitions, and an entry with the *)
(* device number of the root filesystem only the root filesystem.          *)
(***************************************************************************)
Unique ==
    /\ at = [x \in Nodes |-> at[x]]
    /\ \A x \in Present : at[x].name # "none" /\ at[x].dev # 0
    /\ \A x, y \in Present : at[x].name = at[y].name \/ at[x].dev = at[y].dev => x = y

Mounted == root \in Nodes /\ Staying \subseteq Present

RootDiskName == at[RootDiskOf(root)].name

\* What is known of an entry with parent d, name n, device v and number k.  A
\* boot area that the root filesystem is on also shows up below another disk,
\* but without a number.
BelowRoot(d, n, k) ==
    d = RootDiskName => \E p \in Parts : On[p] = RootDiskOf(root) /\ at[p].name = n /\ Number[p] = k
OfRoot(d, v)    == v = at[root].dev => d = RootDiskName /\ root \in Parts
AreaOfRoot(n, v) == v = at[root].dev /\ root \in Areas /\ n = at[root].name

InfosRight ==
    \A i \in infos : i.parent # "none" => BelowRoot(i.parent, i.name, i.number) /\ OfRoot(i.parent, i.dev)

ScanInv ==
    /\ Unique
    /\ pc # "mount" => Mounted
    /\ pc = "mount" => infos = {} /\ links = {}
    /\ pc = "number" /\ dev # 0 => OfRoot(disk, dev) \/ AreaOfRoot(part, dev)
    /\ pc # "mount" => InfosRight
    /\ LinksRight

-----------------------------------------------------------------------------
\* The kernel gives no name and no number twice.
LEMMA KernelUnique == Unique /\ Kernel => Unique'
<1> SUFFICES ASSUME Unique, NEW x \in Nodes, Appears(x) \/ Vanishes(x) PROVE Unique'
    BY DEF Kernel
<1>1. CASE Appears(x)
  <2>1. PICK n \in NamesOf[x], d \in DevsOf[x] :
           /\ \A y \in Present : at[y].name # n /\ at[y].dev # d
           /\ at' = [at EXCEPT ![x] = [name |-> n, dev |-> d]]
      BY <1>1 DEF Appears
  <2>2. n # "none" /\ d # 0
      BY RootDiskAssumption
  <2>3. at'[x] = [name |-> n, dev |-> d] /\ \A y \in Nodes \ {x} : at'[y] = at[y]
      BY <2>1 DEF Unique
  <2>4. Present' = Present \cup {x}
      BY <2>2, <2>3 DEF Present, Gone
  <2>5. at' = [y \in Nodes |-> at'[y]]
      BY <2>1 DEF Unique
  <2> QED
      BY <2>1, <2>2, <2>3, <2>4, <2>5 DEF Unique, Present
<1>2. CASE Vanishes(x)
  <2>1. at' = [at EXCEPT ![x] = Gone]
      BY <1>2 DEF Vanishes
  <2>2. at'[x] = Gone /\ \A y \in Nodes \ {x} : at'[y] = at[y]
      BY <2>1 DEF Unique
  <2>3. at' = [y \in Nodes |-> at'[y]]
      BY <2>1 DEF Unique
  <2> QED
      BY <2>2, <2>3 DEF Unique, Present
<1> QED
    BY <1>1, <1>2

\* What stays keeps its name and its number.
LEMMA KernelKeeps ==
    ASSUME Unique, Mounted, Kernel
    PROVE  Mounted' /\ root' = root /\ \A y \in Staying : at'[y] = at[y]
<1>1. PICK x \in Nodes : Appears(x) \/ Vanishes(x)
    BY DEF Kernel
<1>2. x \notin Staying /\ root' = root
    BY <1>1 DEF Appears, Vanishes, Mounted
<1>3. \A y \in Nodes \ {x} : at'[y] = at[y]
    BY <1>1 DEF Appears, Vanishes, Unique
<1> QED
    BY <1>2, <1>3 DEF Mounted, Present, Staying, RootDiskOf

\* The root filesystem's device is one that stays, and its disk a disk.
LEMMA RootStays ==
    ASSUME Mounted
    PROVE  /\ root \in Staying /\ RootDiskOf(root) \in Staying \cap Disks
           /\ \A p \in Parts : On[p] = RootDiskOf(root) => p \in Staying
           /\ RootDiskOf(root) \in Present /\ root \in Present
BY RootDiskAssumption DEF Mounted, Staying, Family, RootDiskOf, Nodes

\* A device coming or going disturbs nothing that is known.
LEMMA KernelStep == ScanInv /\ Kernel => ScanInv'
<1> SUFFICES ASSUME ScanInv, Kernel PROVE ScanInv'
    OBVIOUS
<1>1. UNCHANGED <<root, pc, disk, part, dev, infos, links>>
    BY DEF Kernel, Appears, Vanishes, scan
<1>2. Unique'
    BY KernelUnique DEF ScanInv
<1>3. CASE pc = "mount"
    BY <1>1, <1>2, <1>3 DEF ScanInv, LinksRight
<1>4. CASE pc # "mount"
  <2>1. Unique /\ Mounted
      BY <1>4 DEF ScanInv
  <2>2. Mounted' /\ \A y \in Staying : at'[y] = at[y]
      BY <2>1, KernelKeeps
  <2>3. /\ at'[root] = at[root] /\ at'[RootDiskOf(root)] = at[RootDiskOf(root)]
        /\ \A p \in Parts : On[p] = RootDiskOf(root) => at'[p] = at[p]
      BY <2>1, <2>2, RootStays
  <2>4. LinksRight'
    <3>1. root \in Parts => RootDiskOf(root) = On[root]
        BY DEF RootDiskOf
    <3>2. RootLinks' = RootLinks
        BY <1>1, <2>3, <3>1 DEF RootLinks
    <3> QED
        BY <1>1, <3>2 DEF ScanInv, LinksRight
  <2>5. RootDiskName' = RootDiskName
      BY <1>1, <2>3 DEF RootDiskName, RootDiskOf
  <2>6. InfosRight'
    <3> SUFFICES ASSUME NEW i \in infos, i.parent # "none"
                 PROVE  BelowRoot(i.parent, i.name, i.number)' /\ OfRoot(i.parent, i.dev)'
        BY <1>1 DEF InfosRight
    <3>1. BelowRoot(i.parent, i.name, i.number) /\ OfRoot(i.parent, i.dev)
        BY <1>4 DEF ScanInv, InfosRight
    <3>2. BelowRoot(i.parent, i.name, i.number)'
        BY <1>1, <2>3, <2>5, <3>1 DEF BelowRoot, RootDiskOf
    <3>3. OfRoot(i.parent, i.dev)'
        BY <1>1, <2>3, <2>5, <3>1 DEF OfRoot
    <3> QED
        BY <3>2, <3>3
  <2>7. (pc = "number" /\ dev # 0 => OfRoot(disk, dev) \/ AreaOfRoot(part, dev))'
    <3>1. pc = "number" /\ dev # 0 => OfRoot(disk, dev) \/ AreaOfRoot(part, dev)
        BY DEF ScanInv
    <3>2. OfRoot(disk, dev) => OfRoot(disk, dev)'
        BY <1>1, <2>3, <2>5 DEF OfRoot
    <3>3. AreaOfRoot(part, dev) => AreaOfRoot(part, dev)'
        BY <1>1, <2>3 DEF AreaOfRoot
    <3> QED
        BY <1>1, <3>1, <3>2, <3>3
  <2> QED
      BY <1>1, <1>2, <1>4, <2>2, <2>4, <2>6, <2>7 DEF ScanInv
<1> QED
    BY <1>3, <1>4

-----------------------------------------------------------------------------
\* What is found in the directory of a disk: an entry has the number of the
\* root filesystem's device only if it is that device.
LEMMA DevReadRight ==
    ASSUME Unique, Mounted, NEW d, NEW n, DevRead(PartNamed(d, n)) # 0
    PROVE  LET v == DevRead(PartNamed(d, n)) IN OfRoot(d, v) \/ AreaOfRoot(n, v)
<1> DEFINE X == PartNamed(d, n)
<1>1. X # {} /\ DevRead(X) = at[CHOOSE x \in X : TRUE].dev
    BY DEF DevRead
<1>2. PICK x \in X : DevRead(X) = at[x].dev
    BY <1>1
<1> SUFFICES ASSUME at[x].dev = at[root].dev
             PROVE  OfRoot(d, at[x].dev) \/ AreaOfRoot(n, at[x].dev)
    BY <1>2 DEF OfRoot
<1>3. /\ x \in Present \cap (Parts \cup Areas) /\ at[x].name = n
      /\ On[x] \in Present \cap Disks /\ at[On[x]].name = d
    BY <1>2 DEF PartNamed, ChildrenOf, DiskNamed
<1>4. x = root
    BY <1>3, RootStays DEF Unique
<1>5. CASE root \in Parts
    BY <1>3, <1>4, <1>5 DEF OfRoot, RootDiskName, RootDiskOf
<1>6. CASE root \in Areas
    BY <1>3, <1>4, <1>6 DEF AreaOfRoot
<1> QED
    BY <1>3, <1>4, <1>5, <1>6

\* And an entry with a partition number, read when its device number had been
\* read before, is a partition; of the root disk if that is where it was found.
LEMMA NumberReadRight ==
    ASSUME Unique, Mounted, NEW d, NEW n, NEW v, NumberRead(PartNamed(d, n)) # 0,
           OfRoot(d, v) \/ AreaOfRoot(n, v)
    PROVE  BelowRoot(d, n, NumberRead(PartNamed(d, n))) /\ OfRoot(d, v)
<1> DEFINE X == PartNamed(d, n)
<1>1. X \cap Parts # {} /\ NumberRead(X) = Number[CHOOSE x \in X \cap Parts : TRUE]
    BY DEF NumberRead
<1>2. PICK x \in X \cap Parts : NumberRead(X) = Number[x]
    BY <1>1
<1>3. /\ x \in Present /\ at[x].name = n
      /\ On[x] \in Present \cap Disks /\ at[On[x]].name = d
    BY <1>2 DEF PartNamed, ChildrenOf, DiskNamed
<1>4. d = RootDiskName => On[x] = RootDiskOf(root)
    BY <1>3, RootStays DEF RootDiskName, Unique
<1>5. ~AreaOfRoot(n, v)
    BY <1>2, <1>3, RootStays, RootDiskAssumption DEF AreaOfRoot, Unique
<1> QED
    BY <1>2, <1>3, <1>4, <1>5 DEF BelowRoot

\* The links made for the parent of the root filesystem's entry.
LEMMA WantedRight ==
    ASSUME InfosRight, NEW i \in infos, i.dev = at[root].dev, i.parent # "none"
    PROVE  Wanted(i.parent) \subseteq RootLinks
<1>1. i.parent = RootDiskName /\ root \in Parts
    BY DEF InfosRight, OfRoot
<1>2. RootDiskOf(root) = On[root]
    BY <1>1 DEF RootDiskOf
<1>3. <<0, i.parent>> \in RootLinks
    BY <1>1, <1>2 DEF RootLinks, RootDiskName
<1>4. ASSUME NEW j \in infos, j.parent = i.parent
      PROVE  <<j.number, j.name>> \in RootLinks
  <2>1. BelowRoot(j.parent, j.name, j.number)
      BY <1>4 DEF InfosRight
  <2>2. PICK p \in Parts : On[p] = RootDiskOf(root) /\ at[p].name = j.name /\ Number[p] = j.number
      BY <1>1, <1>4, <2>1 DEF BelowRoot
  <2> QED
      BY <1>1, <1>2, <2>2 DEF RootLinks
<1> QED
    BY <1>3, <1>4 DEF Wanted

-----------------------------------------------------------------------------
\* A step of the scan, or the mount before it.
LEMMA MainStep == ScanInv /\ (Mount \/ Main) => ScanInv'
<1> SUFFICES ASSUME ScanInv, Mount \/ Main PROVE ScanInv'
    OBVIOUS
<1> USE DEF scan, kernel
<1>1. CASE Mount
  <2>1. root' \in Present /\ Staying' \subseteq Present
      BY <1>1 DEF Mount, Staying
  <2> QED
      BY <1>1, <2>1 DEF Mount, ScanInv, Mounted, Present, Unique, InfosRight, LinksRight
<1>2. ASSUME UNCHANGED <<at, root, links>>, pc # "mount"
      PROVE  Unique' /\ Mounted' /\ LinksRight'
  <2>1. Unique' /\ LinksRight'
      BY <1>2 DEF ScanInv, Unique, Present, LinksRight, RootLinks
  <2>2. Mounted'
      BY <1>2 DEF ScanInv, Mounted, Present, Staying, RootDiskOf
  <2> QED
      BY <2>1, <2>2
<1>3. ASSUME UNCHANGED <<at, root, links, infos>>, pc # "mount", pc' # "mount",
             (pc = "number" /\ dev # 0 => OfRoot(disk, dev) \/ AreaOfRoot(part, dev))'
      PROVE  ScanInv'
  <2>1. InfosRight'
      BY <1>3 DEF ScanInv, InfosRight, BelowRoot, OfRoot, RootDiskName, RootDiskOf
  <2> QED
      BY <1>2, <1>3, <2>1 DEF ScanInv
<1>4. CASE ListDisks \/ ListParts \/ EndParts \/ EndScan
    BY <1>3, <1>4 DEF ListDisks, ListParts, EndParts, EndScan
<1>5. ASSUME NEW n \in disks, ReadDisk(n) PROVE ScanInv'
  <2> DEFINE new == [name |-> n, dev |-> DevRead(DiskNamed(n)), number |-> 0, parent |-> "none"]
  <2>1. /\ UNCHANGED <<at, root, links>> /\ pc = "disk" /\ pc' \in {"disk", "list"}
        /\ infos' \subseteq infos \cup {new}
      BY <1>5 DEF ReadDisk
  <2>2. Unique' /\ Mounted' /\ LinksRight'
      BY <1>2, <2>1
  <2>3. InfosRight'
      BY <2>1 DEF ScanInv, InfosRight, BelowRoot, OfRoot, RootDiskName, RootDiskOf
  <2> QED
      BY <2>1, <2>2, <2>3 DEF ScanInv
<1>6. ASSUME NEW n \in parts, ReadDev(n) PROVE ScanInv'
  <2>1. UNCHANGED <<at, root, disk, infos, links>> /\ pc = "part" /\ pc' = "number"
        /\ part' = n /\ dev' = DevRead(PartNamed(disk, n))
      BY <1>6 DEF ReadDev
  <2>2. dev' # 0 => OfRoot(disk, dev') \/ AreaOfRoot(n, dev')
      BY <2>1, DevReadRight DEF ScanInv
  <2>3. dev' # 0 => OfRoot(disk, dev)' \/ AreaOfRoot(part, dev)'
      BY <2>1, <2>2 DEF OfRoot, AreaOfRoot, RootDiskName, RootDiskOf
  <2> QED
      BY <1>3, <2>1, <2>3
<1>7. CASE ReadNumber
  <2> DEFINE k   == NumberRead(PartNamed(disk, part))
             new == [name |-> part, dev |-> dev, number |-> k, parent |-> disk]
  <2>1. /\ UNCHANGED <<at, root, links>> /\ pc = "number" /\ pc' = "part"
        /\ infos' = infos \cup (IF dev = 0 \/ k = 0 THEN {} ELSE {new})
      BY <1>7 DEF ReadNumber
  <2>2. Unique' /\ Mounted' /\ LinksRight'
      BY <1>2, <2>1
  <2>3. dev # 0 /\ k # 0 => BelowRoot(disk, part, k) /\ OfRoot(disk, dev)
      BY <2>1, NumberReadRight DEF ScanInv
  <2>4. \A i \in infos' : i.parent # "none" => BelowRoot(i.parent, i.name, i.number) /\ OfRoot(i.parent, i.dev)
      BY <2>1, <2>3 DEF ScanInv, InfosRight
  <2>5. InfosRight'
      BY <2>1, <2>4 DEF InfosRight, BelowRoot, OfRoot, RootDiskName, RootDiskOf
  <2> QED
      BY <2>1, <2>2, <2>5 DEF ScanInv
<1>8. CASE Link
  <2>1. UNCHANGED <<at, root, infos>> /\ pc = "link" /\ pc' = "done"
      BY <1>8 DEF Link
  <2>2. links' \subseteq links \cup RootLinks
    <3>1. CASE UNCHANGED links
        BY <3>1
    <3>2. CASE \E i \in infos : i.dev = at[root].dev /\ i.parent # "none" /\ Symlinks(Wanted(i.parent))
        BY <2>1, <3>2, WantedRight DEF ScanInv, Symlinks
    <3> QED
        BY <1>8, <3>1, <3>2 DEF Link
  <2>3. Unique' /\ Mounted' /\ InfosRight'
      BY <2>1 DEF ScanInv, Unique, Mounted, Present, Staying, RootDiskOf,
                  InfosRight, BelowRoot, OfRoot, RootDiskName
  <2>4. LinksRight'
      BY <2>1, <2>2 DEF ScanInv, LinksRight, RootLinks
  <2> QED
      BY <2>1, <2>3, <2>4 DEF ScanInv
<1> QED
    BY <1>1, <1>4, <1>5, <1>6, <1>7, <1>8 DEF Main

\* ScanInv is inductive.
LEMMA ScanInvInit == Init => ScanInv
BY DEF Init, ScanInv, Unique, Present, InfosRight, LinksRight

LEMMA ScanInvStep == ScanInv /\ [Next]_vars => ScanInv'
<1> SUFFICES ASSUME ScanInv, [Next]_vars PROVE ScanInv'
    OBVIOUS
<1>1. CASE UNCHANGED vars
    BY <1>1 DEF vars, ScanInv, Unique, Mounted, Present, Staying, RootDiskOf,
                InfosRight, BelowRoot, OfRoot, AreaOfRoot, RootDiskName, LinksRight, RootLinks
<1> QED
    BY <1>1, KernelStep, MainStep DEF Next

\* For every set of disks and partitions, whatever is plugged in or pulled
\* during the scan: a link leads to the root filesystem's disk or to the
\* partition of that number on it (rootdisk.c:203-239).
THEOREM LinksRightAlways == Spec => []LinksRight
<1>1. ScanInv => LinksRight
    BY DEF ScanInv
<1> QED
    BY <1>1, ScanInvInit, ScanInvStep, PTL DEF Spec

-----------------------------------------------------------------------------
(***************************************************************************)
(* Nothing of the root filesystem's disk is missed: as long as the scan    *)
(* has not come to the disk its name is still to read, and from then on    *)
(* each of its partitions is in infos or still to read.                    *)
(***************************************************************************)
OnRootDisk == {p \in Parts : On[p] = RootDiskOf(root)}

Entered(p) == [name |-> at[p].name, dev |-> at[p].dev, number |-> Number[p], parent |-> RootDiskName] \in infos

StillToRead(p) ==
    /\ disk = RootDiskName
    /\ \/ pc \in {"part", "number"} /\ at[p].name \in parts
       \/ pc = "number" /\ part = at[p].name /\ dev = at[p].dev

Coverage ==
    \/ pc = "scan"
    \/ RootDiskName \in disks
    \/ pc = "list" /\ disk = RootDiskName
    \/ \A p \in OnRootDisk : Entered(p) \/ StillToRead(p)

\* No disk has the device number of a partition.
DiskEntries == \A i \in infos : i.parent = "none" => i.dev # at[root].dev

CompleteInv ==
    /\ ScanInv
    /\ pc = "link" => disks = {}
    /\ pc # "mount" /\ root \in Parts => Coverage /\ DiskEntries
    /\ LinksComplete

\* The path of the root disk, and those of its partitions, lead to them.
LEMMA RootPaths ==
    ASSUME Unique, Mounted
    PROVE  /\ DiskNamed(RootDiskName) = {RootDiskOf(root)}
           /\ \A p \in OnRootDisk : PartNamed(RootDiskName, at[p].name) = {p}
<1>1. DiskNamed(RootDiskName) = {RootDiskOf(root)}
    BY RootStays DEF DiskNamed, RootDiskName, Unique
<1>2. ASSUME NEW p \in OnRootDisk
      PROVE  PartNamed(RootDiskName, at[p].name) = {p}
  <2>1. p \in Present /\ p \in ChildrenOf(RootDiskOf(root))
      BY RootStays DEF OnRootDisk, ChildrenOf, Mounted
  <2> QED
      BY <1>1, <2>1 DEF PartNamed, ChildrenOf, Unique
<1> QED
    BY <1>1, <1>2

\* What is read of a path that leads to one device.
LEMMA ReadOne ==
    /\ \A x : DevRead({x}) = at[x].dev
    /\ \A p \in Parts : NumberRead({p}) = Number[p]
<1>1. ASSUME NEW x PROVE DevRead({x}) = at[x].dev
    BY DEF DevRead
<1>2. ASSUME NEW p \in Parts PROVE NumberRead({p}) = Number[p]
  <2>1. {p} \cap Parts = {p}
      OBVIOUS
  <2> QED
      BY <2>1 DEF NumberRead
<1> QED
    BY <1>1, <1>2

\* While devices come and go the root disk and its partitions are the same.
LEMMA KernelFixes ==
    ASSUME Unique, Mounted, Kernel
    PROVE  /\ RootDiskName' = RootDiskName /\ OnRootDisk' = OnRootDisk
           /\ at'[root] = at[root] /\ \A p \in OnRootDisk : at'[p] = at[p]
           /\ RootLinks' = RootLinks
<1>1. root' = root /\ \A y \in Staying : at'[y] = at[y]
    BY KernelKeeps
<1>2. /\ at'[root] = at[root] /\ at'[RootDiskOf(root)] = at[RootDiskOf(root)]
      /\ \A p \in OnRootDisk : at'[p] = at[p]
    BY <1>1, RootStays DEF OnRootDisk
<1>3. RootDiskName' = RootDiskName /\ OnRootDisk' = OnRootDisk
    BY <1>1, <1>2 DEF RootDiskName, OnRootDisk, RootDiskOf
<1>4. root \in Parts => RootDiskOf(root) = On[root]
    BY DEF RootDiskOf
<1>5. RootLinks' = RootLinks
    BY <1>1, <1>2, <1>4 DEF RootLinks, OnRootDisk
<1> QED
    BY <1>2, <1>3, <1>5

LEMMA KernelComplete == CompleteInv /\ Kernel => CompleteInv'
<1> SUFFICES ASSUME CompleteInv, Kernel PROVE CompleteInv'
    OBVIOUS
<1>1. UNCHANGED <<root, pc, disks, disk, parts, part, dev, infos, links, refused>>
    BY DEF Kernel, Appears, Vanishes, scan
<1>2. ScanInv'
    BY KernelStep DEF CompleteInv
<1>3. CASE pc = "mount"
    BY <1>1, <1>2, <1>3 DEF CompleteInv, LinksComplete
<1>4. CASE pc # "mount"
  <2>1. /\ RootDiskName' = RootDiskName /\ OnRootDisk' = OnRootDisk
        /\ at'[root] = at[root] /\ \A p \in OnRootDisk : at'[p] = at[p]
        /\ RootLinks' = RootLinks
      BY <1>4, KernelFixes DEF CompleteInv, ScanInv
  <2>2. \A p \in OnRootDisk : (Entered(p) => Entered(p)') /\ (StillToRead(p) => StillToRead(p)')
      BY <1>1, <2>1 DEF Entered, StillToRead
  <2>3. Coverage => Coverage'
      BY <1>1, <2>1, <2>2 DEF Coverage
  <2>4. DiskEntries => DiskEntries'
      BY <1>1, <2>1 DEF DiskEntries
  <2>5. LinksComplete'
      BY <1>1, <2>1 DEF CompleteInv, LinksComplete
  <2> QED
      BY <1>1, <1>2, <2>3, <2>4, <2>5 DEF CompleteInv
<1> QED
    BY <1>3, <1>4

\* The step that makes the links: the root filesystem's entry is there, it is
\* below its disk, and so is the entry of every partition of the disk.
LEMMA LinkComplete ==
    ASSUME CompleteInv, Link
    PROVE  LinksComplete'
<1> USE DEF scan, kernel
<1>1. /\ Unique /\ Mounted /\ InfosRight /\ pc = "link" /\ disks = {}
      /\ root \in Parts => Coverage /\ DiskEntries
    BY DEF CompleteInv, ScanInv, Link
<1>2. RootLinks' = RootLinks
    BY DEF Link, RootLinks
<1> SUFFICES ASSUME NEW l \in RootLinks PROVE l \in links' \/ l[2] \in refused'
    BY <1>2 DEF LinksComplete
<1>3. root \in OnRootDisk /\ RootDiskOf(root) = On[root]
    BY <1>1 DEF RootLinks, OnRootDisk, RootDiskOf
<1>4. \A p \in OnRootDisk : Entered(p)
    BY <1>1, <1>3 DEF Coverage, StillToRead, OnRootDisk
<1>5. CASE refused' = {at[x].name : x \in Present}
  <2>1. \E x \in Present : l[2] = at[x].name
      BY <1>1, <1>3, RootStays DEF RootLinks, Mounted
  <2> QED
      BY <1>5, <2>1
<1>6. \E i \in infos : i.dev = at[root].dev
    BY <1>3, <1>4 DEF Entered
<1>7. \A i \in infos : i.dev = at[root].dev => i.parent # "none" /\ i.parent = RootDiskName
    BY <1>1, <1>3 DEF OnRootDisk, DiskEntries, InfosRight, OfRoot
<1>8. RootLinks \subseteq Wanted(RootDiskName)
  <2>1. <<0, at[On[root]].name>> \in Wanted(RootDiskName)
      BY <1>3 DEF Wanted, RootDiskName
  <2>2. ASSUME NEW p \in Parts, On[p] = On[root]
        PROVE  <<Number[p], at[p].name>> \in Wanted(RootDiskName)
    <3>1. Entered(p)
        BY <1>3, <1>4, <2>2 DEF OnRootDisk
    <3> QED
        BY <3>1 DEF Entered, Wanted
  <2> QED
      BY <1>3, <2>1, <2>2 DEF RootLinks, OnRootDisk
<1>9. CASE Symlinks(Wanted(RootDiskName))
  <2>1. PICK made \in SUBSET Wanted(RootDiskName) :
           links' = made /\ refused' = {w[2] : w \in Wanted(RootDiskName) \ made}
      BY <1>9 DEF Symlinks
  <2> QED
      BY <1>8, <2>1
<1> QED
    BY <1>5, <1>6, <1>7, <1>9 DEF Link

LEMMA MainComplete == CompleteInv /\ (Mount \/ Main) => CompleteInv'
<1> SUFFICES ASSUME CompleteInv, Mount \/ Main PROVE CompleteInv'
    OBVIOUS
<1> USE DEF scan, kernel
<1>1. ScanInv'
    BY MainStep DEF CompleteInv
<1>2. CASE Mount
    BY <1>1, <1>2 DEF Mount, CompleteInv, ScanInv, Coverage, DiskEntries, LinksComplete
<1>3. ASSUME Main
      PROVE  UNCHANGED <<at, root>> /\ pc # "mount" /\ Unique /\ Mounted
  <2>1. UNCHANGED <<at, root>> /\ pc # "mount"
      BY <1>3 DEF Main, ListDisks, ReadDisk, ListParts, ReadDev, ReadNumber, EndParts, EndScan, Link
  <2> QED
      BY <2>1 DEF CompleteInv, ScanInv
\* What is left to show of a step before the links are made.
<1>4. ASSUME Main, pc' # "done", pc' = "link" => disks' = {},
             root \in Parts => Coverage' /\ DiskEntries'
      PROVE  CompleteInv'
    BY <1>1, <1>3, <1>4 DEF CompleteInv, LinksComplete
<1>5. ASSUME Main
      PROVE  /\ RootDiskName' = RootDiskName /\ OnRootDisk' = OnRootDisk
             /\ DiskNamed(RootDiskName) = {RootDiskOf(root)}
             /\ \A p \in OnRootDisk : PartNamed(RootDiskName, at[p].name) = {p}
             /\ \A x \in Present : at[x].dev # 0
    BY <1>3, <1>5, RootPaths DEF RootDiskName, OnRootDisk, RootDiskOf, Unique
<1>6. ASSUME Main, UNCHANGED infos, root \in Parts
      PROVE  DiskEntries' /\ \A p \in OnRootDisk : Entered(p) => Entered(p)'
    BY <1>3, <1>5, <1>6 DEF CompleteInv, DiskEntries, Entered
<1>7. CASE ListDisks
  <2>1. Main /\ pc' = "disk" /\ UNCHANGED infos /\ disks' = {at[x].name : x \in Present \cap Disks}
      BY <1>7 DEF Main, ListDisks
  <2>2. RootDiskName' \in disks'
      BY <1>3, <1>5, <2>1, RootStays DEF RootDiskName
  <2> QED
      BY <1>4, <1>6, <2>1, <2>2 DEF Coverage
<1>8. ASSUME NEW n \in disks, ReadDisk(n) PROVE CompleteInv'
  <2> DEFINE d == DevRead(DiskNamed(n))
             new == [name |-> n, dev |-> d, number |-> 0, parent |-> "none"]
  <2>1. /\ Main /\ pc = "disk" /\ pc' \in {"disk", "list"} /\ disks' = disks \ {n}
        /\ d = 0 => UNCHANGED <<disk, infos, pc>>
        /\ d # 0 => pc' = "list" /\ disk' = n /\ infos' = infos \cup {new}
      BY <1>8 DEF Main, ReadDisk
  <2> SUFFICES ASSUME root \in Parts PROVE Coverage' /\ DiskEntries'
      BY <1>4, <2>1
  <2>2. Coverage'
    <3>1. CASE n = RootDiskName
      <4>1. d # 0
          BY <1>3, <1>5, <2>1, <3>1, ReadOne, RootStays
      <4> QED
          BY <1>5, <2>1, <3>1, <4>1 DEF Coverage
    <3>2. CASE n # RootDiskName
      <4>1. Coverage
          BY <1>3, <2>1 DEF CompleteInv
      <4>2. \A p \in OnRootDisk : Entered(p) => Entered(p)'
          BY <1>3, <1>5, <2>1 DEF Entered
      <4> QED
          BY <1>5, <2>1, <3>2, <4>1, <4>2 DEF Coverage, StillToRead
    <3> QED
        BY <3>1, <3>2
  <2>3. d # 0 => d # at[root].dev
    <3> SUFFICES ASSUME d # 0 PROVE d # at[root].dev
        OBVIOUS
    <3>1. PICK x \in DiskNamed(n) : d = at[x].dev
        BY DEF DevRead
    <3>2. x \in Present /\ x # root /\ root \in Present
        BY <1>3, <2>1, <3>1, RootStays, RootDiskAssumption DEF DiskNamed
    <3> QED
        BY <1>3, <2>1, <3>1, <3>2 DEF Unique
  <2>4. DiskEntries'
      BY <1>3, <2>1, <2>3 DEF CompleteInv, DiskEntries
  <2> QED
      BY <2>2, <2>4
<1>9. CASE ListParts
  <2>1. /\ Main /\ pc = "list" /\ pc' = "part" /\ UNCHANGED <<infos, disks, disk>>
        /\ parts' = {at[x].name : x \in UNION {ChildrenOf(e) : e \in DiskNamed(disk)}}
      BY <1>9 DEF Main, ListParts
  <2> SUFFICES ASSUME root \in Parts PROVE Coverage'
      BY <1>4, <1>6, <2>1
  <2>2. CASE disk = RootDiskName
    <3>1. \A p \in OnRootDisk : p \in ChildrenOf(RootDiskOf(root))
        BY <1>3, <2>1, RootStays DEF OnRootDisk, ChildrenOf, Mounted
    <3>2. \A p \in OnRootDisk : at[p].name \in parts'
        BY <1>5, <2>1, <2>2, <3>1
    <3> QED
        BY <1>3, <1>5, <2>1, <2>2, <3>2 DEF Coverage, StillToRead
  <2>3. CASE disk # RootDiskName
      BY <1>3, <1>5, <1>6, <2>1, <2>3 DEF CompleteInv, Coverage, StillToRead
  <2> QED
      BY <2>2, <2>3
<1>10. ASSUME NEW m \in parts, ReadDev(m) PROVE CompleteInv'
  <2>1. /\ Main /\ pc = "part" /\ pc' = "number" /\ UNCHANGED <<infos, disks, disk>>
        /\ parts' = parts \ {m} /\ part' = m /\ dev' = DevRead(PartNamed(disk, m))
      BY <1>10 DEF Main, ReadDev
  <2> SUFFICES ASSUME root \in Parts PROVE Coverage'
      BY <1>4, <1>6, <2>1
  <2>2. ASSUME NEW p \in OnRootDisk, StillToRead(p)
        PROVE  StillToRead(p)'
    <3>1. disk = RootDiskName /\ at[p].name \in parts
        BY <2>1, <2>2 DEF StillToRead
    <3>2. m = at[p].name => dev' = at[p].dev
        BY <1>5, <2>1, <3>1, ReadOne
    <3> QED
        BY <1>3, <1>5, <2>1, <3>1, <3>2 DEF StillToRead
  <2> QED
      BY <1>3, <1>5, <1>6, <2>1, <2>2 DEF CompleteInv, Coverage
<1>11. CASE ReadNumber
  <2> DEFINE k == NumberRead(PartNamed(disk, part))
             new == [name |-> part, dev |-> dev, number |-> k, parent |-> disk]
  <2>1. /\ Main /\ pc = "number" /\ pc' = "part" /\ UNCHANGED <<disks, disk, parts>>
        /\ infos' = infos \cup (IF dev = 0 \/ k = 0 THEN {} ELSE {new})
      BY <1>11 DEF Main, ReadNumber
  <2> SUFFICES ASSUME root \in Parts PROVE Coverage' /\ DiskEntries'
      BY <1>4, <2>1
  <2>2. \A p \in OnRootDisk : Entered(p) => Entered(p)'
      BY <1>3, <1>5, <2>1 DEF Entered
  <2>3. ASSUME NEW p \in OnRootDisk, StillToRead(p)
        PROVE  Entered(p)' \/ StillToRead(p)'
    <3>1. CASE at[p].name \in parts
        BY <1>3, <1>5, <2>1, <2>3, <3>1 DEF StillToRead
    <3>2. CASE part = at[p].name /\ dev = at[p].dev /\ disk = RootDiskName
      <4>1. p \in Present /\ p \in Parts /\ k = Number[p]
          BY <1>3, <1>5, <2>1, <3>2, ReadOne, RootStays DEF OnRootDisk, Mounted
      <4>2. dev # 0 /\ k # 0
          BY <1>5, <2>1, <3>2, <4>1, RootDiskAssumption
      <4> QED
          BY <1>3, <1>5, <2>1, <3>2, <4>1, <4>2 DEF Entered
    <3> QED
        BY <2>1, <2>3, <3>1, <3>2 DEF StillToRead
  <2>4. Coverage'
      BY <1>3, <1>5, <2>1, <2>2, <2>3 DEF CompleteInv, Coverage
  <2>5. DiskEntries'
    <3>1. disk # "none" \/ dev = 0 \/ dev # at[root].dev
        BY <2>1, RootDiskAssumption, RootStays, <1>3 DEF CompleteInv, ScanInv, OfRoot, AreaOfRoot, RootDiskName, Unique
    <3> QED
        BY <1>3, <2>1, <3>1 DEF CompleteInv, DiskEntries
  <2> QED
      BY <2>4, <2>5
<1>12. CASE EndParts \/ EndScan
  <2>1. /\ Main /\ pc' # "done" /\ UNCHANGED <<infos, disks, disk, parts, part, dev>>
        /\ pc \in {"part", "disk"} /\ (pc' = "link" => disks' = {}) /\ pc' \in {"disk", "link"}
        /\ pc = "part" => parts = {}
      BY <1>12 DEF Main, EndParts, EndScan
  <2> SUFFICES ASSUME root \in Parts PROVE Coverage'
      BY <1>4, <1>6, <2>1
  <2> QED
      BY <1>3, <1>5, <1>6, <2>1 DEF CompleteInv, Coverage, StillToRead
<1>13. CASE Link
  <2>1. pc' = "done" /\ UNCHANGED <<at, root, infos, disks, disk, parts, part, dev>> /\ pc = "link"
      BY <1>13 DEF Link
  <2>2. LinksComplete'
      BY <1>13, LinkComplete
  <2>3. root \in Parts => Coverage' /\ DiskEntries'
      BY <2>1 DEF CompleteInv, Coverage, DiskEntries, Entered, StillToRead, OnRootDisk, RootDiskName, RootDiskOf
  <2> QED
      BY <1>1, <2>1, <2>2, <2>3 DEF CompleteInv
<1> QED
    BY <1>2, <1>7, <1>8, <1>9, <1>10, <1>11, <1>12, <1>13 DEF Main

\* For every set of disks and partitions, whatever comes and goes during the
\* scan: the root filesystem's disk is found, and each of its partitions gets
\* its link unless symlink() refuses that one (rootdisk.c:230-236).
THEOREM LinksCompleteAlways == Spec => []LinksComplete
<1>1. Init => CompleteInv
    BY ScanInvInit DEF Init, CompleteInv, LinksComplete
<1>2. CompleteInv /\ [Next]_vars => CompleteInv'
  <2> SUFFICES ASSUME CompleteInv, [Next]_vars PROVE CompleteInv'
      OBVIOUS
  <2>1. CASE UNCHANGED vars
    <3>1. ScanInv'
        BY <2>1, ScanInvStep DEF CompleteInv
    <3>2. LinksComplete'
        BY <2>1 DEF vars, CompleteInv, LinksComplete, RootLinks
    <3>3. Coverage /\ DiskEntries => Coverage' /\ DiskEntries'
        BY <2>1 DEF vars, Coverage, DiskEntries, Entered, StillToRead, OnRootDisk, RootDiskName, RootDiskOf
    <3> QED
        BY <2>1, <3>1, <3>2, <3>3 DEF CompleteInv, vars
  <2> QED
      BY <2>1, KernelComplete, MainComplete DEF Next
<1>3. CompleteInv => LinksComplete
    BY DEF CompleteInv
<1> QED
    BY <1>1, <1>2, <1>3, PTL DEF Spec

-----------------------------------------------------------------------------
\* The entries are typed because a directory that is read has a name.
TypeInv ==
    /\ ScanInv
    /\ TypeOK
    /\ "none" \notin disks
    /\ pc \in {"list", "part", "number"} => disk # "none"

\* The variables keep their types, and an entry of infos has a partition number
\* exactly when it was found below a disk (rootdisk.c:93-137).
THEOREM RootDiskTypes == Spec => []TypeOK
<1> USE DEF scan, kernel
<1>1. Init => TypeInv
    BY ScanInvInit DEF Init, TypeInv, TypeOK
<1>2. TypeInv /\ [Next]_vars => TypeInv'
  <2> SUFFICES ASSUME TypeInv, [Next]_vars PROVE TypeInv'
      OBVIOUS
  <2>1. ScanInv'
      BY ScanInvStep DEF TypeInv
  <2>2. \A l \in links' : l[1] \in Nat
    <3>1. \A l \in RootLinks' : l[1] \in Nat
        BY RootDiskAssumption DEF RootLinks
    <3> QED
        BY <2>1, <3>1 DEF ScanInv, LinksRight
  <2>3. CASE UNCHANGED vars
      BY <2>1, <2>3 DEF vars, TypeInv, TypeOK
  <2>4. ASSUME NEW x \in Nodes, Appears(x) \/ Vanishes(x) PROVE TypeInv'
    <3>1. at' \in [Nodes -> {Gone} \cup [name : UNION {NamesOf[y] : y \in Nodes}, dev : Nat \ {0}]]
      <4>1. CASE Appears(x)
        <5>1. PICK n \in NamesOf[x], d \in DevsOf[x] : at' = [at EXCEPT ![x] = [name |-> n, dev |-> d]]
            BY <4>1 DEF Appears
        <5>2. d \in Nat \ {0} /\ n \in UNION {NamesOf[y] : y \in Nodes}
            BY RootDiskAssumption
        <5> QED
            BY <5>1, <5>2 DEF TypeInv, TypeOK
      <4>2. CASE Vanishes(x)
          BY <4>2 DEF Vanishes, TypeInv, TypeOK
      <4> QED
          BY <2>4, <4>1, <4>2
    <3>2. UNCHANGED <<pc, disks, disk, infos, links>>
        BY <2>4 DEF Appears, Vanishes
    <3> QED
        BY <2>1, <3>1, <3>2 DEF TypeInv, TypeOK
  <2>5. CASE Mount
      BY <2>1, <2>5 DEF Mount, TypeInv, TypeOK
  <2>6. CASE ListDisks
    <3>1. \A x \in Present : at[x].name # "none"
        BY DEF TypeInv, ScanInv, Unique
    <3> QED
        BY <2>1, <2>6, <3>1 DEF ListDisks, TypeInv, TypeOK
  <2>7. ASSUME NEW n \in disks, ReadDisk(n) PROVE TypeInv'
      BY <2>1, <2>7 DEF ReadDisk, TypeInv, TypeOK
  <2>8. CASE ListParts \/ EndParts \/ EndScan
      BY <2>1, <2>8 DEF ListParts, EndParts, EndScan, TypeInv, TypeOK
  <2>9. ASSUME NEW m \in parts, ReadDev(m) PROVE TypeInv'
      BY <2>1, <2>9 DEF ReadDev, TypeInv, TypeOK
  <2>10. CASE ReadNumber
      BY <2>1, <2>10 DEF ReadNumber, TypeInv, TypeOK
  <2>11. CASE Link
      BY <2>1, <2>2, <2>11 DEF Link, TypeInv, TypeOK
  <2> QED
      BY <2>3, <2>4, <2>5, <2>6, <2>7, <2>8, <2>9, <2>10, <2>11 DEF Next, Kernel, Main
<1>3. TypeInv => TypeOK
    BY DEF TypeInv
<1> QED
    BY <1>1, <1>2, <1>3, PTL DEF Spec
=============================================================================
