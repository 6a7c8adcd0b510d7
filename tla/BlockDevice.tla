---------------------------- MODULE BlockDevice ----------------------------
(***************************************************************************)
(* Opening a block device by its specification (src/block_device.c) while  *)
(* the kernel is still enumerating the disks.                              *)
(*                                                                         *)
(* Two processes take steps: the kernel, which adds a disk under a name of *)
(* its choice and later its partition nodes, and init, which serves one    *)
(* open_block_device() call at a time.  A call makes one attempt (find the *)
(* device, open its path) and then, while it has failed and the static     *)
(* counter tries is not exhausted, sleeps one millisecond and attempts     *)
(* again.  The counter is shared by all calls of the boot.                 *)
(*                                                                         *)
(* A device is a pair <<disk, part>>; part 0 is the disk itself.  The pair *)
(* stands for the UUID the device carries: UUIDs are unique, and the part  *)
(* of the device tells PARTUUID= from DISKUUID=.  Names are numbers in the *)
(* order alphasort() puts them.                                            *)
(***************************************************************************)
EXTENDS Integers

CONSTANTS
    Disks,      \* the physical disks
    Mbr, Gpt,   \* the disks with a partition table of each kind
    Empty,      \* the disks of length zero, e.g. an unbound loop device
    ReadOnly,   \* the disks that refuse to be opened for writing
    PartNums,   \* the partition numbers
    Used,       \* [Disks -> SUBSET PartNums], the partitions in use
    Names,      \* the kernel's device names
    Tries       \* initial value of the static counter, 1000 in the code

NotArrived == 0
Whole      == 0

ASSUME DiskAssumption ==
    /\ Mbr \subseteq Disks /\ Gpt \subseteq Disks /\ Empty \subseteq Disks
    /\ Mbr \cap Gpt = {} /\ Mbr \cap Empty = {} /\ Gpt \cap Empty = {}
    /\ PartNums \subseteq Nat \ {Whole}
    /\ Names \subseteq Nat \ {NotArrived}
    /\ Used \in [Disks -> SUBSET PartNums]
    /\ \A d \in Disks \ (Mbr \cup Gpt) : Used[d] = {}
    /\ Tries \in Nat

Devices == Disks \X (PartNums \cup {Whole})
Paths   == (Names \cup {NotArrived}) \X (PartNums \cup {Whole})

\* PARTUUID=... and DISKUUID=... name a device, anything else is a path.
Specs == [by : {"uuid"}, of : Devices] \cup [by : {"path"}, of : Paths]
Modes == {"r", "w"}

VARIABLES
    name,       \* the kernel's name of each disk, or NotArrived
    nodes,      \* the partition nodes that exist under /dev
    tries,      \* static int tries of open_block_device()
    slept,      \* history: milliseconds slept since boot
    pc,         \* where the call is
    looping,    \* the call is in the body of the while loop
    spec, mode, \* arguments of the call
    path,       \* the caller's path buffer
    rc,         \* how the last call ended
    there       \* history: the attempt began with the device in place

kernel == <<name, nodes>>
call   == <<spec, mode, rc>>
vars   == <<name, nodes, tries, slept, pc, looping, spec, mode, path, rc, there>>

-----------------------------------------------------------------------------
\* Device dev is what the kernel shows at path p.
At(p, dev) ==
    /\ name[dev[1]] # NotArrived
    /\ p = <<name[dev[1]], dev[2]>>
    /\ dev[2] = Whole \/ dev \in nodes

\* open(path, flags) succeeds.
Writable(dev, m) == m = "w" => dev[1] \notin ReadOnly
Opens(p, m) == \E dev \in Devices : At(p, dev) /\ Writable(dev, m)

\* The devices a table on disk d describes, in the order they are listed.
Carries(d) == {<<d, i>> : i \in Used[d] \cup {Whole}}

Arrived == {d \in Disks : name[d] # NotArrived}

\* History only: the device asked for can be opened at this moment.
InPlace(s, m) ==
    IF s.by = "path"
    THEN Opens(s.of, m)
    ELSE /\ s.of[1] \in Arrived \cap (Mbr \cup Gpt)
         /\ s.of \in Carries(s.of[1])
         /\ Opens(<<name[s.of[1]], s.of[2]>>, m)

-----------------------------------------------------------------------------
Init ==
    /\ name = [d \in Disks |-> NotArrived]
    /\ nodes = {}
    /\ tries = Tries
    /\ slept = 0
    /\ pc = "idle"
    /\ looping = FALSE
    /\ spec \in Specs
    /\ mode = "r"
    /\ path = <<NotArrived, Whole>>
    /\ rc = "none"
    /\ there = FALSE

\* The kernel registers a disk under a free name, in any order.
DiskArrives(d, n) ==
    /\ name[d] = NotArrived
    /\ \A x \in Disks : name[x] # n
    /\ name' = [name EXCEPT ![d] = n]
    /\ UNCHANGED <<nodes, tries, slept, pc, looping, path, there>>
    /\ UNCHANGED call

\* The nodes of a disk's partitions follow the disk, one at a time.
PartArrives(d, i) ==
    /\ name[d] # NotArrived
    /\ <<d, i>> \notin nodes
    /\ nodes' = nodes \cup {<<d, i>>}
    /\ UNCHANGED <<name, tries, slept, pc, looping, path, there>>
    /\ UNCHANGED call

\* Mutant: tries is not static, each call waits on its own account.
CallForgetsTries(s, m) ==
    /\ pc = "idle"
    /\ pc' = "find"
    /\ spec' = s
    /\ mode' = m
    /\ rc' = "none"
    /\ looping' = FALSE
    /\ there' = InPlace(s, m)
    /\ tries' = Tries
    /\ UNCHANGED <<slept, path>>
    /\ UNCHANGED kernel

\* Mutant: the first attempt is inside the loop, so a call made when the
\* budget is used up makes none.
CallMakesNoAttempt(s, m) ==
    /\ pc = "idle"
    /\ pc' = IF tries > 0 THEN "find" ELSE "failed"
    /\ spec' = s
    /\ mode' = m
    /\ rc' = "none"
    /\ looping' = FALSE
    /\ there' = InPlace(s, m)
    /\ UNCHANGED <<tries, slept, path>>
    /\ UNCHANGED kernel

\* open_block_device(s, m, path) is called.
Call(s, m) ==
    /\ pc = "idle"
    /\ pc' = "find"
    /\ spec' = s
    /\ mode' = m
    /\ rc' = "none"
    /\ looping' = FALSE
    /\ there' = InPlace(s, m)
    /\ UNCHANGED <<tries, slept, path>>
    /\ UNCHANGED kernel

\* Mutant: partitions are numbered from zero, so the first one gets the path
\* of the disk.
ListedFromZero(d) ==
    {[at |-> <<name[d], IF u[2] = Whole THEN Whole ELSE u[2] - 1>>, uuid |-> u] :
        u \in IF d \in Mbr \cup Gpt THEN Carries(d) ELSE {}}

\* What probing a non-empty disk adds to the list of block devices.
Listed(d) ==
    {[at |-> <<name[d], u[2]>>, uuid |-> u] :
        u \in IF d \in Mbr \cup Gpt THEN Carries(d) ELSE {}}

\* An empty disk is read into a buffer that pread() leaves as it was: the
\* sector of the disk probed just before it (probing goes from the last name
\* to the first).  A GPT disk's sector 0 is refused by the MBR probe.
ReadBefore(e) ==
    {d \in Arrived \ Empty :
        /\ name[d] > name[e]
        /\ \A x \in Arrived \ Empty : name[x] > name[e] => name[d] <= name[x]}

Leftover(e) ==
    {[at |-> <<name[e], u[2]>>, uuid |-> u] :
        u \in UNION {Carries(d) : d \in ReadBefore(e) \cap Mbr}}

\* The list when the buffer kept its content for the disks in stale.
Probe(stale) ==
    UNION ({Listed(d) : d \in Arrived \ Empty}
           \cup {Leftover(e) : e \in Arrived \cap stale})

\* Mutant: a partition is matched by the UUID of its disk alone.
MatchesDisk(uuid) == uuid[1] = spec.of[1]

\* Type and UUID are compared, the letters without case.
Matches(uuid) == uuid = spec.of

\* The list is in the order of the names, so the first match wins.
First(e, found) == e \in found /\ \A f \in found : e.at[1] <= f.at[1]

\* find_block_device_by_spec()
Find ==
    /\ pc = "find"
    /\ \/ /\ spec.by = "path"
          /\ path' = spec.of
          /\ pc' = "open"
       \/ /\ spec.by = "uuid"
          /\ \E stale \in SUBSET Empty :
               LET found == {e \in Probe(stale) : Matches(e.uuid)}
               IN  \/ \E e \in found :
                      /\ First(e, found)
                      /\ path' = e.at
                      /\ pc' = "open"
                   \/ /\ found = {}
                      /\ pc' = "failed"
                      /\ UNCHANGED path
    /\ UNCHANGED <<tries, slept, looping, there>>
    /\ UNCHANGED call
    /\ UNCHANGED kernel

\* tries-- closes each turn of the loop; the first attempt is outside it.
TriesLeft == IF looping THEN tries - 1 ELSE tries

OpenOk ==
    /\ pc = "open"
    /\ Opens(path, mode)
    /\ rc' = "ok"
    /\ pc' = "idle"
    /\ tries' = TriesLeft
    /\ looping' = FALSE
    /\ UNCHANGED <<slept, spec, mode, path, there>>
    /\ UNCHANGED kernel

OpenFails ==
    /\ pc = "open"
    /\ ~Opens(path, mode)
    /\ pc' = "failed"
    /\ UNCHANGED <<tries, slept, looping, path, there>>
    /\ UNCHANGED call
    /\ UNCHANGED kernel

\* Mutant: the loop tests tries >= 0.
SleepOnceMore ==
    /\ pc = "failed"
    /\ TriesLeft >= 0
    /\ tries' = TriesLeft
    /\ slept' = slept + 1
    /\ looping' = TRUE
    /\ pc' = "find"
    /\ there' = InPlace(spec, mode)
    /\ UNCHANGED <<path, spec, mode, rc, name, nodes>>

\* Mutant: tries is never decremented.
SleepForever ==
    /\ pc = "failed"
    /\ TriesLeft > 0
    /\ slept' = (slept + 1) % (Tries + 1)
    /\ looping' = FALSE
    /\ pc' = "find"
    /\ there' = InPlace(spec, mode)
    /\ UNCHANGED <<tries, path, spec, mode, rc, name, nodes>>

\* usleep(1000), then the next attempt begins.
Sleep ==
    /\ pc = "failed"
    /\ TriesLeft > 0
    /\ tries' = TriesLeft
    /\ slept' = slept + 1
    /\ looping' = TRUE
    /\ pc' = "find"
    /\ there' = InPlace(spec, mode)
    /\ UNCHANGED path
    /\ UNCHANGED call
    /\ UNCHANGED kernel

\* "Could not open block device even after waiting!"
GiveUp ==
    /\ pc = "failed"
    /\ TriesLeft <= 0
    /\ tries' = TriesLeft
    /\ rc' = "failed"
    /\ pc' = "idle"
    /\ looping' = FALSE
    /\ UNCHANGED <<slept, spec, mode, path, there>>
    /\ UNCHANGED kernel

Kernel ==
    \/ \E d \in Disks, n \in Names : DiskArrives(d, n)
    \/ \E d \in Disks : \E i \in Used[d] : PartArrives(d, i)

Serve == Find \/ OpenOk \/ OpenFails \/ Sleep \/ GiveUp

Next ==
    \/ Kernel
    \/ \E s \in Specs, m \in Modes : Call(s, m)
    \/ Serve

Spec == Init /\ [][Next]_vars

\* init is PID 1 and nothing blocks a call, so a call that has begun goes on.
FairSpec == Spec /\ WF_vars(Serve)

-----------------------------------------------------------------------------
\* Type correctness.
TypeOK ==
    /\ name \in [Disks -> Names \cup {NotArrived}]
    /\ nodes \subseteq Disks \X PartNums
    /\ tries \in 0 .. Tries
    /\ slept \in Nat
    /\ pc \in {"idle", "find", "open", "failed"}
    /\ looping \in BOOLEAN
    /\ spec \in Specs
    /\ mode \in Modes
    /\ path \in Paths
    /\ rc \in {"none", "ok", "failed"}
    /\ there \in BOOLEAN

\* The waiting of all calls together never exceeds the budget
\* (block_device.c:276-278: the wait must not depend on the script), and a
\* call gives up only when every millisecond of it has been spent.
WaitIsShared ==
    /\ slept <= Tries
    /\ rc = "failed" => slept = Tries

\* The disk has an MBR, and an empty disk, which is probed after it and listed
\* before it, may be listed with its UUIDs.
Hidden(dev) ==
    dev[1] \in Mbr /\ \E e \in Empty \cap Arrived : name[e] < name[dev[1]]

\* README.md:117-118 says of names that change "The way around this is to identify
\* devices by UUID": a device that is in place is then found.
UuidsFind == rc = "failed" /\ spec.by = "uuid" => ~there

\* A call never gives up on a device that was in place when its last attempt
\* began, however late in the boot it is made: even a call that finds the
\* budget used up makes one attempt.  Only an empty disk can hide it.
NeverMissed == rc = "failed" /\ there => spec.by = "uuid" /\ Hidden(spec.of)

\* A device opened by its UUID is the one that carries the UUID, whatever names the
\* kernel chose and whatever the empty disks left behind.  Only a whole disk can be
\* mistaken, for the empty disk that hides it.
RightDevice ==
    rc = "ok" /\ spec.by = "uuid" =>
        At(path, spec.of) \/ (spec.of[2] = Whole /\ Hidden(spec.of))

\* Every call returns, also one for a device that never comes.
EveryCallReturns == pc # "idle" ~> pc = "idle"

-----------------------------------------------------------------------------
\* BlockDevice implements the promise of DeviceOpen.
Ready == {dev \in Devices : name[dev[1]] # NotArrived /\ (dev[2] = Whole \/ dev \in nodes)}

Request == [spec : Specs, mode : Modes]
Answers ==
    {x \in Request \X Devices :
        /\ x[1].spec.by = "uuid" =>
               \/ x[1].spec.of = x[2]
               \/ x[1].spec.of \in Mbr \X {Whole} /\ x[2] \in Empty \X {Whole}
        /\ Writable(x[2], x[1].mode)}

Promise == INSTANCE DeviceOpen WITH
    Requests <- Request,
    Serves   <- Answers,
    Budget   <- Tries,
    ready    <- Ready,
    waited   <- slept,
    asked    <- [spec |-> spec, mode |-> mode],
    busy     <- pc # "idle",
    opened   <- IF rc = "ok" THEN {dev \in Devices : At(path, dev)} ELSE {}

\* The calls keep the promise made to the script and to the boot: right
\* device or no device, and one waiting budget for the whole boot.
KeepsPromise == Promise!Spec
=============================================================================
