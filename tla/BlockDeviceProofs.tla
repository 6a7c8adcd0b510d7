------------------------- MODULE BlockDeviceProofs -------------------------
(***************************************************************************)
(* What BlockDevice guarantees for any disks, names, partitions and wait   *)
(* budget.  Inv is the inductive invariant; its parts are                  *)
(*   - Waited: the milliseconds slept and the counter tries account for    *)
(*     each other, with the one turn of the loop whose tries-- is due;     *)
(*   - Naming: two disks never share a name, and only partitions in use    *)
(*     have nodes, so that a path stands for at most one device;           *)
(*   - Probed: a path found by UUID is the path of the device asked for,   *)
(*     or that of an empty disk which hides it, where no partition is.     *)
(***************************************************************************)
EXTENDS BlockDevice, TLAPS

Waited ==
    /\ slept + tries = Tries + (IF looping THEN 1 ELSE 0)
    /\ looping => pc # "idle" /\ tries >= 1
    /\ rc # "none" => pc = "idle"
    /\ rc = "failed" => slept = Tries

Naming ==
    /\ \A d, e \in Disks : name[d] # NotArrived /\ name[d] = name[e] => d = e
    /\ \A dev \in nodes : dev[1] \in Disks /\ dev[2] \in Used[dev[1]]

PathOfUuid ==
    /\ path[2] = spec.of[2]
    /\ \E d \in Disks :
        /\ name[d] = path[1]
        /\ name[d] # NotArrived
        /\ d = spec.of[1] \/ (d \in Empty /\ Hidden(spec.of))

Probed ==
    /\ pc = "open" /\ spec.by = "uuid" => PathOfUuid
    /\ RightDevice

Inv == TypeOK /\ Waited /\ Naming /\ Probed

-----------------------------------------------------------------------------
(* Type correctness and the wait budget.                                   *)

Inv0 == TypeOK /\ Waited

LEMMA Inv0Init == Init => Inv0
  <1> SUFFICES ASSUME Init PROVE Inv0
    OBVIOUS
  <1> USE DiskAssumption DEF Init
  <1>1. path \in Paths
    BY DEF Paths
  <1>2. TypeOK
    <2>1. name \in [Disks -> Names \cup {NotArrived}] /\ nodes \subseteq Disks \X PartNums
      OBVIOUS
    <2>2. tries \in 0 .. Tries /\ slept \in Nat
      OBVIOUS
    <2>3. pc \in {"idle", "find", "open", "failed"} /\ rc \in {"none", "ok", "failed"}
      OBVIOUS
    <2>4. spec \in Specs /\ mode \in Modes
      BY DEF Modes
    <2>5. looping \in BOOLEAN /\ there \in BOOLEAN
      OBVIOUS
    <2> QED BY <1>1, <2>1, <2>2, <2>3, <2>4, <2>5 DEF TypeOK
  <1>3. Waited
    BY DEF Waited
  <1> QED BY <1>2, <1>3 DEF Inv0

LEMMA PathsOfListed ==
    ASSUME TypeOK, NEW stale \in SUBSET Empty, NEW e \in Probe(stale)
    PROVE  /\ e.at \in Paths
           /\ e.at[2] = e.uuid[2]
           /\ \E d \in Disks :
                /\ name[d] = e.at[1]
                /\ name[d] # NotArrived
                /\ d = e.uuid[1] \/ (d \in Empty /\ Hidden(e.uuid))
  <1>1. CASE \E d \in Arrived \ Empty : e \in Listed(d)
    BY <1>1, DiskAssumption
    DEF Listed, Carries, Arrived, Paths, TypeOK, Whole
  <1>2. CASE \E d \in Arrived \cap stale : e \in Leftover(d)
    <2>1. PICK d \in Arrived \cap stale : e \in Leftover(d)
      BY <1>2
    <2>2. PICK x \in ReadBefore(d) \cap Mbr :
              \E u \in Carries(x) : e = [at |-> <<name[d], u[2]>>, uuid |-> u]
      BY <2>1 DEF Leftover
    <2> PICK u \in Carries(x) : e = [at |-> <<name[d], u[2]>>, uuid |-> u]
      BY <2>2
    <2>3. x \in Arrived /\ name[d] < name[x] /\ u[1] = x /\ u[2] \in PartNums \cup {Whole}
      BY <2>2, DiskAssumption DEF ReadBefore, Carries, Arrived, TypeOK
    <2>4. Hidden(e.uuid)
      BY <2>1, <2>2, <2>3 DEF Hidden
    <2> QED BY <2>1, <2>2, <2>3, <2>4 DEF Arrived, Paths, TypeOK
  <1> QED BY <1>1, <1>2 DEF Probe

LEMMA Inv0Step == Inv0 /\ [Next]_vars => Inv0'
  <1> SUFFICES ASSUME Inv0, [Next]_vars PROVE Inv0'
    OBVIOUS
  <1> USE DEF Inv0, TypeOK, Waited
  <1>1. ASSUME NEW d \in Disks, NEW n \in Names, DiskArrives(d, n) PROVE Inv0'
    BY <1>1 DEF DiskArrives, call
  <1>2. ASSUME NEW d \in Disks, NEW i \in Used[d], PartArrives(d, i) PROVE Inv0'
    BY <1>2, DiskAssumption DEF PartArrives, call
  <1>3. ASSUME NEW s \in Specs, NEW m \in Modes, Call(s, m) PROVE Inv0'
    <2>1. there' \in BOOLEAN
      BY <1>3, Zenon DEF Call, InPlace, Opens
    <2>2. looping' = FALSE
      BY <1>3 DEF Call
    <2> QED BY <1>3, <2>1, <2>2 DEF Call, kernel
  <1>4. CASE Find
    <2>1. path' \in Paths
      BY <1>4, PathsOfListed DEF Find, First, Specs
    <2>2. pc' \in {"open", "failed"}
      BY <1>4 DEF Find
    <2> QED BY <1>4, <2>1, <2>2 DEF Find, call, kernel
  <1>5. CASE OpenOk
    <2>1. tries' \in 0 .. Tries /\ slept + tries' = Tries
      BY <1>5, DiskAssumption DEF OpenOk, TriesLeft
    <2>2. looping' = FALSE
      BY <1>5 DEF OpenOk
    <2>3. TypeOK'
      BY <1>5, <2>1, <2>2 DEF OpenOk, kernel
    <2>4. Waited'
      BY <1>5, <2>1, <2>2 DEF OpenOk
    <2> QED BY <2>3, <2>4
  <1>6. CASE OpenFails
    BY <1>6 DEF OpenFails, call, kernel
  <1>7. CASE Sleep
    <2>1. tries' \in 1 .. Tries /\ slept' + tries' = Tries + 1 /\ slept' \in Nat
      BY <1>7, DiskAssumption DEF Sleep, TriesLeft
    <2>2. looping' = TRUE
      BY <1>7 DEF Sleep
    <2>3. there' \in BOOLEAN
      BY <1>7, Zenon DEF Sleep, InPlace, Opens
    <2> QED BY <1>7, <2>1, <2>2, <2>3 DEF Sleep, call, kernel
  <1>8. CASE GiveUp
    <2>1. tries' = 0 /\ tries' \in 0 .. Tries /\ slept = Tries
      BY <1>8, DiskAssumption DEF GiveUp, TriesLeft
    <2>2. looping' = FALSE
      BY <1>8 DEF GiveUp
    <2>3. TypeOK'
      BY <1>8, <2>1, <2>2 DEF GiveUp, kernel
    <2>4. Waited'
      BY <1>8, <2>1, <2>2 DEF GiveUp
    <2> QED BY <2>3, <2>4
  <1>9. CASE UNCHANGED vars
    BY <1>9 DEF vars
  <1> QED BY <1>1, <1>2, <1>3, <1>4, <1>5, <1>6, <1>7, <1>8, <1>9 DEF Next, Kernel, Serve

\* The budget, for every number of tries, disks and calls: however the calls
\* and the arrivals interleave, all of them together sleep at most Tries
\* milliseconds, and a call fails only after the last one (static int tries,
\* block_device.c:279-285).
THEOREM WaitIsSharedAlways == Spec => [](TypeOK /\ WaitIsShared)
  <1>1. Inv0 => TypeOK /\ WaitIsShared
    BY DiskAssumption DEF Inv0, TypeOK, Waited, WaitIsShared
  <1> QED BY Inv0Init, Inv0Step, <1>1, PTL DEF Spec

\* For every number of tries, disks and calls: the paths and descriptors of
\* open_block_device_impl() are what its callers take them for.
THEOREM TypeAlways == Spec => []TypeOK
  BY WaitIsSharedAlways, PTL

-----------------------------------------------------------------------------
(* Paths and devices.                                                      *)

LEMMA NamingStep == TypeOK /\ Naming /\ [Next]_vars => Naming'
  <1> SUFFICES ASSUME TypeOK, Naming, [Next]_vars PROVE Naming'
    OBVIOUS
  <1> USE DEF TypeOK, Naming
  <1>1. ASSUME NEW d \in Disks, NEW n \in Names, DiskArrives(d, n) PROVE Naming'
    BY <1>1, DiskAssumption DEF DiskArrives
  <1>2. ASSUME NEW d \in Disks, NEW i \in Used[d], PartArrives(d, i) PROVE Naming'
    BY <1>2 DEF PartArrives
  <1>3. CASE UNCHANGED kernel
    BY <1>3 DEF kernel
  <1> QED BY <1>1, <1>2, <1>3
      DEF Next, Kernel, Serve, Call, Find, OpenOk, OpenFails, Sleep, GiveUp, vars, kernel

\* What is at a path stays there: the kernel only adds names and nodes.
LEMMA AtStays ==
    ASSUME TypeOK, [Next]_vars, NEW p, NEW dev \in Devices, At(p, dev)
    PROVE  At(p, dev)'
  <1> USE DEF TypeOK, At, Devices
  <1>1. ASSUME NEW d \in Disks, NEW n \in Names, DiskArrives(d, n) PROVE At(p, dev)'
    BY <1>1 DEF DiskArrives
  <1>2. ASSUME NEW d \in Disks, NEW i \in Used[d], PartArrives(d, i) PROVE At(p, dev)'
    BY <1>2 DEF PartArrives
  <1>3. CASE UNCHANGED kernel
    BY <1>3 DEF kernel
  <1> QED BY <1>1, <1>2, <1>3
      DEF Next, Kernel, Serve, Call, Find, OpenOk, OpenFails, Sleep, GiveUp, vars, kernel

LEMMA AtOne ==
    ASSUME Naming, NEW p, NEW d \in Devices, NEW e \in Devices, At(p, d), At(p, e)
    PROVE  d = e
  BY DEF Naming, At, Devices

\* What hides a disk hides it from then on.
LEMMA HiddenStays ==
    ASSUME TypeOK, [Next]_vars, NEW dev \in Devices, Hidden(dev)
    PROVE  Hidden(dev)'
  <1> USE DEF Hidden
  <1>1. ASSUME NEW d \in Disks, NEW n \in Names, DiskArrives(d, n) PROVE Hidden(dev)'
    <2>1. PICK e \in Empty : name[e] # NotArrived /\ name[e] < name[dev[1]]
      BY DEF Arrived
    <2>5. e \in Disks /\ dev[1] \in Disks
      BY DiskAssumption DEF Devices
    <2>6. \A x \in Disks : name[x] \in Nat
      <3>1. \A x \in Disks : name[x] \in Names \cup {NotArrived}
        BY DEF TypeOK
      <3>2. Names \cup {NotArrived} \subseteq Nat
        BY DiskAssumption DEF NotArrived
      <3> QED BY <3>1, <3>2
    <2>2. name[e] \in Nat /\ name[dev[1]] \in Nat
      BY <2>5, <2>6
    <2>3. name[dev[1]] # NotArrived
      BY <2>1, <2>2 DEF NotArrived
    <2>4. name'[e] = name[e] /\ name'[dev[1]] = name[dev[1]]
      BY <1>1, <2>1, <2>3, <2>5 DEF DiskArrives, TypeOK
    <2> QED BY <2>1, <2>4, <2>5 DEF Arrived
  <1>2. CASE UNCHANGED name
    BY <1>2 DEF Arrived
  <1> QED BY <1>1, <1>2
      DEF Next, Kernel, PartArrives, Serve, Call, Find, OpenOk, OpenFails, Sleep, GiveUp, vars, kernel

LEMMA ProbedStep == TypeOK /\ Waited /\ Naming /\ Probed /\ [Next]_vars => Probed'
  <1> SUFFICES ASSUME TypeOK, Waited, Naming, Probed, [Next]_vars PROVE Probed'
    OBVIOUS
  <1>1. CASE Kernel \/ UNCHANGED vars
    <2>1. UNCHANGED <<pc, spec, path, rc>>
      BY <1>1 DEF Kernel, DiskArrives, PartArrives, call, vars
    <2>3. spec.by = "uuid" => spec.of \in Devices
      BY DEF TypeOK, Specs
    <2>5. spec.by = "uuid" /\ Hidden(spec.of) => Hidden(spec.of)'
      <3>1. \A dev \in Devices : Hidden(dev) => Hidden(dev)'
        BY HiddenStays
      <3> QED BY <2>1, <2>3, <3>1 DEF Hidden, Arrived
    <2>2. spec.by = "uuid" /\ PathOfUuid => PathOfUuid'
      <3>1. \A d \in Disks : name[d] # NotArrived => name'[d] = name[d]
        BY <1>1 DEF Kernel, DiskArrives, PartArrives, TypeOK, vars, kernel
      <3> QED BY <2>1, <2>5, <3>1 DEF PathOfUuid
    <2>4. RightDevice'
      BY <2>1, <2>3, <2>5, AtStays DEF Probed, RightDevice
    <2> QED BY <2>1, <2>2, <2>4 DEF Probed
  <1>2. ASSUME NEW s \in Specs, NEW m \in Modes, Call(s, m) PROVE Probed'
    BY <1>2 DEF Call, Probed, RightDevice
  <1>3. CASE Find
    <2>1. rc' = "none"
      BY <1>3 DEF Find, call, Waited, TypeOK
    <2>2. ASSUME pc' = "open", spec'.by = "uuid" PROVE PathOfUuid'
      <3>1. PICK stale \in SUBSET Empty : \E e \in Probe(stale) : Matches(e.uuid) /\ path' = e.at
        BY <1>3, <2>2 DEF Find, First, call
      <3>2. PICK e \in Probe(stale) : e.uuid = spec.of /\ path' = e.at
        BY <3>1 DEF Matches
      <3>3. UNCHANGED <<name, spec>>
        BY <1>3 DEF Find, call, kernel
      <3>4. Hidden(spec.of)' = Hidden(spec.of)
        BY <3>3 DEF Hidden, Arrived
      <3> QED BY <3>2, <3>3, <3>4, PathsOfListed DEF PathOfUuid
    <2> QED BY <2>1, <2>2 DEF Probed, RightDevice
  <1>4. CASE OpenOk
    <2>1. ASSUME spec.by = "uuid", ~(spec.of[2] = Whole /\ Hidden(spec.of)) PROVE At(path, spec.of)
      <3>1. PICK dev \in Devices : At(path, dev)
        BY <1>4 DEF OpenOk, Opens
      <3>2. PathOfUuid /\ spec.of \in Devices
        BY <1>4, <2>1 DEF OpenOk, Probed, TypeOK, Specs
      <3>3. dev[2] = spec.of[2] /\ (dev[2] = Whole \/ dev \in nodes)
        BY <3>1, <3>2 DEF At, PathOfUuid
      <3>4. spec.of[2] # Whole => dev[1] \notin Empty
        BY <3>3, DiskAssumption DEF Naming
      <3>5. dev[1] = spec.of[1]
        BY <2>1, <3>1, <3>2, <3>4 DEF At, PathOfUuid, Naming, Devices
      <3>6. dev = spec.of
        BY <3>2, <3>3, <3>5 DEF Devices
      <3> QED BY <3>1, <3>6
    <2> QED BY <1>4, <2>1 DEF OpenOk, Probed, RightDevice, At, kernel, call, Hidden, Arrived
  <1>5. CASE OpenFails \/ Sleep \/ GiveUp
    <2>1. pc' # "open" /\ (rc' = "ok" => rc = "ok" /\ pc # "idle")
      BY <1>5 DEF OpenFails, Sleep, GiveUp, call
    <2> QED BY <2>1 DEF Probed, RightDevice, Waited
  <1> QED BY <1>1, <1>2, <1>3, <1>4, <1>5 DEF Next, Serve

LEMMA InvInit == Init => Inv
  <1> SUFFICES ASSUME Init PROVE Inv
    OBVIOUS
  <1>1. Naming /\ Probed
    BY DEF Init, Naming, Probed, RightDevice
  <1> QED BY Inv0Init, <1>1 DEF Inv, Inv0

LEMMA InvStep == Inv /\ [Next]_vars => Inv'
  BY Inv0Step, NamingStep, ProbedStep DEF Inv, Inv0

LEMMA InvAlways == Spec => []Inv
  BY InvInit, InvStep, PTL DEF Spec

\* A partition opened by PARTUUID= is the partition with that UUID, for every
\* enumeration order and whatever the probing of empty disks picked up.
THEOREM RightDeviceAlways == Spec => []RightDevice
  <1>1. Inv => RightDevice
    BY DEF Inv, Probed
  <1> QED BY InvAlways, <1>1, PTL

-----------------------------------------------------------------------------
(* No device is missed but for an empty disk.                              *)

HiddenFromCall == spec.by = "uuid" /\ Hidden(spec.of)

Seen ==
    /\ pc # "idle" /\ there =>
        /\ InPlace(spec, mode)
        /\ pc = "failed" => HiddenFromCall
        /\ pc = "open" => HiddenFromCall \/ Opens(path, mode)
    /\ NeverMissed

\* A device in place stays in place.
LEMMA InPlaceStays ==
    ASSUME TypeOK, [Next]_vars, NEW s \in Specs, NEW m \in Modes, InPlace(s, m)
    PROVE  InPlace(s, m)'
  <1>1. ASSUME NEW p, Opens(p, m) PROVE Opens(p, m)'
    BY <1>1, AtStays DEF Opens, Writable
  <1>2. \A d \in Arrived : d \in Arrived' /\ name'[d] = name[d]
    <2>1. CASE \E d \in Disks, n \in Names : DiskArrives(d, n)
      BY <2>1 DEF DiskArrives, Arrived, TypeOK
    <2>2. CASE UNCHANGED name
      BY <2>2 DEF Arrived
    <2> QED BY <2>1, <2>2
        DEF Next, Kernel, PartArrives, Serve, Call, Find, OpenOk, OpenFails, Sleep, GiveUp,
            vars, kernel
  <1>3. CASE s.by = "path"
    BY <1>1, <1>3 DEF InPlace
  <1>4. CASE s.by # "path"
    BY <1>1, <1>2, <1>4 DEF InPlace, Carries
  <1> QED BY <1>3, <1>4

LEMMA SeenStep ==
    ASSUME TypeOK, Waited, Naming, Seen, [Next]_vars
    PROVE  Seen'
  <1> USE DEF TypeOK, Seen, NeverMissed
  <1>0. UNCHANGED spec /\ HiddenFromCall => HiddenFromCall'
    <2>1. \A dev \in Devices : Hidden(dev) => Hidden(dev)'
      BY HiddenStays
    <2> QED BY <2>1 DEF HiddenFromCall, Hidden, Arrived, Specs
  <1>1. CASE Kernel \/ UNCHANGED vars
    <2>1. UNCHANGED <<pc, spec, mode, path, rc, there>>
      BY <1>1 DEF Kernel, DiskArrives, PartArrives, call, vars
    <2>2. InPlace(spec, mode) => InPlace(spec, mode)'
      <3>1. \A s \in Specs, m \in Modes : InPlace(s, m) => InPlace(s, m)'
        BY InPlaceStays
      <3> QED BY <2>1, <3>1 DEF InPlace, Opens, At, Carries, Arrived
    <2>3. Opens(path, mode) => Opens(path, mode)'
      <3>1. \A p, m : Opens(p, m) => Opens(p, m)'
        BY AtStays DEF Opens, Writable
      <3> QED BY <2>1, <3>1 DEF Opens, At
    <2> QED BY <1>0, <2>1, <2>2, <2>3 DEF HiddenFromCall
  <1>2. ASSUME NEW s \in Specs, NEW m \in Modes, Call(s, m) PROVE Seen'
    BY <1>2 DEF Call, kernel, InPlace, Opens, At, Carries, Arrived, Writable
  <1>3. CASE Find
    <2>1. UNCHANGED <<name, nodes, spec, mode, rc, there>> /\ rc = "none" /\ pc = "find"
      BY <1>3 DEF Find, call, kernel, Waited
    <2>2. InPlace(spec, mode)' = InPlace(spec, mode)
      BY <2>1 DEF InPlace, Opens, At, Carries, Arrived
    <2>3. ASSUME there, spec.by = "path" PROVE pc' = "open" /\ Opens(path', mode)
      BY <1>3, <2>1, <2>3 DEF Find, InPlace
    <2>4. ASSUME there, spec.by = "uuid", ~Hidden(spec.of) PROVE pc' = "open" /\ Opens(path', mode)
      <3> DEFINE d == spec.of[1]
                 at == <<name[d], spec.of[2]>>
      <3>1. d \in Arrived \cap (Mbr \cup Gpt) /\ spec.of \in Carries(d) /\ Opens(at, mode)
        BY <2>1, <2>4 DEF InPlace
      <3>2. PICK stale \in SUBSET Empty :
                \/ \E e \in Probe(stale) : Matches(e.uuid) /\ path' = e.at /\ pc' = "open"
                \/ {e \in Probe(stale) : Matches(e.uuid)} = {}
        BY <1>3, <2>4 DEF Find, First
      <3>3. [at |-> at, uuid |-> spec.of] \in Probe(stale)
        <4>1. d \in Arrived \ Empty
          BY <3>1, DiskAssumption
        <4>2. [at |-> at, uuid |-> spec.of] \in Listed(d)
          BY <3>1 DEF Listed
        <4> QED BY <4>1, <4>2 DEF Probe
      <3>4. \A e \in Probe(stale) : Matches(e.uuid) => e.at = at
        <4> SUFFICES ASSUME NEW e \in Probe(stale), e.uuid = spec.of PROVE e.at = at
          BY DEF Matches
        <4>1. e.at \in Paths /\ e.at[2] = spec.of[2] /\ name[d] = e.at[1]
          BY <2>4, PathsOfListed
        <4> QED BY <4>1 DEF Paths
      <3> QED BY <3>1, <3>2, <3>3, <3>4 DEF Matches
    <2>5. Opens(path, mode)' = Opens(path', mode)
      BY <2>1 DEF Opens, At
    <2> QED BY <1>0, <2>1, <2>2, <2>3, <2>4, <2>5 DEF Specs, HiddenFromCall
  <1>4. CASE OpenOk
    BY <1>4 DEF OpenOk
  <1>5. CASE OpenFails
    BY <1>0, <1>5 DEF OpenFails, call, kernel, Waited, InPlace, Opens, At, Carries, Arrived
  <1>6. CASE Sleep
    BY <1>6 DEF Sleep, call, kernel, Waited, InPlace, Opens, At, Carries, Arrived
  <1>7. CASE GiveUp
    BY <1>0, <1>7 DEF GiveUp, HiddenFromCall
  <1> QED BY <1>1, <1>2, <1>3, <1>4, <1>5, <1>6, <1>7 DEF Next, Serve

\* For any disks, names and partitions: a call never fails on a device that was in place
\* when its last attempt began, unless it asked for an MBR disk, or a partition of one, by
\* UUID and an empty disk has a name before that disk's.
THEOREM NeverMissedAlways == Spec => []NeverMissed
  <1>1. Init => Seen
    BY DEF Init, Seen, NeverMissed
  <1>2. Inv /\ Seen /\ [Next]_vars => Seen'
    BY SeenStep DEF Inv
  <1>3. Seen => NeverMissed
    BY DEF Seen
  <1> QED BY <1>1, <1>2, <1>3, InvAlways, PTL DEF Spec

-----------------------------------------------------------------------------
(* The calls keep the promise of DeviceOpen.                               *)

Answered == rc = "ok" => \E dev \in Devices : At(path, dev)

LEMMA AnsweredStep == TypeOK /\ Waited /\ Answered /\ [Next]_vars => Answered'
  <1> SUFFICES ASSUME TypeOK, Waited, Answered, [Next]_vars, rc' = "ok"
               PROVE  \E dev \in Devices : At(path, dev)'
    BY DEF Answered, Devices
  <1>1. CASE Kernel \/ UNCHANGED vars
    <2>1. UNCHANGED <<path, rc>>
      BY <1>1 DEF Kernel, DiskArrives, PartArrives, call, vars
    <2>2. PICK dev \in Devices : At(path, dev)
      BY <2>1 DEF Answered
    <2>3. \A p : At(p, dev) => At(p, dev)'
      BY AtStays
    <2> QED BY <2>1, <2>2, <2>3 DEF At
  <1>2. CASE OpenOk
    BY <1>2 DEF OpenOk, Opens, At, kernel
  <1>3. CASE ~(Kernel \/ UNCHANGED vars \/ OpenOk)
    BY <1>3 DEF Next, Serve, Call, Find, OpenFails, Sleep, GiveUp, call, Waited
  <1> QED BY <1>1, <1>2, <1>3

\* A path found by UUID and opened is the device's, disk or partition.
LEMMA RightAnswer ==
    ASSUME Inv, OpenOk, NEW dev \in Devices, At(path, dev), spec.by = "uuid"
    PROVE  \/ dev = spec.of
           \/ spec.of \in Mbr \X {Whole} /\ dev \in Empty \X {Whole}
  <1>1. PathOfUuid /\ spec.of \in Devices
    BY DEF OpenOk, Inv, Probed, TypeOK, Specs
  <1>2. dev[2] = spec.of[2] /\ (dev[2] = Whole \/ dev \in nodes)
    BY <1>1 DEF PathOfUuid, At
  <1>3. dev[1] = spec.of[1] \/ (dev[1] \in Empty /\ spec.of[1] \in Mbr)
    BY <1>1 DEF PathOfUuid, At, Inv, Naming, Devices, Hidden
  <1>4. dev[1] \in Empty => dev \notin nodes
    BY DiskAssumption DEF Inv, Naming
  <1> QED BY <1>1, <1>2, <1>3, <1>4 DEF Devices

LEMMA PromiseInit == Init => Promise!Init
  <1> SUFFICES ASSUME Init PROVE Promise!Init
    OBVIOUS
  <1>1. Ready = {}
    BY DEF Init, Ready, Devices
  <1>2. [spec |-> spec, mode |-> mode] \in Request
    BY DEF Init, Request, Modes
  <1>3. slept = 0 /\ (pc # "idle") = FALSE /\ rc # "ok"
    BY DEF Init
  <1> QED BY <1>1, <1>2, <1>3 DEF Promise!Init

LEMMA PromiseStep ==
    ASSUME Inv, Inv', Answered, [Next]_vars
    PROVE  [Promise!Next]_(Promise!promise)
  <1> DEFINE Opened == IF rc = "ok" THEN {dev \in Devices : At(path, dev)} ELSE {}
  <1> USE DEF Inv, TypeOK
  <1>1. CASE Kernel
    <2>1. UNCHANGED <<slept, pc, spec, mode, path, rc>>
      BY <1>1 DEF Kernel, DiskArrives, PartArrives, call
    <2>2. Ready \subseteq Ready' /\ Ready' \subseteq Devices
      BY <1>1 DEF Kernel, DiskArrives, PartArrives, Ready, Devices
    <2>3. Opened' = Opened
      <3>1. CASE rc = "ok"
        <4>1. PICK dev \in Devices : At(path, dev)
          BY <3>1 DEF Answered
        <4>2. At(path, dev)'
          <5>1. \A p : At(p, dev) => At(p, dev)'
            BY AtStays
          <5> QED BY <2>1, <4>1, <5>1 DEF At
        <4>3. \A e \in Devices : At(path, e) => e = dev
          BY <4>1, AtOne
        <4>4. \A e \in Devices : At(path, e)' => e = dev
          BY <4>2 DEF At, Naming, Devices
        <4> QED BY <2>1, <3>1, <4>1, <4>2, <4>3, <4>4 DEF Devices
      <3>2. CASE rc # "ok"
        BY <2>1, <3>2
      <3> QED BY <3>1, <3>2
    <2>4. Promise!Appear
      BY <2>1, <2>2, <2>3 DEF Promise!Appear
    <2> QED BY <2>4 DEF Promise!Next
  <1>2. ASSUME NEW s \in Specs, NEW m \in Modes, Call(s, m) PROVE Promise!Next
    <2>1. [spec |-> s, mode |-> m] \in Request
      BY DEF Request
    <2>2. Promise!Ask([spec |-> s, mode |-> m])
      BY <1>2 DEF Call, Promise!Ask, kernel, Ready
    <2> QED BY <2>1, <2>2 DEF Promise!Next
  <1>3. CASE Find \/ OpenFails
    <2>1. rc = "none" /\ UNCHANGED <<name, nodes, slept, spec, mode, rc>>
          /\ pc # "idle" /\ pc' # "idle"
      BY <1>3 DEF Find, OpenFails, call, kernel, Waited
    <2> QED BY <2>1 DEF Promise!promise, Ready
  <1>4. CASE OpenOk
    <2>1. PICK dev \in Devices : At(path, dev) /\ Writable(dev, mode)
      BY <1>4 DEF OpenOk, Opens
    <2>2. dev \in Ready
      BY <2>1 DEF Ready, At
    <2>3. <<[spec |-> spec, mode |-> mode], dev>> \in Answers
      <3>1. spec.by = "uuid" =>
                dev = spec.of \/ (spec.of \in Mbr \X {Whole} /\ dev \in Empty \X {Whole})
        BY <1>4, <2>1, RightAnswer
      <3> QED BY <2>1, <3>1 DEF Answers, Request
    <2>4. Opened' = {dev}
      BY <1>4, <2>1, AtOne DEF OpenOk, kernel, At, Naming, Devices
    <2>5. Promise!Answer(dev)
      BY <1>4, <2>2, <2>3, <2>4 DEF OpenOk, kernel, Promise!Answer, Ready
    <2> QED BY <2>5 DEF Promise!Next
  <1>5. CASE Sleep
    <2>1. slept < Tries
      BY <1>5, DiskAssumption DEF Sleep, Waited, TriesLeft
    <2>2. rc = "none" /\ UNCHANGED <<name, nodes, spec, mode, rc>>
      BY <1>5 DEF Sleep, call, kernel, Waited
    <2>3. Promise!Wait
      BY <1>5, <2>1, <2>2 DEF Sleep, Promise!Wait, Ready
    <2> QED BY <2>3 DEF Promise!Next
  <1>6. CASE GiveUp
    <2>1. slept = Tries /\ rc = "none"
      BY <1>6, DiskAssumption DEF GiveUp, Waited, TriesLeft
    <2>2. Promise!GiveUp
      BY <1>6, <2>1 DEF GiveUp, kernel, Promise!GiveUp, Ready
    <2> QED BY <2>2 DEF Promise!Next
  <1>7. CASE UNCHANGED vars
    BY <1>7 DEF vars, Promise!promise, Ready, At
  <1> QED BY <1>1, <1>2, <1>3, <1>4, <1>5, <1>6, <1>7 DEF Next, Serve

\* For any disks, names, partitions and budget every behaviour of the polling loop over
\* a changing /dev is one of the promise: a request is answered with a ready device that
\* serves it, and given up only when the boot's whole budget is waited.
THEOREM PromiseKept == Spec => KeepsPromise
  <1>1. Init => Answered
    BY DEF Init, Answered
  <1>2. Inv /\ Answered /\ [Next]_vars => Answered'
    BY AnsweredStep DEF Inv
  <1>3. Inv /\ Inv' /\ Answered /\ [Next]_vars => [Promise!Next]_(Promise!promise)
    BY PromiseStep
  <1> QED BY <1>1, <1>2, <1>3, InvAlways, PromiseInit, PTL DEF Spec, KeepsPromise, Promise!Spec
=============================================================================
