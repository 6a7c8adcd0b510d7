--------------------------- MODULE UBootEnvProofs ---------------------------
(***************************************************************************)
(* What UBootEnv guarantees for any names, values, locations and sizes.    *)
(*                                                                         *)
(* Whether the list can name a variable twice depends on the blocks it may *)
(* be loaded from, and those are mixtures of several writes.  The          *)
(* invariant therefore speaks of checksums: a checksum on the device was   *)
(* computed over a row that names no variable twice (Inv), and a block is  *)
(* loaded only when its data is that row.  From there on the list is as    *)
(* good as the map it stands for, which the sort before a save leaves      *)
(* alone and the block keeps (HistInv); and since the checksums are those  *)
(* of maps that were there at first or were saved (PastInv), each step is  *)
(* one of the store of EnvStore.                                           *)
(***************************************************************************)
EXTENDS UBootEnv, SequenceTheorems, WellFoundedInduction, TLAPS

Sums ==
    \A l \in Locs :
        /\ cache[l] \in Blocks(l) /\ Distinct(cache[l].crc)
        /\ disk[l] \in Blocks(l) /\ Distinct(disk[l].crc)

Inv ==
    /\ vars \in Seq(Pairs)
    /\ UniqueNames
    /\ loc \in Locs
    /\ cache = [l \in Locs |-> cache[l]]
    /\ disk = [l \in Locs |-> disk[l]]
    /\ Sums

-----------------------------------------------------------------------------
(* Rows and lists.                                                         *)

\* The walk over a block stops at the first cell that is no pair, or at the end.
LEMMA StopProperties ==
    ASSUME NEW n \in Nat, NEW row \in [1 .. n -> Cells]
    PROVE  /\ Stop(row) \in 1 .. n + 1
           /\ Stop(row) <= n => ~IsPair(row[Stop(row)])
           /\ \A j \in 1 .. Stop(row) - 1 : IsPair(row[j])
  <1> DEFINE T == {k \in 1 .. n + 1 : k = n + 1 \/ ~IsPair(row[k])}
  <1>1. Len(row) = n
    OBVIOUS
  <1>2. n + 1 \in T /\ T \subseteq Nat
    OBVIOUS
  <1>3. \E k \in T : \A j \in T : ~(<<j, k>> \in OpToRel(<, Nat))
    BY <1>2, NatLessThanWellFounded, WFMin, Zenon
  <1>4. PICK k \in T : \A j \in T : ~(j < k)
    BY <1>2, <1>3 DEF OpToRel
  <1>5. \A j \in 1 .. k - 1 : IsPair(row[j])
    BY <1>4
  <1> QED BY <1>1, <1>4, <1>5 DEF Stop

LEMMA CellOfPair ==
    ASSUME NEW c \in Cells, c.is = "pair"
    PROVE  <<c.name, c.value>> \in Pairs
  <1>1. PICK p \in Pairs : c = Pair(p)
    BY DEF Cells, End, Fill, Junk
  <1> QED BY <1>1 DEF Pair, Pairs

LEMMA ParsedProperties ==
    ASSUME NEW n \in Nat, NEW row \in [1 .. n -> Cells], Distinct(row)
    PROVE  /\ Parsed(row) \in Seq(Pairs)
           /\ \A i, j \in DOMAIN Parsed(row) : Parsed(row)[i][1] = Parsed(row)[j][1] => i = j
  <1>1. PICK m \in 0 .. n : m = Stop(row) - 1 /\ \A j \in 1 .. m : IsPair(row[j])
    BY StopProperties
  <1> DEFINE e(k) == <<row[k].name, row[k].value>>
  <1>2. ASSUME NEW j \in 1 .. m PROVE e(j) \in Pairs /\ row[j].is = "pair" /\ row[j] \in Cells
    <2>1. row[j] \in Cells /\ row[j].is = "pair"
      BY <1>1 DEF IsPair
    <2> QED BY <2>1, CellOfPair
  <1>3. [k \in 1 .. Stop(row) - 1 |-> e(k)] = [k \in 1 .. m |-> e(k)]
    BY <1>1
  <1> HIDE DEF e
  <1>4. \A i \in 1 .. m : m - i + 1 \in 1 .. m
    OBVIOUS
  <1>5. Parsed(row) = [i \in 1 .. m |-> e(m - i + 1)]
    <2> DEFINE S == [k \in 1 .. m |-> e(k)]
    <2>1. Parsed(row) = Reverse(S)
      BY <1>3 DEF Parsed, e
    <2>2. Len(S) = m /\ \A i \in 1 .. m : S[m - i + 1] = e(m - i + 1)
      BY <1>4
    <2> HIDE DEF S
    <2>3. Reverse(S) = [i \in 1 .. m |-> S[m - i + 1]]
      BY <2>2 DEF Reverse
    <2> QED BY <2>1, <2>2, <2>3
  <1>6. Parsed(row) \in Seq(Pairs)
    BY <1>2, <1>4, <1>5
  <1>7. ASSUME NEW i \in 1 .. m, NEW j \in 1 .. m, Parsed(row)[i][1] = Parsed(row)[j][1]
        PROVE  i = j
    <2>1. row[m - i + 1].name = row[m - j + 1].name
      BY <1>4, <1>5, <1>7 DEF e
    <2>2. m - i + 1 \in DOMAIN row /\ m - j + 1 \in DOMAIN row
      OBVIOUS
    <2>3. m - i + 1 = m - j + 1
      BY <1>2, <1>4, <2>1, <2>2 DEF Distinct
    <2> QED BY <2>3
  <1> QED BY <1>5, <1>6, <1>7

Unique(s) == \A i, j \in DOMAIN s : s[i][1] = s[j][1] => i = j

LEMMA RowProperties ==
    ASSUME NEW l \in Locs, NEW s \in Seq(Pairs), Unique(s)
    PROVE  Encode(s, l) \in Blocks(l) /\ Distinct(Row(s, l))
  <1>1. Cap[l] \in Nat
    BY EnvAssumption
  <1>2. \A k \in 1 .. Len(s) : s[k] \in Pairs /\ Pair(s[k]) \in Cells
    BY DEF Cells
  <1>3. Row(s, l) \in Rows(l)
    BY <1>1, <1>2 DEF Row, Rows, Cells
  <1>4. \A k \in 1 .. Cap[l] : Row(s, l)[k].is = "pair" =>
            k \in 1 .. Len(s) /\ Row(s, l)[k].name = s[k][1]
    BY <1>1 DEF Row, Pair, End, Fill
  <1>5. Distinct(Row(s, l))
    BY <1>1, <1>3, <1>4 DEF Distinct, Unique, Rows
  <1> QED BY <1>3, <1>5 DEF Encode, Blocks

LEMMA SortedProperties ==
    ASSUME NEW s \in Seq(Pairs), Unique(s), NEW t \in Sorted(s)
    PROVE  t \in Seq(Pairs) /\ Unique(t)
  <1>1. PICK p \in Bijection(DOMAIN s, DOMAIN s) : t = [i \in DOMAIN s |-> s[p[i]]]
    BY DEF Sorted
  <1>2. p \in [DOMAIN s -> DOMAIN s] /\ \A i, j \in DOMAIN s : p[i] = p[j] => i = j
    BY DEF Bijection, Injection, IsInjective
  <1>3. DOMAIN s = 1 .. Len(s) /\ Len(s) \in Nat /\ \A i \in DOMAIN s : s[i] \in Pairs
    OBVIOUS
  <1>4. t \in Seq(Pairs)
    BY <1>1, <1>2, <1>3
  <1>5. Unique(t)
    BY <1>1, <1>2 DEF Unique
  <1> QED BY <1>4, <1>5

LEMMA MixProperties ==
    ASSUME NEW l \in Locs, NEW old \in Blocks(l), NEW new \in Blocks(l), NEW K,
           Distinct(old.crc), Distinct(new.crc)
    PROVE  Mix(old, new, K) \in Blocks(l) /\ Distinct(Mix(old, new, K).crc)
  <1>1. [k \in DOMAIN old.data |-> IF k \in K THEN new.data[k] ELSE old.data[k]] \in Rows(l)
    BY DEF Blocks, Rows
  <1> QED BY <1>1 DEF Mix, Blocks

-----------------------------------------------------------------------------
(* The invariant.                                                          *)

LEMMA LoadProperties ==
    ASSUME Inv, Intact(cache[loc])
    PROVE  Parsed(cache[loc].data) \in Seq(Pairs) /\ Unique(Parsed(cache[loc].data))
  <1>1. cache[loc].data \in [1 .. Cap[loc] -> Cells] /\ Distinct(cache[loc].data)
    BY DEF Inv, Sums, Intact, Blocks, Rows
  <1>2. Cap[loc] \in Nat
    BY EnvAssumption DEF Inv
  <1> QED BY <1>1, <1>2, ParsedProperties DEF Unique

LEMMA InvInit == Init => Inv
  <1> SUFFICES ASSUME Init PROVE Inv
    OBVIOUS
  <1>1. cache = [l \in Locs |-> cache[l]] /\ disk = [l \in Locs |-> disk[l]]
    BY DEF Init
  <1>2. Sums
    BY EnvAssumption DEF Init, Sums
  <1> QED BY <1>1, <1>2, EnvAssumption DEF Init, Inv, UniqueNames

LEMMA InvStep == Inv /\ [Next]_allvars => Inv'
  <1> SUFFICES ASSUME Inv, [Next]_allvars PROVE Inv'
    OBVIOUS
  <1> USE DEF Inv
  <1> DEFINE Stored == cache = [l \in Locs |-> cache[l]] /\ disk = [l \in Locs |-> disk[l]]
                       /\ Sums
  <1>0. UNCHANGED storage => Stored'
    BY DEF storage, Sums
  <1>1. ASSUME NEW l \in Locs, SetLocation(l) PROVE Inv'
    BY <1>0, <1>1 DEF SetLocation, UniqueNames
  <1>2. CASE LoadOk \/ LoadInvalid
    <2>1. vars' \in Seq(Pairs) /\ Unique(vars')
      BY <1>2, LoadProperties DEF LoadOk, LoadInvalid
    <2> QED BY <1>0, <1>2, <2>1 DEF LoadOk, LoadInvalid, UniqueNames, Unique
  <1>3. CASE LoadBadCrc
    BY <1>0, <1>3 DEF LoadBadCrc, UniqueNames
  <1>4. ASSUME NEW n \in Names, NEW v \in Values, Setenv(n, v) PROVE Inv'
    <2>1. CASE n \in NamesOf(vars)
      <3>1. PICK i \in DOMAIN vars : vars[i][1] = n /\ vars' = [vars EXCEPT ![i] = <<n, v>>]
        BY <1>4, <2>1 DEF Setenv
      <3>2. vars' \in Seq(Pairs) /\ UniqueNames'
        BY <3>1 DEF UniqueNames, Pairs
      <3> QED BY <1>0, <1>4, <3>2 DEF Setenv
    <2>2. CASE n \notin NamesOf(vars)
      <3>1. vars' = <<<<n, v>>>> \o vars
        BY <1>4, <2>2 DEF Setenv, NamesOf
      <3>2. \A i \in DOMAIN vars : vars[i][1] # n
        BY <2>2 DEF NamesOf
      <3>3. vars' \in Seq(Pairs) /\ UniqueNames'
        BY <3>1, <3>2 DEF UniqueNames, Pairs
      <3> QED BY <1>0, <1>4, <3>3 DEF Setenv
    <2> QED BY <2>1, <2>2
  <1>5. CASE SaveNoRoom
    <2>1. vars' \in Seq(Pairs) /\ Unique(vars')
      BY <1>5, SortedProperties DEF SaveNoRoom, UniqueNames, Unique
    <2> QED BY <1>5, <2>1 DEF SaveNoRoom, UniqueNames, Unique, Sums
  <1>6. ASSUME NEW n \in -1 .. Cap[loc], SaveWrite(n) PROVE Inv'
    <2>1. vars' \in Seq(Pairs) /\ Unique(vars')
      BY <1>6, SortedProperties DEF SaveWrite, UniqueNames, Unique
    <2>2. Encode(vars', loc) \in Blocks(loc) /\ Distinct(Encode(vars', loc).crc)
      BY <2>1, RowProperties DEF Encode
    <2>3. cache'[loc] \in Blocks(loc) /\ Distinct(cache'[loc].crc)
      BY <1>6, <2>2, MixProperties DEF SaveWrite, Sums
    <2>4. Stored'
      BY <1>6, <2>3 DEF SaveWrite, Sums
    <2> QED BY <1>6, <2>1, <2>4 DEF SaveWrite, UniqueNames, Unique
  <1>7. CASE Close
    BY <1>0, <1>7 DEF Close, UniqueNames
  <1>8. ASSUME NEW l \in Locs, NEW k \in 0 .. Cap[l], WriteBack(l, k) PROVE Inv'
    <2>1. disk'[l] \in Blocks(l) /\ Distinct(disk'[l].crc)
      BY <1>8, MixProperties DEF WriteBack, Sums
    <2>2. Stored'
      BY <1>8, <2>1 DEF WriteBack, Sums
    <2> QED BY <1>8, <2>2 DEF WriteBack, script, UniqueNames
  <1>9. CASE Restart
    BY <1>9, EnvAssumption DEF Restart, Sums, UniqueNames
  <1>10. CASE UNCHANGED allvars
    BY <1>10 DEF allvars, Sums, UniqueNames
  <1> QED BY <1>1, <1>2, <1>3, <1>4, <1>5, <1>6, <1>7, <1>8, <1>9, <1>10 DEF Next

\* Whatever mixture of writes a restart leaves on the device, no load, setenv
\* or sort ever puts a name into the list twice, so that getenv() and setenv()
\* speak of the same pair and the sort before a save has one result.
THEOREM UniqueNamesAlways == Spec => []UniqueNames
  <1>1. Inv => UniqueNames
    BY DEF Inv
  <1> QED BY InvInit, InvStep, <1>1, PTL DEF Spec

-----------------------------------------------------------------------------
(* Lists as maps.                                                          *)

PairsOf(s) == {s[i] : i \in DOMAIN s}

\* Where no name is twice, uboot_env_getenv() finds the value of each pair.
LEMMA GetenvFinds ==
    ASSUME NEW s \in Seq(Pairs), Unique(s), NEW i \in DOMAIN s
    PROVE  Getenv(s, s[i][1]) = s[i][2]
  <1> DEFINE P(k) == s[k][1] = s[i][1] /\ \A j \in 1 .. k - 1 : s[j][1] # s[i][1]
  <1>1. P(i)
    BY DEF Unique
  <1>2. \A k \in DOMAIN s : P(k) => k = i
    BY DEF Unique
  <1>3. (CHOOSE k \in DOMAIN s : P(k)) = i
    BY <1>1, <1>2
  <1> QED BY <1>3 DEF Getenv

LEMMA MapProperties ==
    ASSUME NEW s \in Seq(Pairs), Unique(s)
    PROVE  /\ NamesOf(s) \subseteq Names /\ DOMAIN AsMap(s) = NamesOf(s)
           /\ \A n \in NamesOf(s) : Getenv(s, n) \in Values /\ <<n, Getenv(s, n)>> \in PairsOf(s)
           /\ \A q \in PairsOf(s) : q[1] \in NamesOf(s) /\ Getenv(s, q[1]) = q[2]
           /\ AsMap(s) \in Store!Envs
  <1>1. \A i \in DOMAIN s : s[i] \in Pairs
    OBVIOUS
  <1>2. NamesOf(s) \subseteq Names /\ DOMAIN AsMap(s) = NamesOf(s)
    BY <1>1 DEF NamesOf, AsMap, Pairs
  <1>3. ASSUME NEW n \in NamesOf(s) PROVE Getenv(s, n) \in Values /\ <<n, Getenv(s, n)>> \in PairsOf(s)
    <2>1. PICK i \in DOMAIN s : n = s[i][1]
      BY DEF NamesOf
    <2>2. Getenv(s, n) = s[i][2] /\ s[i] = <<n, s[i][2]>> /\ s[i][2] \in Values
      BY <1>1, <2>1, GetenvFinds DEF Pairs
    <2> QED BY <2>2 DEF PairsOf
  <1>4. \A q \in PairsOf(s) : q[1] \in NamesOf(s) /\ Getenv(s, q[1]) = q[2]
    BY GetenvFinds DEF PairsOf, NamesOf
  <1>5. AsMap(s) \in [NamesOf(s) -> Values]
    BY <1>3 DEF AsMap
  <1> QED BY <1>2, <1>3, <1>4, <1>5 DEF Store!Envs

\* The map depends on the pairs only, not on their order.
LEMMA SameMap ==
    ASSUME NEW s \in Seq(Pairs), Unique(s), NEW t \in Seq(Pairs), Unique(t), PairsOf(s) = PairsOf(t)
    PROVE  /\ NamesOf(s) = NamesOf(t) /\ AsMap(s) = AsMap(t)
           /\ \A n \in NamesOf(s) : Getenv(s, n) = Getenv(t, n)
  <1>1. NamesOf(s) = {q[1] : q \in PairsOf(s)} /\ NamesOf(t) = {q[1] : q \in PairsOf(t)}
    BY DEF NamesOf, PairsOf
  <1>2. \A n \in NamesOf(s) : Getenv(s, n) = Getenv(t, n)
    <2> TAKE n \in NamesOf(s)
    <2>1. <<n, Getenv(s, n)>> \in PairsOf(t)
      BY MapProperties
    <2> QED BY <2>1, MapProperties
  <1> QED BY <1>1, <1>2 DEF AsMap

\* qsort() moves pairs about.
LEMMA SortedMap ==
    ASSUME NEW s \in Seq(Pairs), NEW t \in Sorted(s)
    PROVE  PairsOf(t) = PairsOf(s) /\ Len(t) = Len(s)
  <1>1. PICK p \in Bijection(DOMAIN s, DOMAIN s) : t = [i \in DOMAIN s |-> s[p[i]]]
    BY DEF Sorted
  <1>2. p \in [DOMAIN s -> DOMAIN s] /\ \A j \in DOMAIN s : \E i \in DOMAIN s : p[i] = j
    BY DEF Bijection, Surjection
  <1>3. DOMAIN t = DOMAIN s /\ DOMAIN s = 1 .. Len(s) /\ Len(s) \in Nat
    BY <1>1
  <1> QED BY <1>1, <1>2, <1>3 DEF PairsOf

\* uboot_env_setenv() changes the map at the one name.
LEMMA SetenvMap ==
    ASSUME Inv, NEW n \in Names, NEW v \in Values, Setenv(n, v),
           vars' \in Seq(Pairs), Unique(vars')
    PROVE  /\ NamesOf(vars') = NamesOf(vars) \cup {n}
           /\ \A m \in NamesOf(vars') : Getenv(vars', m) = IF m = n THEN v ELSE Getenv(vars, m)
  <1>1. vars \in Seq(Pairs) /\ Unique(vars)
    BY DEF Inv, UniqueNames, Unique
  <1>2. /\ <<n, v>> \in PairsOf(vars')
        /\ \A q \in PairsOf(vars') : q = <<n, v>> \/ q \in PairsOf(vars)
        /\ \A q \in PairsOf(vars) : q[1] = n \/ q \in PairsOf(vars')
    <2>1. CASE n \in NamesOf(vars)
      <3>1. PICK i \in DOMAIN vars : vars[i][1] = n /\ vars' = [vars EXCEPT ![i] = <<n, v>>]
        BY <2>1 DEF Setenv
      <3>2. DOMAIN vars' = DOMAIN vars /\ vars'[i] = <<n, v>> /\ \A j \in DOMAIN vars : j # i => vars'[j] = vars[j]
        BY <1>1, <3>1
      <3> QED BY <3>1, <3>2 DEF PairsOf
    <2>2. CASE n \notin NamesOf(vars)
      <3>1. vars' = <<<<n, v>>>> \o vars
        BY <2>2 DEF Setenv, NamesOf
      <3>2. /\ DOMAIN vars' = 1 .. Len(vars) + 1 /\ vars'[1] = <<n, v>> /\ DOMAIN vars = 1 .. Len(vars)
            /\ Len(vars) \in Nat
            /\ \A j \in 2 .. Len(vars) + 1 : vars'[j] = vars[j - 1]
            /\ \A j \in 1 .. Len(vars) : vars'[j + 1] = vars[j]
        BY <1>1, <3>1
      <3>3. /\ \A j \in DOMAIN vars' : j = 1 \/ (j \in 2 .. Len(vars) + 1 /\ j - 1 \in DOMAIN vars)
            /\ \A j \in DOMAIN vars : j + 1 \in DOMAIN vars'
        BY <3>2
      <3>4. ASSUME NEW j \in DOMAIN vars' PROVE vars'[j] = <<n, v>> \/ vars'[j] \in PairsOf(vars)
        <4>1. CASE j = 1
          BY <3>2, <4>1
        <4>2. CASE j # 1
          <5>1. j - 1 \in DOMAIN vars /\ vars'[j] = vars[j - 1]
            BY <3>2, <3>3, <4>2
          <5> QED BY <5>1 DEF PairsOf
        <4> QED BY <4>1, <4>2
      <3>5. ASSUME NEW j \in DOMAIN vars PROVE vars[j] \in PairsOf(vars')
        <4>1. j + 1 \in DOMAIN vars' /\ vars'[j + 1] = vars[j]
          BY <3>2, <3>3
        <4> QED BY <4>1 DEF PairsOf
      <3>6. 1 \in DOMAIN vars' /\ vars'[1] = <<n, v>>
        BY <3>2
      <3> HIDE <2>2, <3>1, <3>2, <3>3
      <3> QED BY <3>4, <3>5, <3>6 DEF PairsOf
    <2> QED BY <2>1, <2>2
  <1>3. NamesOf(vars) = {q[1] : q \in PairsOf(vars)} /\ NamesOf(vars') = {q[1] : q \in PairsOf(vars')}
    BY DEF NamesOf, PairsOf
  <1>4. NamesOf(vars') = NamesOf(vars) \cup {n}
    BY <1>2, <1>3
  <1>5. ASSUME NEW m \in NamesOf(vars') PROVE Getenv(vars', m) = IF m = n THEN v ELSE Getenv(vars, m)
    <2>1. CASE m = n
      BY <1>2, <2>1, MapProperties
    <2>2. CASE m # n
      <3>1. m \in NamesOf(vars)
        BY <1>4, <2>2
      <3>2. <<m, Getenv(vars, m)>> \in PairsOf(vars)
        BY <1>1, <3>1, MapProperties
      <3>3. <<m, Getenv(vars, m)>> \in PairsOf(vars')
        BY <1>2, <2>2, <3>2
      <3> QED BY <2>2, <3>3, MapProperties
    <2> QED BY <2>1, <2>2
  <1> QED BY <1>4, <1>5

-----------------------------------------------------------------------------
(* Blocks as maps.                                                         *)

LEMMA StopIs ==
    ASSUME NEW n \in Nat, NEW row \in [1 .. n -> Cells], NEW k \in 1 .. n + 1,
           k <= n => ~IsPair(row[k]), \A j \in 1 .. k - 1 : IsPair(row[j])
    PROVE  Stop(row) = k
  <1>1. PICK m \in 1 .. n + 1 : /\ m = Stop(row)
                                /\ m <= n => ~IsPair(row[m])
                                /\ \A j \in 1 .. m - 1 : IsPair(row[j])
    BY StopProperties
  <1>2. ASSUME m < k PROVE FALSE
    <2>1. m \in 1 .. k - 1 /\ m <= n
      BY <1>2
    <2> QED BY <1>1, <2>1
  <1>3. ASSUME k < m PROVE FALSE
    <2>1. k \in 1 .. m - 1 /\ k <= n
      BY <1>3
    <2> QED BY <1>1, <2>1
  <1>4. m = k
    BY <1>2, <1>3
  <1> QED BY <1>1, <1>4

\* What a row holds: the pairs up to the first cell that is none, backwards.
LEMMA ParsedMap ==
    ASSUME NEW n \in Nat, NEW row \in [1 .. n -> Cells], Distinct(row)
    PROVE  /\ Parsed(row) \in Seq(Pairs) /\ Unique(Parsed(row))
           /\ PairsOf(Parsed(row)) = {<<row[k].name, row[k].value>> : k \in 1 .. Stop(row) - 1}
           /\ NoName \notin NamesOf(Parsed(row))
  <1>1. PICK m \in 0 .. n : m = Stop(row) - 1 /\ \A j \in 1 .. m : IsPair(row[j])
    BY StopProperties
  <1>2. Parsed(row) \in Seq(Pairs) /\ Unique(Parsed(row))
    BY ParsedProperties DEF Unique
  <1> DEFINE e(k) == <<row[k].name, row[k].value>>
             S == [k \in 1 .. m |-> e(k)]
  <1>3. Parsed(row) = Reverse(S)
    BY <1>1 DEF Parsed
  <1>4. Len(S) = m /\ DOMAIN S = 1 .. m /\ \A k \in 1 .. m : S[k] = e(k)
    OBVIOUS
  <1> HIDE DEF S, e
  <1>5. Reverse(S) = [i \in 1 .. m |-> S[m - i + 1]]
    BY <1>4 DEF Reverse
  <1>6. \A i \in 1 .. m : m - i + 1 \in 1 .. m /\ m - (m - i + 1) + 1 = i
    OBVIOUS
  <1>7. DOMAIN Parsed(row) = 1 .. m /\ \A i \in 1 .. m : Parsed(row)[i] = e(m - i + 1)
    BY <1>3, <1>4, <1>5, <1>6
  <1>8. PairsOf(Parsed(row)) = {e(k) : k \in 1 .. m}
    BY <1>6, <1>7 DEF PairsOf
  <1>9. \A k \in 1 .. m : e(k)[1] # NoName
    BY <1>1 DEF e, IsPair
  <1>10. NoName \notin NamesOf(Parsed(row))
    BY <1>6, <1>7, <1>9 DEF NamesOf
  <1> QED BY <1>1, <1>2, <1>8, <1>10 DEF e

\* An intact block holds one map at most, and not one with an empty name.
LEMMA HoldsMap ==
    ASSUME NEW l \in Locs, NEW b \in Blocks(l), Distinct(b.crc), Holds(b) # {}
    PROVE  /\ Intact(b) /\ Parses(b.data)
           /\ Holds(b) = {AsMap(Parsed(b.data))}
           /\ Parsed(b.data) \in Seq(Pairs) /\ Unique(Parsed(b.data))
           /\ AsMap(Parsed(b.data)) \in Store!Envs /\ NoName \notin DOMAIN AsMap(Parsed(b.data))
  <1>1. Intact(b) /\ Parses(b.data) /\ Holds(b) = {AsMap(Parsed(b.data))}
    BY DEF Holds
  <1>2. b.data \in [1 .. Cap[l] -> Cells] /\ Distinct(b.data) /\ Cap[l] \in Nat
    BY <1>1, EnvAssumption DEF Intact, Blocks, Rows
  <1>3. Parsed(b.data) \in Seq(Pairs) /\ Unique(Parsed(b.data)) /\ NoName \notin NamesOf(Parsed(b.data))
    BY <1>2, ParsedMap
  <1> QED BY <1>1, <1>3, MapProperties

\* What uboot_env_write() encodes uboot_env_read() decodes, unless a variable
\* has an empty name.
LEMMA EncodedMap ==
    ASSUME NEW l \in Locs, NEW s \in Seq(Pairs), Unique(s), HasRoom(s, l)
    PROVE  Holds(Encode(s, l)) = IF NoName \in NamesOf(s) THEN {} ELSE {AsMap(s)}
  <1> DEFINE row == Row(s, l)
             n == Cap[l]
  <1>1. n \in Nat /\ Len(s) \in Nat /\ Len(s) < n /\ DOMAIN s = 1 .. Len(s)
    BY EnvAssumption DEF HasRoom
  <1>2. row \in [1 .. n -> Cells] /\ Distinct(row) /\ Len(row) = n
    BY <1>1, RowProperties DEF Encode, Blocks, Rows, Row
  <1>3. \A k \in 1 .. Len(s) : row[k] = Pair(s[k]) /\ s[k] \in Pairs
    BY <1>1 DEF Row
  <1>4. row[Len(s) + 1] = End
    BY <1>1 DEF Row
  <1>5. Holds(Encode(s, l)) = IF Parses(row) THEN {AsMap(Parsed(row))} ELSE {}
    BY DEF Holds, Encode, Intact
  <1> HIDE DEF row
  <1>6. ASSUME NEW k \in 1 .. Len(s)
        PROVE  /\ IsPair(row[k]) <=> s[k][1] # NoName
               /\ <<row[k].name, row[k].value>> = s[k] /\ row[k].is = "pair"
    <2>1. row[k] = [is |-> "pair", name |-> s[k][1], value |-> s[k][2]]
      BY <1>3 DEF Pair
    <2>2. s[k] = <<s[k][1], s[k][2]>>
      BY <1>3 DEF Pairs
    <2> QED BY <2>1, <2>2 DEF IsPair
  <1>7. CASE NoName \in NamesOf(s)
    <2>1. PICK k \in 1 .. Len(s) : ~IsPair(row[k])
      BY <1>1, <1>6, <1>7 DEF NamesOf
    <2>2. PICK m \in 1 .. n + 1 : m = Stop(row) /\ \A j \in 1 .. m - 1 : IsPair(row[j])
      BY <1>1, <1>2, StopProperties
    <2>3. m \in 1 .. Len(s)
      BY <1>1, <2>1, <2>2
    <2>4. row[m] # End /\ m <= Len(row)
      <3>1. row[m].is = "pair" /\ End.is = "end" /\ m <= n
        BY <1>1, <1>6, <2>3 DEF End
      <3> QED BY <1>2, <3>1
    <2>5. ~Parses(row)
      BY <2>2, <2>4 DEF Parses
    <2> QED BY <1>5, <1>7, <2>5
  <1>8. CASE NoName \notin NamesOf(s)
    <2>1. \A k \in 1 .. Len(s) : IsPair(row[k])
      BY <1>1, <1>6, <1>8 DEF NamesOf
    <2>2. Len(s) + 1 \in 1 .. n + 1 /\ (Len(s) + 1) - 1 = Len(s) /\ ~IsPair(row[Len(s) + 1])
      BY <1>1, <1>4 DEF End, IsPair
    <2>3. Stop(row) = Len(s) + 1
      BY <1>1, <1>2, <2>1, <2>2, StopIs
    <2>4. Parses(row)
      BY <1>4, <2>3 DEF Parses
    <2>5. Stop(row) - 1 = Len(s)
      BY <1>1, <2>3
    <2>6. PairsOf(Parsed(row)) = {s[k] : k \in 1 .. Len(s)}
      <3>1. PairsOf(Parsed(row)) = {<<row[k].name, row[k].value>> : k \in 1 .. Len(s)}
        BY <1>1, <1>2, <2>5, ParsedMap
      <3> QED BY <1>6, <3>1
    <2>7. AsMap(Parsed(row)) = AsMap(s)
      BY <1>1, <1>2, <2>6, ParsedMap, SameMap DEF PairsOf
    <2> QED BY <1>5, <1>8, <2>4, <2>7
  <1> QED BY <1>7, <1>8

\* A write that takes the whole block replaces it, one that takes nothing
\* leaves it.
LEMMA MixEnds ==
    ASSUME NEW l \in Locs, NEW old \in Blocks(l), NEW new \in Blocks(l)
    PROVE  Mix(old, new, 0 .. Cap[l]) = new /\ Mix(old, new, {}) = old
  <1>1. /\ DOMAIN old.data = 1 .. Cap[l] /\ Cap[l] \in Nat
        /\ old.data = [k \in 1 .. Cap[l] |-> old.data[k]] /\ new.data = [k \in 1 .. Cap[l] |-> new.data[k]]
        /\ old = [crc |-> old.crc, data |-> old.data] /\ new = [crc |-> new.crc, data |-> new.data]
    BY EnvAssumption DEF Blocks, Rows
  <1>2. 0 \in 0 .. Cap[l] /\ \A k \in 1 .. Cap[l] : k \in 0 .. Cap[l]
    BY <1>1
  <1>3. [k \in DOMAIN old.data |-> IF k \in 0 .. Cap[l] THEN new.data[k] ELSE old.data[k]] = new.data
    BY <1>1, <1>2
  <1>4. [k \in DOMAIN old.data |-> IF k \in {} THEN new.data[k] ELSE old.data[k]] = old.data
    BY <1>1
  <1> QED BY <1>1, <1>2, <1>3, <1>4 DEF Mix

-----------------------------------------------------------------------------
(***************************************************************************)
(* The list and the block it came from.  Between a save's write and its    *)
(* return the relation holds already, but the storage need not have the    *)
(* block yet: HistInv says which locations it has.                         *)
(***************************************************************************)
Agrees(l) ==
    \/ Holds(cache[l]) = {} /\ NoName \in NamesOf(vars)
    \/ \E m \in Holds(cache[l]) :
         \A n \in Names \ touched :
            /\ n \in DOMAIN m <=> n \in NamesOf(vars)
            /\ n \in DOMAIN m => m[n] = Getenv(vars, n)

HistInv ==
    /\ home \subseteq Locs
    /\ \A l \in home : Agrees(l)
    /\ ~modified => touched = {}
    /\ pc = "whole" => touched = {}
    /\ \A l \in Locs :
         cache[l] = disk[l] \/ Dev[l] \in leaked \/ (pc # "idle" /\ Dev[l] = Dev[loc])

\* The sort before a save leaves the map alone.
LEMMA SortKeepsMap ==
    ASSUME Inv, vars' \in Sorted(vars)
    PROVE  /\ vars' \in Seq(Pairs) /\ Unique(vars') /\ Len(vars') = Len(vars)
           /\ NamesOf(vars') = NamesOf(vars) /\ AsMap(vars') = AsMap(vars)
           /\ \A n \in NamesOf(vars) : Getenv(vars', n) = Getenv(vars, n)
  <1>1. vars \in Seq(Pairs) /\ Unique(vars)
    BY DEF Inv, UniqueNames, Unique
  <1>2. vars' \in Seq(Pairs) /\ Unique(vars')
    BY <1>1, SortedProperties
  <1> QED BY <1>1, <1>2, SortedMap, SameMap

\* What write() leaves in the cache: the whole block, at least its checksum, or
\* what was there.
LEMMA SaveBlock ==
    ASSUME Inv, NEW n \in -1 .. Cap[loc], SaveWrite(n)
    PROVE  /\ \A l \in Locs : l # loc => cache'[l] = cache[l]
           /\ n = Cap[loc] => cache'[loc] = Encode(vars', loc)
           /\ n < 0 => cache'[loc] = cache[loc]
           /\ n >= 0 => cache'[loc].crc = Row(vars', loc)
           /\ Holds(Encode(vars', loc)) = IF NoName \in NamesOf(vars) THEN {} ELSE {AsMap(vars)}
           /\ Encode(vars', loc) \in Blocks(loc) /\ Distinct(Row(vars', loc))
  <1>1. /\ loc \in Locs /\ cache[loc] \in Blocks(loc) /\ cache = [l \in Locs |-> cache[l]]
        /\ vars' \in Sorted(vars) /\ HasRoom(vars, loc)
        /\ cache' = [cache EXCEPT ![loc] = Mix(cache[loc], Encode(vars', loc), 0 .. n)]
    BY DEF Inv, Sums, SaveWrite
  <1>2. HasRoom(vars', loc)
    BY <1>1, SortKeepsMap DEF HasRoom
  <1>3. Encode(vars', loc) \in Blocks(loc) /\ Distinct(Row(vars', loc))
    BY <1>1, SortKeepsMap, RowProperties
  <1>4. Holds(Encode(vars', loc)) = IF NoName \in NamesOf(vars) THEN {} ELSE {AsMap(vars)}
    BY <1>1, <1>2, SortKeepsMap, EncodedMap
  <1>5. /\ cache'[loc] = Mix(cache[loc], Encode(vars', loc), 0 .. n)
        /\ \A l \in Locs : l # loc => cache'[l] = cache[l]
    BY <1>1
  <1>6. n = Cap[loc] => cache'[loc] = Encode(vars', loc)
    BY <1>1, <1>3, <1>5, MixEnds
  <1>7. n < 0 => cache'[loc] = cache[loc]
    <2> HAVE n < 0
    <2>1. 0 .. n = {}
      OBVIOUS
    <2> QED BY <1>1, <1>3, <1>5, <2>1, MixEnds
  <1>8. n >= 0 => cache'[loc].crc = Row(vars', loc)
    <2> HAVE n >= 0
    <2>1. 0 \in 0 .. n
      OBVIOUS
    <2> QED BY <1>5, <2>1 DEF Mix, Encode
  <1> QED BY <1>3, <1>4, <1>5, <1>6, <1>7, <1>8

\* A list with the same map agrees with the same blocks.
LEMMA AgreesStill ==
    ASSUME NEW l, Agrees(l), cache'[l] = cache[l], touched' = touched,
           NamesOf(vars') = NamesOf(vars), \A n \in NamesOf(vars) : Getenv(vars', n) = Getenv(vars, n)
    PROVE  Agrees(l)'
  <1>1. CASE Holds(cache[l]) = {} /\ NoName \in NamesOf(vars)
    BY <1>1 DEF Agrees
  <1>2. ASSUME NEW m \in Holds(cache[l]),
               \A n \in Names \ touched : /\ n \in DOMAIN m <=> n \in NamesOf(vars)
                                          /\ n \in DOMAIN m => m[n] = Getenv(vars, n)
        PROVE  Agrees(l)'
    BY <1>2 DEF Agrees
  <1> QED BY <1>1, <1>2 DEF Agrees

LEMMA HistStep == Inv /\ HistInv /\ [Next]_allvars => HistInv'
  <1> SUFFICES ASSUME Inv, HistInv, [Next]_allvars PROVE HistInv'
    OBVIOUS
  <1> USE DEF HistInv
  <1> DEFINE Synced == \A l \in Locs : cache[l] = disk[l] \/ Dev[l] \in leaked \/ (pc # "idle" /\ Dev[l] = Dev[loc])
  <1>1. ASSUME UNCHANGED <<vars, cache, touched, home>> PROVE \A l \in home' : Agrees(l)'
    BY <1>1, AgreesStill
  <1>2. ASSUME NEW l \in Locs, SetLocation(l) PROVE HistInv'
    BY <1>1, <1>2 DEF SetLocation, storage, history
  <1>3. CASE LoadOk
    <2>1. Holds(cache[loc]) = {AsMap(Parsed(cache[loc].data))} /\ loc \in Locs
      BY <1>3 DEF LoadOk, Holds, Inv
    <2>2. Agrees(loc)'
      BY <1>3, <2>1 DEF LoadOk, storage, Agrees, AsMap
    <2> QED BY <1>3, <2>1, <2>2 DEF LoadOk, storage
  <1>4. CASE LoadBadCrc \/ LoadInvalid
    BY <1>4 DEF LoadBadCrc, LoadInvalid, storage
  <1>5. ASSUME NEW n \in Names, NEW v \in Values, Setenv(n, v) PROVE HistInv'
    <2>1. vars' \in Seq(Pairs) /\ Unique(vars')
      <3>1. Inv'
        BY <1>5, InvStep DEF Next
      <3> QED BY <3>1 DEF Inv, UniqueNames, Unique
    <2>2. /\ NamesOf(vars') = NamesOf(vars) \cup {n} /\ touched' = touched \cup {n} /\ modified' = TRUE
          /\ \A k \in NamesOf(vars) \ {n} : Getenv(vars', k) = Getenv(vars, k)
          /\ UNCHANGED <<cache, disk, leaked, home, loc, pc>> /\ pc = "idle"
      BY <1>5, <2>1, SetenvMap DEF Setenv, storage
    <2>3. ASSUME NEW l \in home PROVE Agrees(l)'
      <3>1. CASE Holds(cache[l]) = {} /\ NoName \in NamesOf(vars)
        BY <2>2, <3>1 DEF Agrees
      <3>2. ASSUME NEW m \in Holds(cache[l]),
                   \A k \in Names \ touched : /\ k \in DOMAIN m <=> k \in NamesOf(vars)
                                              /\ k \in DOMAIN m => m[k] = Getenv(vars, k)
            PROVE  Agrees(l)'
        BY <2>2, <3>2 DEF Agrees
      <3> QED BY <3>1, <3>2 DEF Agrees
    <2> QED BY <2>2, <2>3
  <1>6. CASE SaveNoRoom
    <2>1. \A l \in home : Agrees(l)'
      BY <1>6, SortKeepsMap, AgreesStill DEF SaveNoRoom, history
    <2> QED BY <1>6, <2>1 DEF SaveNoRoom, history
  <1>7. ASSUME NEW n \in -1 .. Cap[loc], SaveWrite(n) PROVE HistInv'
    <2>1. /\ loc \in Locs /\ Cap[loc] \in Nat \ {0} /\ pc = "idle" /\ pc' \in {"whole", "cut"}
          /\ vars' \in Sorted(vars) /\ UNCHANGED <<loc, modified, leaked, disk>>
      BY <1>7, EnvAssumption DEF SaveWrite, Inv
    <2>2. Synced'
      BY <1>7, <2>1, SaveBlock
    <2>3. CASE n = Cap[loc]
      <3>1. home' = {loc} /\ touched' = {}
        BY <1>7, <2>3 DEF SaveWrite
      <3>2. Holds(cache'[loc]) = IF NoName \in NamesOf(vars') THEN {} ELSE {AsMap(vars')}
        BY <1>7, <2>1, <2>3, SaveBlock, SortKeepsMap
      <3>3. Agrees(loc)'
        BY <2>1, <3>2 DEF Agrees, AsMap
      <3> QED BY <2>1, <2>2, <3>1, <3>3
    <2>4. CASE n # Cap[loc]
      <3>1. /\ touched' = touched /\ pc' = "cut" /\ home' \subseteq home
            /\ \A l \in home' : cache'[l] = cache[l]
        BY <1>7, <2>1, <2>4, SaveBlock DEF SaveWrite
      <3>2. \A l \in home' : Agrees(l)'
        BY <2>1, <3>1, SortKeepsMap, AgreesStill
      <3> QED BY <2>1, <2>2, <3>1, <3>2
    <2> QED BY <2>3, <2>4
  <1>8. CASE Close
    <2>1. \A l \in home' : Agrees(l)'
      BY <1>1, <1>8 DEF Close, storage, history
    <2>2. Synced'
      BY <1>8 DEF Close, storage
    <2> QED BY <1>8, <2>1, <2>2 DEF Close, storage, history
  <1>9. ASSUME NEW l \in Locs, NEW k \in 0 .. Cap[l], WriteBack(l, k) PROVE HistInv'
    <2>1. /\ UNCHANGED <<vars, loaded, modified, loc, pc, cache, leaked, home, touched>>
          /\ cache[l] # disk[l] /\ \A j \in Locs : j # l => disk'[j] = disk[j]
      BY <1>9 DEF WriteBack, script, history, Inv
    <2> QED BY <1>1, <2>1
  <1>10. CASE Restart
    BY <1>10 DEF Restart
  <1>11. CASE UNCHANGED allvars
    BY <1>1, <1>11 DEF allvars
  <1> QED BY <1>2, <1>3, <1>4, <1>5, <1>6, <1>7, <1>8, <1>9, <1>10, <1>11 DEF Next

LEMMA HistInit == Init => HistInv
BY DEF Init, HistInv

\* For any number of variables, locations, writes and restarts: what the list
\* says of a name that was not set since is what the block says that it was
\* loaded from or saved to (src/uboot_env.c:27-170, README.md:66).
THEOREM OnlyTouchedDifferAlways == Spec => []OnlyTouchedDiffer
  <1>1. HistInv => OnlyTouchedDiffer
    BY DEF HistInv, OnlyTouchedDiffer, Agrees
  <1> QED BY InvInit, InvStep, HistInit, HistStep, <1>1, PTL DEF Spec

\* And once saveenv() has returned, without a descriptor that a failed one left
\* open, the block is on the storage (src/uboot_env.c:255-262).
THEOREM SavedSurvivesAlways == Spec => []SavedSurvives
  <1>1. Inv /\ HistInv => SavedSurvives
    <2> SUFFICES ASSUME Inv, HistInv, pc = "idle", NEW l \in home, touched = {}, Dev[l] \notin leaked
                 PROVE  Holds(disk[l]) = IF NoName \in NamesOf(vars) THEN {} ELSE {AsMap(vars)}
      BY DEF SavedSurvives
    <2>1. /\ l \in Locs /\ Agrees(l) /\ disk[l] = cache[l]
          /\ cache[l] \in Blocks(l) /\ Distinct(cache[l].crc)
          /\ vars \in Seq(Pairs) /\ Unique(vars)
      BY DEF HistInv, Inv, Sums, UniqueNames, Unique
    <2>2. CASE Holds(cache[l]) = {} /\ NoName \in NamesOf(vars)
      BY <2>1, <2>2
    <2>3. ASSUME NEW m \in Holds(cache[l]),
                 \A n \in Names : /\ n \in DOMAIN m <=> n \in NamesOf(vars)
                                  /\ n \in DOMAIN m => m[n] = Getenv(vars, n)
          PROVE  Holds(cache[l]) = {AsMap(vars)} /\ NoName \notin NamesOf(vars)
      <3>1. Holds(cache[l]) = {m} /\ NoName \notin DOMAIN m /\ m \in Store!Envs
        BY <2>1, HoldsMap
      <3>2. DOMAIN m \subseteq Names /\ m = [n \in DOMAIN m |-> m[n]]
        BY <3>1 DEF Store!Envs
      <3>3. DOMAIN m = NamesOf(vars)
        <4>1. NamesOf(vars) \subseteq Names
          BY <2>1, MapProperties
        <4>2. \A n \in Names : n \in DOMAIN m <=> n \in NamesOf(vars)
          BY <2>3
        <4> QED BY <3>2, <4>1, <4>2
      <3>4. m = AsMap(vars)
        BY <2>3, <3>2, <3>3 DEF AsMap
      <3> QED BY <3>1, <3>3, <3>4
    <2>4. \A n \in Names : n \notin touched
      OBVIOUS
    <2> QED BY <2>1, <2>2, <2>3, <2>4 DEF Agrees
  <1> QED BY InvInit, InvStep, HistInit, HistStep, <1>1, PTL DEF Spec

\* The variables keep their types; the blocks are of the size of their location
\* whatever mixture of writes they are.
THEOREM UBootEnvTypes == Spec => []TypeOK
  <1>0. MaxWrites \in Nat
    BY EnvAssumption
  <1>1. Init => TypeOK
    <2> SUFFICES ASSUME Init PROVE TypeOK
      OBVIOUS
    <2>1. Inv
      BY InvInit
    <2>2. /\ loaded = FALSE /\ modified = FALSE /\ pc = "idle" /\ leaked = {} /\ home = {} /\ touched = {}
          /\ writes = 0 /\ 0 \in 0 .. MaxWrites
      BY <1>0 DEF Init
    <2> QED BY <2>1, <2>2 DEF TypeOK, Inv, Sums
  <1>2. Inv /\ TypeOK /\ [Next]_allvars => TypeOK'
    <2> SUFFICES ASSUME Inv, TypeOK, [Next]_allvars PROVE TypeOK'
      OBVIOUS
    <2> USE DEF TypeOK
    <2>1. /\ vars' \in Seq(Pairs) /\ loc' \in Locs
          /\ \A l \in Locs : cache'[l] \in Blocks(l) /\ disk'[l] \in Blocks(l)
      BY InvStep DEF Inv, Sums
    <2>2. ASSUME NEW l \in Locs, SetLocation(l) PROVE TypeOK'
      BY <2>1, <2>2 DEF SetLocation, storage, history
    <2>3. CASE LoadOk \/ LoadBadCrc \/ LoadInvalid
      BY <2>1, <2>3 DEF LoadOk, LoadBadCrc, LoadInvalid, storage
    <2>4. ASSUME NEW n \in Names, NEW v \in Values, Setenv(n, v) PROVE TypeOK'
      BY <2>1, <2>4 DEF Setenv, storage
    <2>5. CASE SaveNoRoom
      BY <2>1, <2>5 DEF SaveNoRoom, history
    <2>6. ASSUME NEW n \in -1 .. Cap[loc], SaveWrite(n) PROVE TypeOK'
      <3>1. writes' \in 0 .. MaxWrites
        BY <1>0, <2>6 DEF SaveWrite
      <3> QED BY <2>1, <2>6, <3>1 DEF SaveWrite
    <2>7. CASE Close
      BY <2>1, <2>7 DEF Close, storage, history
    <2>8. ASSUME NEW l \in Locs, NEW k \in 0 .. Cap[l], WriteBack(l, k) PROVE TypeOK'
      BY <2>1, <2>8 DEF WriteBack, script, history
    <2>9. CASE Restart
      BY <2>1, <2>9 DEF Restart
    <2>10. CASE UNCHANGED allvars
      BY <2>1, <2>10 DEF allvars
    <2> QED BY <2>2, <2>3, <2>4, <2>5, <2>6, <2>7, <2>8, <2>9, <2>10 DEF Next
  <1> QED BY InvInit, InvStep, <1>1, <1>2, PTL DEF Spec

-----------------------------------------------------------------------------
(***************************************************************************)
(* Every checksum on the device, in the cache or on the disk, is that of a *)
(* map the location may fall back to; a block that is intact is the row    *)
(* its checksum was computed over.                                         *)
(***************************************************************************)
PastInv ==
    /\ past = [l \in Locs |-> past[l]]
    /\ \A l \in Locs : Summed(cache[l].crc) \cup Summed(disk[l].crc) \subseteq past[l]

\* What a block holds is among what its checksum was computed over.
LEMMA HoldsSummed ==
    ASSUME NEW l \in Locs, NEW b \in Blocks(l)
    PROVE  /\ Holds(b) \subseteq Summed(b.crc)
           /\ Intact(b) => Holds(b) = Summed(b.crc)
  <1>1. b.data # <<>>
    <2>1. DOMAIN b.data = 1 .. Cap[l] /\ 1 \in 1 .. Cap[l]
      BY EnvAssumption DEF Blocks, Rows
    <2>2. DOMAIN <<>> = {}
      OBVIOUS
    <2> QED BY <2>1, <2>2
  <1>2. ASSUME Intact(b) PROVE Holds(b) = Summed(b.crc)
    <2>1. b = [crc |-> b.crc, data |-> b.crc]
      BY <1>2 DEF Intact, Blocks
    <2>2. b.crc # <<>>
      BY <1>1, <1>2 DEF Intact
    <2> QED BY <2>1, <2>2 DEF Summed
  <1>3. ~Intact(b) => Holds(b) = {}
    BY DEF Holds
  <1> QED BY <1>2, <1>3

\* A map that a block, or its checksum, stands for is one of the store's.
LEMMA SummedMaps ==
    ASSUME NEW l \in Locs, NEW row \in Rows(l) \cup {<<>>}, Distinct(row)
    PROVE  Summed(row) \subseteq Store!Envs
  <1> SUFFICES ASSUME row # <<>>, Summed(row) # {} PROVE Summed(row) \subseteq Store!Envs
    BY DEF Summed
  <1> DEFINE b == [crc |-> row, data |-> row]
  <1>1. b \in Blocks(l) /\ Distinct(b.crc) /\ Summed(row) = Holds(b)
    BY DEF Blocks, Summed
  <1> QED BY <1>1, HoldsMap

\* The history of a location: what it can be read as and what was just saved,
\* or no more than what it can be read as once that is on the storage.
LEMMA RememberProperties ==
    ASSUME NEW new, Remember(new), NEW l \in Locs
    PROVE  /\ Holds(cache'[l]) \subseteq past'[l]
           /\ l = loc /\ ~(cache'[l] = disk'[l] /\ Holds(cache'[l]) # {}) => new \subseteq past'[l]
           /\ ~(cache'[l] = disk'[l] /\ Holds(cache'[l]) # {}) => past[l] \subseteq past'[l]
           /\ past' = [k \in Locs |-> past'[k]]
BY DEF Remember

\* It is enough that a step brings no checksum but of those known or saved.
LEMMA PastStill ==
    ASSUME Inv, Inv', PastInv, NEW new, Remember(new),
           \A l \in Locs : \A b \in {cache'[l], disk'[l]} :
               \/ b.crc \in {cache[l].crc, disk[l].crc}
               \/ l = loc /\ Summed(b.crc) \subseteq new
    PROVE  PastInv'
  <1> SUFFICES ASSUME NEW l \in Locs, NEW b \in {cache'[l], disk'[l]}
               PROVE  Summed(b.crc) \subseteq past'[l]
    <2>1. past' = [l \in Locs |-> past'[l]]
      BY DEF Remember
    <2> QED BY <2>1 DEF PastInv
  <1>1. CASE cache'[l] = disk'[l] /\ Holds(cache'[l]) # {}
    <2>1. b \in Blocks(l) /\ Distinct(b.crc) /\ b = cache'[l]
      BY <1>1 DEF Inv, Sums
    <2>2. Intact(b)
      BY <1>1, <2>1, HoldsMap
    <2> QED BY <2>1, <2>2, HoldsSummed, RememberProperties
  <1>2. CASE ~(cache'[l] = disk'[l] /\ Holds(cache'[l]) # {})
    <2>1. past[l] \subseteq past'[l] /\ (l = loc => new \subseteq past'[l])
      BY <1>2, RememberProperties
    <2> QED BY <2>1 DEF PastInv
  <1> QED BY <1>1, <1>2

LEMMA PastStep == Inv /\ PastInv /\ [Next]_allvars => PastInv'
  <1> SUFFICES ASSUME Inv, PastInv, [Next]_allvars PROVE PastInv'
    OBVIOUS
  <1>1. Inv'
    BY InvStep
  <1>2. CASE UNCHANGED <<cache, disk, past>>
    BY <1>2 DEF PastInv
  <1>3. ASSUME NEW n \in -1 .. Cap[loc], SaveWrite(n) PROVE PastInv'
    <2>1. Remember({AsMap(vars)}) /\ disk' = disk /\ vars' \in Sorted(vars) /\ loc \in Locs
      BY <1>3 DEF SaveWrite, Inv
    <2>2. Summed(Row(vars', loc)) \subseteq {AsMap(vars)}
      <3>1. Holds(Encode(vars', loc)) \subseteq {AsMap(vars)}
        BY <1>3, SaveBlock
      <3> QED BY <3>1 DEF Summed, Encode
    <2>3. cache'[loc].crc \in {cache[loc].crc, Row(vars', loc)}
      BY <1>3, SaveBlock
    <2>4. \A l \in Locs : l # loc => cache'[l] = cache[l]
      BY <1>3, SaveBlock
    <2> QED BY <1>1, <2>1, <2>2, <2>3, <2>4, PastStill
  <1>4. ASSUME NEW l \in Locs, NEW k \in 0 .. Cap[l], WriteBack(l, k) PROVE PastInv'
    <2>1. /\ Remember({}) /\ cache' = cache
          /\ \A j \in Locs : disk'[j] = IF j = l THEN Mix(disk[l], cache[l], {k}) ELSE disk[j]
      BY <1>4 DEF WriteBack, Inv
    <2>2. Mix(disk[l], cache[l], {k}).crc \in {cache[l].crc, disk[l].crc}
      BY DEF Mix
    <2> QED BY <1>1, <2>1, <2>2, PastStill
  <1>5. CASE Restart
    BY <1>1, <1>5, PastStill DEF Restart
  <1> QED BY <1>2, <1>3, <1>4, <1>5 DEF Next, SetLocation, LoadOk, LoadBadCrc, LoadInvalid, Setenv, SaveNoRoom,
                                        Close, allvars, storage

LEMMA PastInit == Init => PastInv
BY DEF Init, PastInv

-----------------------------------------------------------------------------
(***************************************************************************)
(* What a load leaves in the list when it finds the block malformed.  Each *)
(* checksum is that of a block that was there at first or of one that init *)
(* wrote, and those either parse or begin with the pair that does not.     *)
(***************************************************************************)
Known(row, l) ==
    \/ row = <<>>
    \/ \E i \in Initial[l] : row = i.crc
    \/ Parses(row)
    \/ Parsed(row) = <<>>

SumInv == \A l \in Locs : Known(cache[l].crc, l) /\ Known(disk[l].crc, l)

\* A row whose first cell is no pair holds nothing.
LEMMA NothingParsed ==
    ASSUME NEW n \in Nat \ {0}, NEW row \in [1 .. n -> Cells], ~IsPair(row[1])
    PROVE  Parsed(row) = <<>>
  <1>1. Stop(row) = 1
    BY StopIs
  <1> DEFINE S == [k \in 1 .. Stop(row) - 1 |-> <<row[k].name, row[k].value>>]
  <1>2. S = <<>>
    BY <1>1
  <1> HIDE DEF S
  <1>3. Reverse(<<>>) = <<>>
    BY DEF Reverse
  <1> QED BY <1>2, <1>3 DEF Parsed, S

\* qsort() puts an empty name first, and the walk stops there at once.
LEMMA SavedSum ==
    ASSUME Inv, NEW n \in -1 .. Cap[loc], SaveWrite(n)
    PROVE  Known(Row(vars', loc), loc)
  <1> DEFINE row == Row(vars', loc)
  <1>1. /\ loc \in Locs /\ Cap[loc] \in Nat \ {0} /\ Names \subseteq Nat
        /\ vars' \in Sorted(vars) /\ vars' \in Seq(Pairs) /\ NamesOf(vars') = NamesOf(vars)
        /\ vars \in Seq(Pairs)
    BY EnvAssumption, SortKeepsMap DEF SaveWrite, Inv
  <1>2. Holds(Encode(vars', loc)) = IF Parses(row) THEN {AsMap(Parsed(row))} ELSE {}
    BY DEF Holds, Encode, Intact
  <1>3. CASE NoName \notin NamesOf(vars)
    <2>1. Holds(Encode(vars', loc)) # {}
      BY <1>3, SaveBlock
    <2> QED BY <1>2, <2>1 DEF Known
  <1>4. CASE NoName \in NamesOf(vars)
    <2>1. PICK p \in Bijection(DOMAIN vars, DOMAIN vars) :
             /\ \A i, j \in DOMAIN vars : i < j => vars[p[i]][1] <= vars[p[j]][1]
             /\ vars' = [i \in DOMAIN vars |-> vars[p[i]]]
      BY <1>1 DEF Sorted
    <2>2. PICK k \in DOMAIN vars' : vars'[k][1] = NoName
      BY <1>1, <1>4 DEF NamesOf
    <2>3. 1 \in DOMAIN vars' /\ (k = 1 \/ 1 < k) /\ DOMAIN vars' = DOMAIN vars
      BY <1>1, <2>1, <2>2
    <2>4. vars'[1][1] \in Nat
      <3>1. vars'[1] \in Pairs
        BY <1>1, <2>3
      <3> QED BY <1>1, <3>1 DEF Pairs
    <2>5. k = 1 \/ vars'[1][1] <= vars'[k][1]
      BY <2>1, <2>3
    <2>6. vars'[1][1] = NoName
      BY <2>2, <2>4, <2>5 DEF NoName
    <2>7. row \in [1 .. Cap[loc] -> Cells] /\ row[1] = Pair(vars'[1])
      <3>1. Encode(vars', loc) \in Blocks(loc)
        BY SaveBlock
      <3>2. 1 \in 1 .. Cap[loc] /\ 1 <= Len(vars')
        BY <1>1, <2>3
      <3> QED BY <3>1, <3>2 DEF Encode, Blocks, Rows, Row
    <2>8. ~IsPair(row[1])
      BY <2>6, <2>7 DEF IsPair, Pair
    <2> HIDE DEF row
    <2>9. Parsed(row) = <<>>
      BY <1>1, <2>7, <2>8, NothingParsed
    <2> QED BY <2>9 DEF Known, row
  <1> QED BY <1>3, <1>4

LEMMA SumStep == Inv /\ SumInv /\ [Next]_allvars => SumInv'
  <1> SUFFICES ASSUME Inv, SumInv, [Next]_allvars PROVE SumInv'
    OBVIOUS
  <1>1. CASE UNCHANGED <<cache, disk>>
    BY <1>1 DEF SumInv
  <1>2. ASSUME NEW n \in -1 .. Cap[loc], SaveWrite(n) PROVE SumInv'
    <2>1. /\ disk' = disk /\ \A l \in Locs : l # loc => cache'[l] = cache[l]
          /\ cache'[loc].crc \in {cache[loc].crc, Row(vars', loc)} /\ loc \in Locs
      <3>1. loc \in Locs /\ Cap[loc] \in Nat
        BY EnvAssumption DEF Inv
      <3>2. n < 0 \/ n >= 0
        BY <3>1
      <3>3. cache'[loc].crc \in {cache[loc].crc, Row(vars', loc)}
        BY <1>2, <3>2, SaveBlock
      <3> QED BY <1>2, <3>1, <3>3, SaveBlock DEF SaveWrite
    <2>2. Known(Row(vars', loc), loc)
      BY <1>2, SavedSum
    <2> HIDE DEF Known
    <2> QED BY <2>1, <2>2 DEF SumInv
  <1>3. ASSUME NEW l \in Locs, NEW k \in 0 .. Cap[l], WriteBack(l, k) PROVE SumInv'
    <2>1. /\ cache' = cache
          /\ \A j \in Locs : disk'[j] = IF j = l THEN Mix(disk[l], cache[l], {k}) ELSE disk[j]
      BY <1>3 DEF WriteBack, Inv
    <2>2. Mix(disk[l], cache[l], {k}).crc \in {cache[l].crc, disk[l].crc}
      BY DEF Mix
    <2> QED BY <2>1, <2>2 DEF SumInv
  <1>4. CASE Restart
    BY <1>4 DEF Restart, SumInv
  <1> QED BY <1>1, <1>2, <1>3, <1>4 DEF Next, SetLocation, LoadOk, LoadBadCrc, LoadInvalid, Setenv, SaveNoRoom,
                                        Close, allvars, storage

LEMMA SumInit == Init => SumInv
BY DEF Init, SumInv, Known

\* A load that fails leaves the list empty, or with the front of a malformed
\* block that nobody has written since.
LEMMA FailedLoad ==
    ASSUME Inv, SumInv, LoadBadCrc \/ LoadInvalid
    PROVE  AsMap(vars') \in {Store!Empty} \cup FragmentsOf(loc)
  <1>1. AsMap(<<>>) = Store!Empty
    BY DEF AsMap, NamesOf, Store!Empty
  <1>2. CASE LoadBadCrc
    BY <1>1, <1>2 DEF LoadBadCrc
  <1>3. CASE LoadInvalid
    <2> DEFINE row == cache[loc].crc
    <2>1. vars' = Parsed(row) /\ ~Parses(row) /\ row = cache[loc].data
      BY <1>3 DEF LoadInvalid, Intact
    <2>2. row # <<>>
      <3>1. row \in [1 .. Cap[loc] -> Cells] /\ Cap[loc] \in Nat \ {0}
        BY <2>1, EnvAssumption DEF Inv, Sums, Blocks, Rows
      <3>2. 1 \in DOMAIN row
        BY <3>1
      <3> HIDE DEF row
      <3> QED BY <3>2
    <2>3. Parsed(row) = <<>> \/ \E i \in Initial[loc] : row = i.crc
      BY <2>1, <2>2 DEF SumInv, Known, Inv
    <2> QED BY <1>1, <2>1, <2>2, <2>3 DEF FragmentsOf
  <1> QED BY <1>2, <1>3

-----------------------------------------------------------------------------
(***************************************************************************)
(* UBootEnv implements EnvStore: each step is one of the store's, seen     *)
(* through AsMap and Holds, or leaves the store alone.                     *)
(***************************************************************************)

\* The slots of the store, and what is settled in it.
Slot(l)   == Holds(cache[l])
StoredAll == [l \in Locs |-> Holds(cache[l])]
Settled   == {l \in Locs : cache[l] = disk[l]}

LEMMA RememberRefines ==
    ASSUME NEW new, Remember(new)
    PROVE  Store!Remember(new)
BY DEF Remember, Store!Remember

LEMMA HoldsSlots ==
    ASSUME Inv, PastInv, NEW l \in Locs, NEW b \in {cache[l], disk[l]}
    PROVE  /\ Holds(b) \in Store!Slots(Store!Envs) /\ Holds(b) \subseteq past[l]
           /\ Holds(b) \in Store!Slots(past[l])
  <1>1. b \in Blocks(l) /\ Distinct(b.crc) /\ Summed(b.crc) \subseteq past[l]
    BY DEF Inv, Sums, PastInv
  <1>2. Holds(b) = {} \/ \E m \in Store!Envs : Holds(b) = {m}
    BY <1>1, HoldsMap
  <1>3. Holds(b) \subseteq past[l]
    BY <1>1, HoldsSummed
  <1> QED BY <1>2, <1>3 DEF Store!Slots

LEMMA RefinesInit == Init => Store!Init
  <1> SUFFICES ASSUME Init PROVE Store!Init
    OBVIOUS
  <1>1. Inv /\ PastInv
    BY InvInit, PastInit
  <1>2. AsMap(vars) = Store!Empty
    BY DEF Init, AsMap, NamesOf, Store!Empty
  <1>3. \A l \in Locs : Holds(cache[l]) \in Store!Slots(Store!Envs) /\ Holds(cache[l]) \subseteq past[l]
    BY <1>1, HoldsSlots
  <1>4. past \in [Locs -> SUBSET Store!Envs]
    <2>1. \A l \in Locs : cache[l].crc \in Rows(l) \cup {<<>>} /\ Distinct(cache[l].crc)
      BY <1>1 DEF Inv, Sums, Blocks
    <2> QED BY <2>1, SummedMaps DEF Init
  <1>5. loc \in Locs /\ {l \in Locs : cache[l] = disk[l]} = Locs /\ pc = "idle" /\ loaded = FALSE /\ modified = FALSE
    BY EnvAssumption DEF Init
  <1> QED BY <1>2, <1>3, <1>4, <1>5 DEF Store!Init

\* setenv() and the loads.
LEMMA RefinesScript ==
    ASSUME Inv, SumInv, [Next]_allvars,
           \/ \E l \in Locs : SetLocation(l)
           \/ LoadOk \/ LoadBadCrc \/ LoadInvalid
           \/ \E n \in Names, v \in Values : Setenv(n, v)
    PROVE  Store!Next
  <1>0. UNCHANGED <<cache, disk, past>> => UNCHANGED Store!store
    BY DEF Store!store
  <1>00. /\ vars' \in Seq(Pairs) /\ Unique(vars') /\ loc \in Locs
         /\ vars \in Seq(Pairs) /\ Unique(vars)
    BY InvStep DEF Inv, UniqueNames, Unique
  <1>1. ASSUME NEW l \in Locs, SetLocation(l) PROVE Store!Configure(l)
    BY <1>0, <1>1 DEF SetLocation, Store!Configure, storage
  <1>2. CASE LoadOk
    <2>1. Holds(cache[loc]) = {AsMap(vars')}
      BY <1>2 DEF LoadOk, Holds
    <2>2. Store!Load
      BY <1>0, <1>00, <1>2, <2>1 DEF LoadOk, Store!Load, storage
    <2> QED BY <2>2 DEF Store!Next
  <1>3. CASE LoadBadCrc \/ LoadInvalid
    <2>1. Holds(cache[loc]) = {}
      BY <1>3 DEF LoadBadCrc, LoadInvalid, Holds
    <2>2. AsMap(vars') \in {Store!Empty} \cup [l \in Locs |-> FragmentsOf(l)][loc]
      BY <1>00, <1>3, FailedLoad
    <2>3. Store!LoadNothing
      BY <1>0, <1>00, <1>3, <2>1, <2>2 DEF LoadBadCrc, LoadInvalid, Store!LoadNothing, storage
    <2> QED BY <2>3 DEF Store!Next
  <1>4. ASSUME NEW n \in Names, NEW v \in Values, Setenv(n, v) PROVE Store!Set(n, v)
    <2>1. AsMap(vars') = [m \in DOMAIN AsMap(vars) \cup {n} |-> IF m = n THEN v ELSE AsMap(vars)[m]]
      <3>1. /\ NamesOf(vars') = NamesOf(vars) \cup {n}
            /\ \A m \in NamesOf(vars') : Getenv(vars', m) = IF m = n THEN v ELSE Getenv(vars, m)
        BY <1>00, <1>4, SetenvMap
      <3> QED BY <3>1 DEF AsMap
    <2>2. pc = "idle" /\ modified' = TRUE /\ UNCHANGED <<loaded, loc, pc, cache, disk, past>>
      BY <1>4 DEF Setenv, storage
    <2> QED BY <1>0, <2>1, <2>2 DEF Store!Set
  <1> QED BY <1>1, <1>2, <1>3, <1>4 DEF Store!Next

\* saveenv(): all of the block, a part of it that does not pass the checksum
\* unless it is as good as all, or none.
LEMMA RefinesSave ==
    ASSUME Inv, PastInv, NEW n \in -1 .. Cap[loc], SaveWrite(n)
    PROVE  Store!SaveBegins \/ Store!SaveCutShort
  <1>1. /\ loc \in Locs /\ Cap[loc] \in Nat \ {0} /\ pc = "idle" /\ vars' \in Sorted(vars)
        /\ UNCHANGED <<loaded, modified, loc, disk>> /\ Remember({AsMap(vars)})
    BY EnvAssumption DEF SaveWrite, Inv
  <1>2. AsMap(vars') = AsMap(vars) /\ DOMAIN AsMap(vars) = NamesOf(vars)
    BY <1>1, SortKeepsMap DEF AsMap
  <1>3. Store!Remember({AsMap(vars)})
    BY <1>1 DEF Remember, Store!Remember
  <1>4. StoredAll' = [StoredAll EXCEPT ![loc] = Holds(cache'[loc])]
    BY <1>1, SaveBlock DEF StoredAll
  <1>5. Settled' \in {Settled \cup {loc}, Settled \ {loc}}
    BY <1>1, SaveBlock DEF Settled
  <1>6. CASE n = Cap[loc]
    <2>1. Holds(cache'[loc]) = Store!Saved(AsMap(vars))
      BY <1>2, <1>6, SaveBlock DEF Store!Saved
    <2>2. pc' = "whole"
      BY <1>6 DEF SaveWrite
    <2> QED BY <1>1, <1>2, <1>3, <1>4, <1>5, <2>1, <2>2 DEF Store!SaveBegins, StoredAll, Settled
  <1>7. CASE n # Cap[loc]
    <2>1. pc' = "cut"
      BY <1>7 DEF SaveWrite
    <2>2. Holds(cache'[loc]) \in Store!Slots(past[loc] \cup {AsMap(vars)})
      <3>1. CASE n < 0
        <4>1. cache'[loc] = cache[loc] /\ Holds(cache[loc]) \in Store!Slots(past[loc])
          BY <1>1, <3>1, SaveBlock, HoldsSlots
        <4> QED BY <4>1 DEF Store!Slots
      <3>2. CASE n >= 0
        <4>1. Holds(cache'[loc]) \in {{}, Holds(Encode(vars', loc))}
          <5>1. cache'[loc].crc = Row(vars', loc)
            BY <3>2, SaveBlock
          <5>2. Intact(cache'[loc]) => cache'[loc].data = Row(vars', loc)
            BY <5>1 DEF Intact
          <5> QED BY <5>1, <5>2 DEF Holds, Intact, Encode
        <4>2. Holds(Encode(vars', loc)) \in {{}, {AsMap(vars)}}
          BY SaveBlock
        <4> QED BY <4>1, <4>2 DEF Store!Slots
      <3> QED BY <3>1, <3>2
    <2> QED BY <1>1, <1>2, <1>3, <1>4, <1>5, <2>1, <2>2 DEF Store!SaveCutShort, StoredAll, Settled
  <1> QED BY <1>6, <1>7

LEMMA RefinesStep ==
    Inv /\ TypeOK /\ PastInv /\ SumInv /\ [Next]_allvars => [Store!Next]_(Store!promised)
  <1> SUFFICES ASSUME Inv, TypeOK, PastInv, SumInv, [Next]_allvars PROVE [Store!Next]_(Store!promised)
    OBVIOUS
  <1>1. CASE \/ \E l \in Locs : SetLocation(l)
             \/ LoadOk \/ LoadBadCrc \/ LoadInvalid
             \/ \E n \in Names, v \in Values : Setenv(n, v)
    BY <1>1, RefinesScript
  <1>2. CASE SaveNoRoom
    <2>1. AsMap(vars') = AsMap(vars)
      BY <1>2, SortKeepsMap DEF SaveNoRoom
    <2>2. UNCHANGED Store!promised
      BY <1>2, <2>1 DEF SaveNoRoom, Store!promised
    <2> QED BY <2>2
  <1>3. CASE \E n \in -1 .. Cap[loc] : SaveWrite(n)
    BY <1>3, RefinesSave DEF Store!Next
  <1>4. CASE Close
    <2>1. Store!SaveReturns
      BY <1>4 DEF Close, storage, TypeOK, Store!SaveReturns, Store!store
    <2> QED BY <2>1 DEF Store!Next
  <1>5. ASSUME NEW l \in Locs, NEW k \in 0 .. Cap[l], WriteBack(l, k)
        PROVE  Store!Settle
    <2>1. /\ UNCHANGED <<vars, loaded, modified, loc, pc, cache>> /\ cache[l] # disk[l] /\ Remember({})
          /\ \A j \in Locs : j # l => disk'[j] = disk[j]
      BY <1>5 DEF WriteBack, script, Inv
    <2>2. Settled \subseteq Settled' /\ Settled' \subseteq Locs
      BY <2>1 DEF Settled
    <2> QED BY <2>1, <2>2, RememberRefines DEF Store!Settle, Settled
  <1>6. CASE Restart
    <2>1. /\ vars' = <<>> /\ loaded' = FALSE /\ modified' = FALSE /\ pc' = "idle" /\ loc' \in Locs
          /\ cache' = disk /\ disk' = disk /\ Remember({})
      BY <1>6, EnvAssumption DEF Restart
    <2>2. AsMap(vars') = Store!Empty
      BY <2>1 DEF AsMap, NamesOf, Store!Empty
    <2>3. StoredAll' \in [Locs -> Store!Slots(UNION {past[l] : l \in Locs})]
      <3>1. \A l \in Locs : Holds(disk[l]) \in Store!Slots(past[l])
        BY HoldsSlots
      <3>2. \A l \in Locs : Holds(disk[l]) \in Store!Slots(UNION {past[k] : k \in Locs})
        BY <3>1 DEF Store!Slots
      <3> QED BY <2>1, <3>2 DEF StoredAll
    <2>4. \A l \in Locs : IF l \in Settled THEN StoredAll'[l] = StoredAll[l]
                                            ELSE StoredAll'[l] \subseteq past[l]
      BY <2>1, HoldsSlots DEF StoredAll, Settled
    <2>5. Settled' = Locs
      BY <2>1 DEF Settled
    <2>6. Store!Restart
      BY <2>1, <2>2, <2>3, <2>4, <2>5, RememberRefines DEF Store!Restart, StoredAll, Settled
    <2> QED BY <2>6 DEF Store!Next
  <1>7. CASE UNCHANGED allvars
    <2>1. UNCHANGED Store!promised
      BY <1>7 DEF allvars, Store!promised
    <2> QED BY <2>1
  <1> QED BY <1>1, <1>2, <1>3, <1>4, <1>5, <1>6, <1>7 DEF Next, Store!Next

\* For any names, values, locations and sizes, and any contents of the storage
\* at first: blocks, checksums, lists and write-back implement the store of
\* EnvStore.  A load returns a map that was saved as a whole, or fails and leaves
\* none of the variables from before, and a restart never leaves a mixture
\* (src/uboot_env.c:27-265).
THEOREM IsStoreAlways == Spec => IsStore
  <1> QED BY InvInit, InvStep, UBootEnvTypes, PastInit, PastStep, SumInit, SumStep, RefinesInit, RefinesStep, PTL DEF Spec, IsStore, Store!Spec
=============================================================================
