------------------------------ MODULE UBootEnv ------------------------------
(***************************************************************************)
(* The U-Boot environment block (src/uboot_env.c) and the script functions *)
(* that load, change and save it (src/script.c), over a block device whose *)
(* writes reach the storage later, in any order, and not at all if the     *)
(* machine restarts first.                                                 *)
(*                                                                         *)
(* The working environment is the linked list env->vars, most recent pair  *)
(* first.  A block is a checksum and a row of cells: a pair stands for the *)
(* bytes "name=value\0", End for the NUL after the last pair, Fill for the *)
(* 0xff bytes, Junk for bytes without '='.  The checksum is the row it was *)
(* computed over, which makes CRC-32 ideal.  Names are numbers in the      *)
(* order of strcmp(); NoName is the empty name.  Values hold no '='.       *)
(***************************************************************************)
EXTENDS Integers, Sequences, SequencesExt

CONSTANTS
    Names, Values,
    Locs,       \* the settings of uboot_env.path, .start and .count
    Default,    \* the setting a restarted script begins with
    Dev,        \* [Locs -> device], the device of each location
    Cap,        \* [Locs -> Nat], the cells of each location
    Initial,    \* [Locs -> set of blocks], what each may hold at first
    MaxWrites   \* bound: how often a block is written

NoName == 0

Pairs     == Names \X Values
Pair(p)   == [is |-> "pair", name |-> p[1], value |-> p[2]]
End       == [is |-> "end"]
Fill      == [is |-> "fill"]
Junk      == [is |-> "junk"]
Cells     == {Pair(p) : p \in Pairs} \cup {End, Fill, Junk}
Rows(l)   == [1 .. Cap[l] -> Cells]
Blocks(l) == [crc : Rows(l) \cup {<<>>}, data : Rows(l)]

\* No name occurs twice in a row.
Distinct(row) ==
    \A i, j \in DOMAIN row :
        row[i].is = "pair" /\ row[j].is = "pair" /\ row[i].name = row[j].name => i = j

\* Neither mkenvimage nor U-Boot writes a name twice.
ASSUME EnvAssumption ==
    /\ Names \subseteq Nat
    /\ Default \in Locs
    /\ Cap \in [Locs -> Nat \ {0}]
    /\ \A l \in Locs : \A b \in Initial[l] : b \in Blocks(l) /\ Distinct(b.crc)
    /\ MaxWrites \in Nat

VARIABLES
    vars,       \* env->vars
    loaded,     \* uboot_env.loaded
    modified,   \* uboot_env.modified
    loc,        \* the location the script's variables name
    pc,         \* "idle", or saveenv() waits in close() after a "whole" or
                \* a "cut" write
    cache,      \* what a read of each location returns
    disk,       \* what each location returns after a restart
    leaked,     \* the devices init left open
    home,       \* history: the location vars comes from, as a set
    touched,    \* history: the names set since
    past,       \* history: the maps an unsettled location may fall back to
    writes      \* bound: the blocks written so far

script  == <<vars, loaded, modified, loc, pc>>
storage == <<cache, disk, leaked, past, writes>>
history == <<home, touched>>
allvars == <<vars, loaded, modified, loc, pc, cache, disk, leaked, home, touched, past, writes>>

-----------------------------------------------------------------------------
\* The list as a map: the first pair with a name is the one found.
NamesOf(s)   == {s[i][1] : i \in DOMAIN s}
Getenv(s, n) == s[CHOOSE i \in DOMAIN s : s[i][1] = n /\ \A j \in 1 .. i - 1 : s[j][1] # n][2]
AsMap(s)     == [n \in NamesOf(s) |-> Getenv(s, n)]

\* uboot_env_read(): pairs are prepended until the first cell that is none.
\* "=value" is not a pair: the search for '=' starts after the first letter.
IsPair(c)    == c.is = "pair" /\ c.name # NoName
Stop(row)    == CHOOSE k \in 1 .. Len(row) + 1 :
                    /\ k <= Len(row) => ~IsPair(row[k])
                    /\ \A j \in 1 .. k - 1 : IsPair(row[j])
Parsed(row)  == Reverse([k \in 1 .. Stop(row) - 1 |-> <<row[k].name, row[k].value>>])
Parses(row)  == Stop(row) <= Len(row) => row[Stop(row)] = End

\* Mutant: the checksum is not compared.
IntactUnchecked(b) == TRUE

\* What uboot_env_read() has put into the list when it finds a block malformed.
FragmentsOf(l) == {AsMap(Parsed(b.crc)) : b \in {i \in Initial[l] : i.crc # <<>> /\ ~Parses(i.crc)}}

\* The checksum comparison of uboot_env_read().
Intact(b)    == b.crc = b.data
Holds(b)     == IF Intact(b) /\ Parses(b.data) THEN {AsMap(Parsed(b.data))} ELSE {}

\* The map, if there is one, that a checksum was computed over.
Summed(row)  == IF row = <<>> THEN {} ELSE Holds([crc |-> row, data |-> row])

\* Mutant: the extra NUL after the last pair is forgotten.
RowWithoutEnd(s, l) == [k \in 1 .. Cap[l] |-> IF k <= Len(s) THEN Pair(s[k]) ELSE Fill]

\* uboot_env_write(): the pairs, an End, and Fill up to the block's size.
HasRoom(s, l) == Len(s) < Cap[l]
Row(s, l)     == [k \in 1 .. Cap[l] |-> IF k <= Len(s) THEN Pair(s[k])
                                        ELSE IF k = Len(s) + 1 THEN End ELSE Fill]
Encode(s, l)  == [crc |-> Row(s, l), data |-> Row(s, l)]

\* uboot_env_sort(): qsort() by name.
Sorted(s) ==
    {[i \in DOMAIN s |-> s[p[i]]] :
        p \in {q \in Bijection(DOMAIN s, DOMAIN s) :
                 \A i, j \in DOMAIN s : i < j => s[q[i]][1] <= s[q[j]][1]}}

\* The block old with the parts K of new; part 0 is the checksum.
Mix(old, new, K) ==
    [crc  |-> IF 0 \in K THEN new.crc ELSE old.crc,
     data |-> [k \in DOMAIN old.data |-> IF k \in K THEN new.data[k] ELSE old.data[k]]]

\* History only: a location whose cache and disk agree on a readable block
\* can no longer fall back to an earlier map; new are the maps being saved.
Remember(new) ==
    past' = [l \in Locs |-> IF cache'[l] = disk'[l] /\ Holds(cache'[l]) # {}
                            THEN Holds(cache'[l])
                            ELSE past[l] \cup Holds(cache'[l])
                                         \cup IF l = loc THEN new ELSE {}]

-----------------------------------------------------------------------------
Init ==
    /\ vars = <<>>
    /\ loaded = FALSE
    /\ modified = FALSE
    /\ loc = Default
    /\ pc = "idle"
    /\ cache \in [Locs -> UNION {Initial[l] : l \in Locs}]
    /\ \A l \in Locs : cache[l] \in Initial[l]
    /\ disk = cache
    /\ leaked = {}
    /\ home = {}
    /\ touched = {}
    /\ past = [l \in Locs |-> Summed(cache[l].crc)]
    /\ writes = 0

\* The script assigns uboot_env.path, .start or .count.
SetLocation(l) ==
    /\ pc = "idle"
    /\ loc' = l
    /\ UNCHANGED <<vars, loaded, modified, pc>>
    /\ UNCHANGED storage
    /\ UNCHANGED history

\* loadenv() that cannot open, seek or read returns before it changes a thing,
\* so it needs no action.  These are the other three ways it ends.
LoadOk ==
    /\ pc = "idle"
    /\ Intact(cache[loc]) /\ Parses(cache[loc].data)
    /\ vars' = Parsed(cache[loc].data)
    /\ loaded' = TRUE
    /\ modified' = FALSE
    /\ home' = {loc}
    /\ touched' = {}
    /\ UNCHANGED <<loc, pc>>
    /\ UNCHANGED storage

LoadBadCrc ==
    /\ pc = "idle"
    /\ ~Intact(cache[loc])
    /\ vars' = <<>>
    /\ loaded' = FALSE
    /\ modified' = FALSE
    /\ home' = {}
    /\ touched' = {}
    /\ UNCHANGED <<loc, pc>>
    /\ UNCHANGED storage

\* "Invalid U-boot environment": the pairs before the bad one stay in vars.
LoadInvalid ==
    /\ pc = "idle"
    /\ Intact(cache[loc]) /\ ~Parses(cache[loc].data)
    /\ vars' = Parsed(cache[loc].data)
    /\ loaded' = FALSE
    /\ modified' = FALSE
    /\ home' = {}
    /\ touched' = {}
    /\ UNCHANGED <<loc, pc>>
    /\ UNCHANGED storage

\* Mutant: setenv always prepends.
SetenvPrepends(n, v) ==
    /\ pc = "idle"
    /\ Len(vars) < 3
    /\ vars' = <<<<n, v>>>> \o vars
    /\ modified' = TRUE
    /\ touched' = touched \cup {n}
    /\ UNCHANGED <<loaded, loc, pc, home>>
    /\ UNCHANGED storage

\* Mutant: the name is duplicated where the value should be.
SetenvCopiesName(n, v) ==
    /\ pc = "idle"
    /\ n \notin NamesOf(vars)
    /\ vars' = <<<<n, n>>>> \o vars
    /\ modified' = TRUE
    /\ touched' = touched \cup {n}
    /\ UNCHANGED <<loaded, loc, pc, home>>
    /\ UNCHANGED storage

\* uboot_env_setenv(): in place, or prepended.
Setenv(n, v) ==
    /\ pc = "idle"
    /\ \/ \E i \in DOMAIN vars :
            /\ vars[i][1] = n
            /\ \A j \in 1 .. i - 1 : vars[j][1] # n
            /\ vars' = [vars EXCEPT ![i] = <<n, v>>]
       \/ /\ n \notin NamesOf(vars)
          /\ vars' = <<<<n, v>>>> \o vars
    /\ modified' = TRUE
    /\ touched' = touched \cup {n}
    /\ UNCHANGED <<loaded, loc, pc, home>>
    /\ UNCHANGED storage

\* "Not enough room": the list is sorted, the descriptor is not closed.
SaveNoRoom ==
    /\ pc = "idle"
    /\ ~HasRoom(vars, loc)
    /\ vars' \in Sorted(vars)
    /\ leaked' = leaked \cup {Dev[loc]}
    /\ UNCHANGED <<loaded, modified, loc, pc, cache, disk, past, writes>>
    /\ UNCHANGED history

\* write() takes parts 0 .. n of the block: all of them, some, or none (-1).
SaveWrite(n) ==
    /\ pc = "idle"
    /\ HasRoom(vars, loc)
    /\ writes < MaxWrites
    /\ writes' = writes + 1
    /\ vars' \in Sorted(vars)
    /\ cache' = [cache EXCEPT ![loc] = Mix(cache[loc], Encode(vars', loc), 0 .. n)]
    /\ pc' = IF n = Cap[loc] THEN "whole" ELSE "cut"
    /\ home' = IF n = Cap[loc] THEN {loc} ELSE IF n < 0 THEN home ELSE home \ {loc}
    /\ touched' = IF n = Cap[loc] THEN {} ELSE touched
    /\ UNCHANGED <<loaded, modified, loc, disk, leaked>>
    /\ Remember({AsMap(vars)})

\* Mutant: the amount that write() returned is not looked at.
CloseIgnoresAmount ==
    /\ pc # "idle"
    /\ Dev[loc] \in leaked \/ \A l \in Locs : Dev[l] = Dev[loc] => cache[l] = disk[l]
    /\ modified' = FALSE
    /\ pc' = "idle"
    /\ UNCHANGED <<vars, loaded, loc>>
    /\ UNCHANGED storage
    /\ UNCHANGED history

\* close() returns when the device's last user has gone and its cache has been
\* written back, at once if somebody else still holds the device open.
Close ==
    /\ pc # "idle"
    /\ Dev[loc] \in leaked \/ \A l \in Locs : Dev[l] = Dev[loc] => cache[l] = disk[l]
    /\ modified' = IF pc = "whole" THEN FALSE ELSE modified
    /\ pc' = "idle"
    /\ UNCHANGED <<vars, loaded, loc>>
    /\ UNCHANGED storage
    /\ UNCHANGED history

\* The kernel writes parts back in any order.
WriteBack(l, k) ==
    /\ disk[l] # cache[l]
    /\ disk' = [disk EXCEPT ![l] = Mix(disk[l], cache[l], {k})]
    /\ disk' # disk
    /\ UNCHANGED <<cache, leaked, writes>>
    /\ Remember({})
    /\ UNCHANGED script
    /\ UNCHANGED history

\* Power is lost, or the script calls reboot(), which does not sync.
Restart ==
    /\ vars' = <<>>
    /\ loaded' = FALSE
    /\ modified' = FALSE
    /\ loc' = Default
    /\ pc' = "idle"
    /\ cache' = disk
    /\ leaked' = {}
    /\ home' = {}
    /\ touched' = {}
    /\ UNCHANGED <<disk, writes>>
    /\ Remember({})

Next ==
    \/ \E l \in Locs : SetLocation(l)
    \/ LoadOk
    \/ LoadBadCrc
    \/ LoadInvalid
    \/ \E n \in Names, v \in Values : Setenv(n, v)
    \/ SaveNoRoom
    \/ \E n \in -1 .. Cap[loc] : SaveWrite(n)
    \/ Close
    \/ \E l \in Locs : \E k \in 0 .. Cap[l] : WriteBack(l, k)
    \/ Restart

Spec == Init /\ [][Next]_allvars

-----------------------------------------------------------------------------
\* Type correctness.
TypeOK ==
    /\ vars \in Seq(Pairs)
    /\ loaded \in BOOLEAN
    /\ modified \in BOOLEAN
    /\ loc \in Locs
    /\ pc \in {"idle", "whole", "cut"}
    /\ \A l \in Locs : cache[l] \in Blocks(l) /\ disk[l] \in Blocks(l)
    /\ leaked \subseteq {Dev[l] : l \in Locs}
    /\ home \subseteq Locs
    /\ touched \subseteq Names
    /\ writes \in 0 .. MaxWrites

\* No name is twice in the list, whatever was loaded, set, sorted and reloaded:
\* uboot_env_getenv() and uboot_env_setenv() stop at the first match and qsort()
\* is not stable, so a second pair would make a saved value come and go.
UniqueNames == \A i, j \in DOMAIN vars : vars[i][1] = vars[j][1] => i = j

\* Between two calls, the location vars was loaded from (or saved to) holds
\* the same map except for the names set since, however often the list was
\* reversed and sorted, or cannot be read because a variable with an empty name
\* was saved there; and uboot_env.modified is FALSE only if there are none
\* (README.md:66, "True if something has modified the U-Boot block").
OnlyTouchedDiffer ==
    pc = "idle" =>
        \A l \in home :
            /\ \/ Holds(cache[l]) = {} /\ NoName \in NamesOf(vars)
               \/ \E m \in Holds(cache[l]) :
                    \A n \in Names \ touched :
                       /\ n \in DOMAIN m <=> n \in NamesOf(vars)
                       /\ n \in DOMAIN m => m[n] = Getenv(vars, n)
            /\ ~modified => touched = {}

\* What saveenv() returned from is what a restart finds, as long as no failed
\* saveenv() has left the device open: the whole map or, if a variable with an
\* empty name is in it, none of it.  That one is sorted to the front, and
\* uboot_env_read() looks for its '=' behind it (src/uboot_env.c:47-50).
SavedSurvives ==
    pc = "idle" => \A l \in home :
        touched = {} /\ Dev[l] \notin leaked =>
            Holds(disk[l]) = IF NoName \in NamesOf(vars) THEN {} ELSE {AsMap(vars)}

\* README.md:103, "Save all U-Boot variables back to storage": once saveenv()
\* has returned and nothing was set since, the storage has the variables.
SavedIsOnStorage ==
    pc = "idle" => \A l \in home : touched = {} => Holds(disk[l]) = {AsMap(vars)}

-----------------------------------------------------------------------------
\* Blocks, checksums, lists and write-back implement the store of EnvStore.
Store == INSTANCE EnvStore WITH
    Unreadable <- {NoName},
    Fragments  <- [l \in Locs |-> FragmentsOf(l)],
    env        <- AsMap(vars),
    saving     <- IF pc = "idle" THEN "no" ELSE pc,
    stored     <- [l \in Locs |-> Holds(cache[l])],
    settled    <- {l \in Locs : cache[l] = disk[l]}

\* A load returns a map that was saved as a whole, or it fails and leaves none of
\* the variables from before, only those that a malformed block, there from the
\* start, has in front of its fault (src/uboot_env.c:37-50).  A restart leaves
\* each location with what was saved last, with an earlier map if that save had
\* not reached the storage, or with nothing that passes the checksum.
IsStore == Store!Spec
=============================================================================
