------------------------------ MODULE EnvStore ------------------------------
(***************************************************************************)
(* What loadenv(), setenv() and saveenv() promise a script, without blocks,*)
(* checksums or lists.  The working environment is a map.  Each location   *)
(* holds one map or nothing that can be read.  A save replaces a map as a  *)
(* whole, by nothing if the new one has a name that cannot be read back;   *)
(* only a location that is not settled may fall back, at a restart, to     *)
(* nothing or to a map saved there earlier - never to a mixture.           *)
(***************************************************************************)
EXTENDS Integers

CONSTANTS Locs, Names, Values,
    Unreadable, \* the names a block cannot be read back with
    Fragments   \* [Locs -> set of maps], what a block that was there at first
                \* and is malformed gives up to where it is

Envs  == UNION {[S -> Values] : S \in SUBSET Names}
Empty == [n \in {} |-> n]

\* A slot is {} (unreadable) or {m} (the map m).
Slots(M) == {{}} \cup {{m} : m \in M}
Saved(m) == IF DOMAIN m \cap Unreadable = {} THEN {m} ELSE {}

VARIABLES
    env,        \* the working environment
    loaded,     \* uboot_env.loaded
    modified,   \* uboot_env.modified
    loc,        \* uboot_env.path, .start and .count
    saving,     \* how much of the map saveenv() has handed over, "no" outside it
    stored,     \* the slot a load would read at each location
    settled,    \* the locations whose slot survives a restart
    past        \* the maps an unsettled location may fall back to

store    == <<stored, settled, past>>
promised == <<env, loaded, modified, loc, saving, stored, settled, past>>

\* A settled map makes the earlier ones unreachable; new are the maps saved.
Remember(new) ==
    past' = [l \in Locs |-> IF l \in settled' /\ stored'[l] # {}
                            THEN stored'[l]
                            ELSE past[l] \cup stored'[l]
                                         \cup IF l = loc THEN new ELSE {}]

Init ==
    /\ env = Empty
    /\ loaded = FALSE
    /\ modified = FALSE
    /\ loc \in Locs
    /\ saving = "no"
    /\ stored \in [Locs -> Slots(Envs)]
    /\ settled = Locs
    /\ past \in [Locs -> SUBSET Envs]
    /\ \A l \in Locs : stored[l] \subseteq past[l]

Configure(l) ==
    /\ saving = "no"
    /\ loc' = l
    /\ UNCHANGED <<env, loaded, modified, saving>>
    /\ UNCHANGED store

Load ==
    /\ saving = "no"
    /\ stored[loc] = {env'}
    /\ loaded' = TRUE
    /\ modified' = FALSE
    /\ UNCHANGED <<loc, saving>>
    /\ UNCHANGED store

\* An unreadable slot costs the working environment: nothing is left of what it
\* was, nor is it what another location or a torn save has.
LoadNothing ==
    /\ saving = "no"
    /\ stored[loc] = {}
    /\ env' \in {Empty} \cup Fragments[loc]
    /\ loaded' = FALSE
    /\ modified' = FALSE
    /\ UNCHANGED <<loc, saving>>
    /\ UNCHANGED store

Set(n, v) ==
    /\ saving = "no"
    /\ env' = [m \in DOMAIN env \cup {n} |-> IF m = n THEN v ELSE env[m]]
    /\ modified' = TRUE
    /\ UNCHANGED <<loaded, loc, saving>>
    /\ UNCHANGED store

SaveBegins ==
    /\ saving = "no"
    /\ saving' = "whole"
    /\ stored' = [stored EXCEPT ![loc] = Saved(env)]
    /\ settled' \in {settled \cup {loc}, settled \ {loc}}
    /\ Remember({env})
    /\ UNCHANGED <<env, loaded, modified, loc>>

SaveCutShort ==
    /\ saving = "no"
    /\ saving' = "cut"
    /\ \E s \in Slots(past[loc] \cup {env}) : stored' = [stored EXCEPT ![loc] = s]
    /\ settled' \in {settled \cup {loc}, settled \ {loc}}
    /\ Remember({env})
    /\ UNCHANGED <<env, loaded, modified, loc>>

SaveReturns ==
    /\ saving # "no"
    /\ saving' = "no"
    /\ modified' = IF saving = "whole" THEN FALSE ELSE modified
    /\ UNCHANGED <<env, loaded, loc>>
    /\ UNCHANGED store

Settle ==
    /\ settled \subseteq settled'
    /\ settled' \subseteq Locs
    /\ Remember({})
    /\ UNCHANGED <<env, loaded, modified, loc, saving, stored>>

Restart ==
    /\ env' = Empty
    /\ loaded' = FALSE
    /\ modified' = FALSE
    /\ saving' = "no"
    /\ loc' \in Locs
    /\ stored' \in [Locs -> Slots(UNION {past[l] : l \in Locs})]
    /\ \A l \in Locs : IF l \in settled THEN stored'[l] = stored[l]
                                        ELSE stored'[l] \subseteq past[l]
    /\ settled' = Locs
    /\ Remember({})

Next ==
    \/ \E l \in Locs : Configure(l)
    \/ Load
    \/ LoadNothing
    \/ \E n \in Names, v \in Values : Set(n, v)
    \/ SaveBegins
    \/ SaveCutShort
    \/ SaveReturns
    \/ Settle
    \/ Restart

Spec == Init /\ [][Next]_promised
=============================================================================
