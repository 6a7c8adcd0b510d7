----------------------------- MODULE DeviceOpen -----------------------------
(***************************************************************************)
(* What open_block_device() promises its callers, without saying how it    *)
(* finds a device.  Devices become ready one after the other and stay      *)
(* ready.  One request is open at a time.  It is answered with a ready     *)
(* device that serves it, or given up, and it may be given up only once    *)
(* the waiting of ALL requests since boot adds up to Budget.               *)
(*                                                                         *)
(* The comment at block_device.c:276-278 is the source of the promise: "If *)
(* this is called multiple times and we've exhausted the wait time, then   *)
(* don't wait any longer.  We don't want a longer cumulative wait that     *)
(* depends on the contents of the script."                                 *)
(***************************************************************************)
EXTENDS Integers

CONSTANTS
    Devices,    \* the disks and partitions that can be opened
    Requests,   \* what a caller can ask for
    Serves,     \* the pairs <<r, d>> such that device d answers request r
    Budget      \* the waiting allowed over the whole boot, in milliseconds

VARIABLES
    ready,      \* the devices that can be opened now
    waited,     \* the milliseconds waited since boot
    asked,      \* the request being served, or the last one served
    busy,       \* TRUE while a request is being served
    opened      \* the device the last request was answered with, as a set

promise == <<ready, waited, asked, busy, opened>>

Init ==
    /\ ready = {}
    /\ waited = 0
    /\ asked \in Requests
    /\ busy = FALSE
    /\ opened = {}

Appear ==
    /\ ready' \in SUBSET Devices
    /\ ready \subseteq ready'
    /\ UNCHANGED <<waited, asked, busy, opened>>

Ask(r) ==
    /\ ~busy
    /\ busy' = TRUE
    /\ asked' = r
    /\ opened' = {}
    /\ UNCHANGED <<ready, waited>>

Wait ==
    /\ busy
    /\ waited < Budget
    /\ waited' = waited + 1
    /\ UNCHANGED <<ready, asked, busy, opened>>

Answer(d) ==
    /\ busy
    /\ d \in ready
    /\ <<asked, d>> \in Serves
    /\ opened' = {d}
    /\ busy' = FALSE
    /\ UNCHANGED <<ready, waited, asked>>

GiveUp ==
    /\ busy
    /\ waited = Budget
    /\ busy' = FALSE
    /\ UNCHANGED <<ready, waited, asked, opened>>

Next ==
    \/ Appear
    \/ \E r \in Requests : Ask(r)
    \/ Wait
    \/ \E d \in Devices : Answer(d)
    \/ GiveUp

Spec == Init /\ [][Next]_promise
=============================================================================
