------------------------------- MODULE MCBoot -------------------------------
(***************************************************************************)
(* Instances of Boot for TLC: an initramfs with a configuration file, an   *)
(* init of its own, a directory with a socket in it and one to mount on.   *)
(***************************************************************************)
EXTENDS Boot, Sequences

Tree == [
    initramfs |-> {<<"dev", {"dev/console"}>>, <<"sys", {}>>, <<"proc", {}>>, <<"mnt", {}>>,
                   <<"conf", {}>>, <<"sbin", {"sbin/init"}>>, <<"run", {"run/log", "run/log/sock"}>>,
                   <<"data", {}>>},
    devtmpfs |-> {<<"dev/sda", {}>>},
    sysfs    |-> {<<"sys/block", {"sys/block/sda"}>>},
    procfs   |-> {<<"proc/1", {}>>},
    rootfs   |-> {<<"mnt/sbin", {"mnt/sbin/init"}>>},
    extra    |-> {<<"data/db", {}>>}]

OnFs(fs)  == {e[1] : e \in Tree[fs]} \cup UNION {e[2] : e \in Tree[fs]}
MCFiles   == UNION {OnFs(fs) : fs \in DOMAIN Tree}
MCFsOf    == [f \in MCFiles |-> CHOOSE fs \in DOMAIN Tree : f \in OnFs(fs)]
MCBelow   == [f \in MCFiles |->
    IF f = "run/log" THEN {"run/log/sock"}
    ELSE UNION {e[2] : e \in {x \in UNION {Tree[fs] : fs \in DOMAIN Tree} : x[1] = f}}]
MCTop     == {e[1] : e \in Tree["initramfs"]}
=============================================================================
