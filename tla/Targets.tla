--------------------------------- MODULE Targets -------------------------------
(****************************************************************************)
(* What the commands promise about the configurations of the containers,    *)
(* one command at a time: every change is one whole edit.  A container is   *)
(* made or deleted; a device that is there on the host and not in the       *)
(* container is mounted; a device is unmounted only because its host path   *)
(* is gone or because it is the directory of another driver; a flag is set. *)
(* The requests, snapshots and retries of the programs are not visible.     *)
(****************************************************************************)
EXTENDS Naturals

CONSTANTS
    Names,      \* container names
    Dev,        \* device names
    Path,       \* host paths
    Nodes,      \* the host paths that come and go
    Drivers     \* driver directories

VARIABLES
    conf,       \* the configuration of each container, or NoTarget
    host,       \* the paths that exist
    nv          \* the driver directory in use, or "none"

NoTarget == [click |-> FALSE]

Exists(n) == conf[n] # NoTarget

Make(n) ==
    /\ ~Exists(n)
    /\ \E b \in BOOLEAN :
         conf' = [conf EXCEPT ![n] = [click |-> TRUE, updates |-> b,
                                      devs |-> [d \in Dev |-> "none"]]]

Remove(n) == Exists(n) /\ conf' = [conf EXCEPT ![n] = NoTarget]

Mount(n, d) ==
    /\ Exists(n) /\ conf[n].devs[d] = "none"
    /\ \E path \in host : conf' = [conf EXCEPT ![n].devs[d] = path]

Unmount(n, d) ==
    /\ Exists(n)
    /\ \/ conf[n].devs[d] \in Path \ host
       \/ d = "nv-bin" /\ conf[n].devs[d] \notin {"none", nv}
    /\ conf' = [conf EXCEPT ![n].devs[d] = "none"]

Flag(n) ==
    /\ Exists(n)
    /\ conf' = [conf EXCEPT ![n].updates = ~@]

Edits ==
    /\ \E n \in Names :
         \/ Make(n) \/ Remove(n) \/ Flag(n)
         \/ \E d \in Dev : Mount(n, d) \/ Unmount(n, d)
    /\ UNCHANGED <<host, nv>>

HostChanges ==
    /\ \/ \E x \in Nodes : host' = (host \ {x}) \cup ({x} \ host)
       \/ \E d \in Drivers : host' = (host \ {nv}) \cup {d}
    /\ nv' \in Drivers \cup {"none"}
    /\ UNCHANGED conf

Spec == [][Edits \/ HostChanges]_<<conf, host, nv>>
================================================================================
