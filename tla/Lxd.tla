---------------------------------- MODULE Lxd ----------------------------------
(****************************************************************************)
(* What the SDK tools see of the LXD server and of the host: the containers *)
(* with their configurations, the files of the host the fixables look at,   *)
(* the installed nvidia driver and the network of the default profile.      *)
(* The server is not part of the repository.  Its answers are modelled from *)
(* the way helpers.go, the fixables and the vendored client use them.       *)
(****************************************************************************)
EXTENDS Naturals, Sequences, FiniteSets, SequencesExt

CONSTANTS
    Names,      \* container names
    Procs,      \* invocations of usdk-target or usdk-wrapper
    Users,      \* users of the host; each also names its home and home_of_<u>.
                \* "nouser" stands for an environment that names nobody
    Cards,      \* nodes /dev/dri/card*
    NvNodes,    \* nodes /dev/nvidia*
    Drivers     \* directories /usr/lib/nvidia-<version>

(* A node is used as a device name and as the path of the device, as the    *)
(* fixables do; home_of_<u> is written u.                                   *)
Dev == Cards \cup NvNodes \cup Users \cup {"nv-bin", "tmp"}
Path == Cards \cup NvNodes \cup Users \cup Drivers \cup {"tmp"}

ASSUME LxdAssumption ==
    /\ IsFiniteSet(Names) /\ IsFiniteSet(Cards) /\ IsFiniteSet(NvNodes)
    /\ "none" \notin Path /\ "unchecked" \notin Path
    /\ "nobody" \notin Procs
    /\ {"root", "nouser"} \subseteq Users

VARIABLES
    ct,         \* the containers of the server, by name
    host,       \* the device nodes and directories present on the host
    nv,         \* what /sys/module/nvidia/version names, or "none"
    net         \* managed bridges with an IPv4 subnet, and the parent of eth0

server == <<ct, net>>
world == <<ct, host, nv, net>>

(* "none" is the absence of the device; "unchecked" a device whose host     *)
(* path DevicesFixable never looks at (optional, or with major and minor).  *)
DevValue == Path \cup {"none", "unchecked"}

(* click: both user.click-architecture and user.click-framework are set.    *)
(* updates: user.click-updates-enabled is "true" (absent reads as "false"). *)
Config == [click: BOOLEAN, updates: BOOLEAN, devs: [Dev -> DevValue]]

NoDevs == [d \in Dev |-> "none"]
NoConfig == [click |-> FALSE, updates |-> FALSE, devs |-> NoDevs]

(* access: the directory of the container has mode 0755.  ldconf: whether   *)
(* etc/ld.so.conf.d/01-nvidia.conf exists and ldconfig has seen it.         *)
(* owner is a history variable: the invocation whose Init made it.          *)
Container ==
    [status: {"Absent", "Stopped", "Running", "Frozen"}, eph: BOOLEAN,
     cfg: Config, access: BOOLEAN, ldconf: {"absent", "written", "loaded"},
     users: SUBSET Users, owner: Procs \cup {"nobody"}]

NoContainer ==
    [status |-> "Absent", eph |-> FALSE, cfg |-> NoConfig, access |-> FALSE,
     ldconf |-> "absent", users |-> {}, owner |-> "nobody"]

Bridge == {"sdkbr0", "other"}
Net == [bridges: SUBSET Bridge, eth0: Bridge \cup {"none"}]

Present(n) == ct[n].status # "Absent"

(* Mutant of ClickTargets: the click keys are not looked at.                *)
ClickTargetsAll == {n \in Names : Present(n)}

(* FindClickTargets keeps the listed containers that have both click keys.  *)
ClickTargets == {n \in Names : Present(n) /\ ct[n].cfg.click}

(* lxdBridgeConfigured: some managed bridge has an ipv4.address.            *)
BridgeConfigured == net.bridges # {}

(* The server refuses to start a container one of whose devices is missing  *)
(* on the host.                                                             *)
Startable(n) ==
    /\ ct[n].status = "Stopped"
    /\ \A d \in Dev : ct[n].cfg.devs[d] \in Path => ct[n].cfg.devs[d] \in host

(* A stopped ephemeral container is deleted by the server.                  *)
AfterStop(c) == IF c.eph THEN NoContainer ELSE [c EXCEPT !.status = "Stopped"]

(* The order of a listing and of a glob: any fixed one, the names of the    *)
(* model have no order.                                                     *)
Listed(S) == SetToSeq(S)

LxdTypeOK ==
    /\ ct \in [Names -> Container]
    /\ host \in SUBSET Path
    /\ nv \in Drivers \cup {"none"}
    /\ net \in Net
================================================================================
