-------------------------------- MODULE Accounts -------------------------------
(****************************************************************************)
(* usdk-target register: how a user of the host, with the primary and       *)
(* perhaps the supplementary groups, is made known in a container           *)
(* (register.go, passwd.go).  The order of its requests and what create     *)
(* does with an error are in Target; here they work on numeric ids, group   *)
(* names and the database of the container.                                 *)
(****************************************************************************)
EXTENDS Startup

VARIABLES
    scene,      \* users and groups of the host, among the rest of a scenario
    line,       \* the command line and environment of each invocation
    groups,     \* the groups of the container
    accounts,   \* its users; by is the register that made one, or "nobody"
    homes,      \* the users whose home is mounted
    running,
    seen,       \* the devices that the GET of AddDeviceSync returned
    left,       \* positions of the required groups still to be added
    suppl       \* supplGroups

ASSUME AccountsAssumption == "nobody" \notin Runs

guest == <<groups, accounts, homes, running>>
registering == <<seen, left, suppl>>

(* userFromEnv: SUDO_UID before PKEXEC_UID.                                 *)
UserFromEnv(l) == IF l.sudo # "none" THEN l.sudo ELSE l.pkexec

User(p) == IF line[p].user # "none" THEN line[p].user ELSE UserFromEnv(line[p])

(* How flags ends: userFromEnv comes first, and its nil is dereferenced     *)
(* also if -u is given.                                                     *)
Flags(l) ==
    IF UserFromEnv(l) = "none" THEN "panic"
    ELSE IF UserFromEnv(l) \in DOMAIN scene.users THEN "load" ELSE "die"

(* Getpwnam: Gid is filled from pw_uid.                                     *)
Uid(u) == scene.users[u].uid
PwGid(u) == Uid(u)

Positions == DOMAIN scene.groups
Primary(u) == {i \in Positions : scene.groups[i].gid = PwGid(u)}
MemberOf(u) == {i \in Positions : u \in scene.groups[i].members}
First(S) == {i \in S : \A j \in S : i <= j}

(* Mutant of RequiredGroups: the loop ends at the primary group also if the *)
(* supplementary groups are wanted.                                         *)
RequiredGroupsBreak(u, sup) ==
    IF sup THEN {i \in Primary(u) \cup MemberOf(u) : \A j \in Primary(u) : i <= j}
    ELSE First(Primary(u))

(* Mutant of RequiredGroups: every group is required.                       *)
RequiredGroupsAll(u, sup) == IF sup THEN Positions ELSE First(Primary(u))

RequiredGroups(u, sup) ==
    IF sup THEN Primary(u) \cup MemberOf(u) ELSE First(Primary(u))

Boot(p) ==
    /\ pc[p] = "boot"
    /\ running' = TRUE /\ Go(p, "look")
    /\ UNCHANGED <<groups, accounts, homes, registering>>

(* Getpwnam, the refusal of root, Getspnam, GetGroups.                      *)
QueryUser(p) ==
    /\ pc[p] = "look"
    /\ \/ /\ User(p) \in DOMAIN scene.users /\ Uid(User(p)) # 0
          /\ left' = [left EXCEPT ![p] = RequiredGroups(User(p), line[p].sup)]
          /\ Go(p, "get")
       \/ /\ User(p) \in DOMAIN scene.users => Uid(User(p)) = 0
          /\ Go(p, "error") /\ UNCHANGED left
    /\ UNCHANGED <<guest, seen, suppl>>

(* AddDeviceSync: a GET, which finds the device or not, and a PUT of the    *)
(* devices that were there.                                                 *)
GetDevices(p) ==
    /\ pc[p] = "get"
    /\ seen' = [seen EXCEPT ![p] = homes]
    /\ Go(p, IF User(p) \in homes THEN "error" ELSE "put")
    /\ UNCHANGED <<guest, left, suppl>>

(* Mutant of Mounted: the PUT has the new device only.                      *)
MountedOnly(p) == {User(p)}

Mounted(p) == seen[p] \cup {User(p)}

PutDevices(p) ==
    /\ pc[p] = "put"
    /\ homes' = Mounted(p) /\ Go(p, "groups")
    /\ UNCHANGED <<groups, accounts, running, registering>>

--------------------------------------------------------------------------------
(* The exit code of groupadd: the name is looked at before the number.      *)
ExitCode(g) ==
    IF ~running THEN 1
    ELSE IF \E h \in groups : h.name = g.name THEN 9
    ELSE IF \E h \in groups : h.gid = g.gid THEN 4
    ELSE 0

Added(g) == [name |-> g.name, gid |-> g.gid]
WithGroup(g) == IF ExitCode(g) = 0 THEN groups \cup {Added(g)} ELSE groups
MustWork(p, g) == g.gid = PwGid(User(p))

(* Mutant of Remembered: also a group that could not be made.               *)
RememberedAny(code) == code # 0

(* Only in the branch of an error that is 9 is a group remembered.          *)
Remembered(code) == code = 9

(* One round of the loop: a group that exists is as good as a new one, one  *)
(* that cannot be made is fatal if it is the primary one.                   *)
GroupAdd(p) ==
    /\ pc[p] = "groups"
    /\ \E i \in First(left[p]) :
         LET g == scene.groups[i]
             code == ExitCode(g)
         IN  /\ left' = [left EXCEPT ![p] = @ \ {i}]
             /\ groups' = WithGroup(g)
             /\ suppl' = [suppl EXCEPT ![p] =
                            IF Remembered(code) /\ ~MustWork(p, g)
                            THEN @ \cup {g.name} ELSE @]
             /\ Go(p, IF code \in {1, 4} /\ MustWork(p, g) THEN "error" ELSE "groups")
    /\ UNCHANGED <<accounts, homes, running, seen>>

Account(p) ==
    [name |-> User(p), uid |-> Uid(User(p)), gid |-> PwGid(User(p)),
     groups |-> suppl[p] \cup {"video"}, by |-> p]

(* useradd: name and number are free, and every group is there.             *)
CanAdd(p) ==
    /\ running
    /\ \A a \in accounts : a.name # User(p) /\ a.uid # Uid(User(p))
    /\ \E h \in groups : h.gid = PwGid(User(p))
    /\ \A n \in Account(p).groups : \E h \in groups : h.name = n

UserAdd(p) ==
    /\ pc[p] = "groups" /\ left[p] = {}
    /\ \/ CanAdd(p) /\ accounts' = accounts \cup {Account(p)} /\ Go(p, "ok")
       \/ ~CanAdd(p) /\ Go(p, "error") /\ UNCHANGED accounts
    /\ UNCHANGED <<groups, homes, running, registering>>

RegisterStep(p) ==
    \/ Boot(p) \/ QueryUser(p) \/ GetDevices(p) \/ PutDevices(p)
    \/ GroupAdd(p) \/ UserAdd(p)

--------------------------------------------------------------------------------
(* A request or a command that fails, or whose answer is lost.  A groupadd  *)
(* that ends with any other code, or cannot be started.                     *)
RegisterFault(p) ==
    /\ \/ pc[p] \in {"boot", "look", "get"} /\ Go(p, "error") /\ UNCHANGED <<guest, left>>
       \/ /\ pc[p] = "put" /\ Go(p, "error")
          /\ homes' \in {homes, Mounted(p)}
          /\ UNCHANGED <<groups, accounts, running, left>>
       \/ /\ pc[p] = "groups"
          /\ \E i \in First(left[p]), end \in {"groups", "error"} :
               /\ MustWork(p, scene.groups[i]) => end = "error"
               /\ groups' \in {groups, WithGroup(scene.groups[i])}
               /\ left' = [left EXCEPT ![p] = @ \ {i}]
               /\ Go(p, end)
          /\ UNCHANGED <<accounts, homes, running>>
       \/ /\ pc[p] = "groups" /\ left[p] = {} /\ Go(p, "error")
          /\ accounts' \in {accounts} \cup
                           (IF CanAdd(p) THEN {accounts \cup {Account(p)}} ELSE {})
          /\ UNCHANGED <<groups, homes, running, left>>
    /\ UNCHANGED <<seen, suppl>>

(* Another command stops the container.                                     *)
StopContainer ==
    /\ running /\ running' = FALSE
    /\ UNCHANGED <<groups, accounts, homes, registering, pc>>
================================================================================
