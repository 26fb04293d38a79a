--------------------------- MODULE AccountProperties ---------------------------
(****************************************************************************)
(* What a register is to leave in the container.                            *)
(****************************************************************************)
EXTENDS Main

OneUser ==
    \A p, q \in Runs : {Cmd(p), Cmd(q)} = {"register"} => User(p) = User(q)

(* The names of the groups that the host has for a number.                  *)
HostNames(gid) == {scene.groups[i].name : i \in {j \in Positions : scene.groups[j].gid = gid}}
HostMember(u) == {scene.groups[i].name : i \in MemberOf(u)}

(* Nobody gets into a supplementary group that the user is not a member of  *)
(* on the host (but for video), or into any without -g, whatever of the     *)
(* groups could be made and whatever groups the container had.              *)
NoForeignGroup ==
    \A a \in accounts :
        a.by # "nobody" =>
            a.groups \subseteq {"video"} \cup
                              (IF line[a.by].sup THEN HostMember(a.name) ELSE {})

(* An account made by register has its home, wherever a register is killed, *)
(* fails or loses an answer, and also with two registers of the user at     *)
(* once (the device is added before the account; the PUT of one carries     *)
(* what the GET of it has seen).                                            *)
HomeWithAccount ==
    scene.alone \/ OneUser =>
        \A a \in accounts : a.by # "nobody" => a.name \in homes

(* After a register with -g that met no fault the user is in every group    *)
(* of hers that the container had before; the groups that were made are     *)
(* not given to her (register.go:197), nor is the primary group that has    *)
(* not her number.                                                          *)
MembershipsKept ==
    faults = 0 =>
        \A p \in Runs, a \in accounts :
            a.by = p /\ pc[p] = "ok" /\ line[p].sup =>
                HostMember(a.name) \cap {g.name : g \in scene.guest.groups}
                    \subseteq a.groups \cup HostNames(a.uid)

(* What a register may fail for when no request fails.                      *)
Unregistrable(p) ==
    LET u == User(p)
        numbered == {h.name : h \in {g \in groups : g.gid = PwGid(u)}}
    IN  \/ u \notin DOMAIN scene.users
        \/ u = "root"
        \/ pc[p] = "get" /\ u \in homes
        \/ pc[p] = "groups" /\ \E a \in accounts : a.name = u \/ a.uid = Uid(u)
        \/ pc[p] = "groups" /\ numbered \cap HostNames(PwGid(u)) = {}
        \/ pc[p] = "groups" /\ \A g \in groups : g.name # "video"

(* With no fault a register only fails because the user is unknown, root or *)
(* there already (also half), because the number of the primary group is    *)
(* not to be had, or for want of video.  No supplementary group can make it *)
(* fail, whether it can be made, exists already or is taken.                *)
RegisterFailsFor ==
    [][\A p \in Runs :
         /\ Cmd(p) = "register" /\ faults' = 0
         /\ pc[p] \in {"look", "get", "put", "groups"} /\ pc'[p] = "error"
         => Unregistrable(p)]_vars
================================================================================
