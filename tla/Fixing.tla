--------------------------------- MODULE Fixing --------------------------------
(****************************************************************************)
(* The four fixables of autofix.go's fixable_set.  Fix lists the click      *)
(* targets once and runs the fixable on every snapshot of that list; Check  *)
(* does the same without repairing.  The first error ends the loop.         *)
(****************************************************************************)
EXTENDS Sync

(* findNvidiaDir, and the test of the version file before it: the directory *)
(* cached by the process, else the one the version file names if it exists. *)
NvidiaDir(p) ==
    IF nv = "none" THEN "none"
    ELSE IF nvDir[p] # "none" THEN nvDir[p]
    ELSE IF nv \in host THEN nv ELSE "none"

(* Mutant of Checked: optional devices are looked at like the others.       *)
CheckedAll(cfg) == {d \in Dev : cfg.devs[d] # "none"}

(* The devices of a snapshot whose host path is looked at, and of these the *)
(* ones that are missing on the host.                                       *)
Checked(cfg) == {d \in Dev : cfg.devs[d] \in Path}
Broken(cfg) == {d \in Checked(cfg) : cfg.devs[d] \notin host}
MissingNodes(cfg, nodes) == {d \in nodes \cap host : cfg.devs[d] = "none"}

(* run(..., false): does the fixable report an error for this container?    *)
Problem(p, what, n, cfg) ==
    \/ what = "access" /\ ~ct[n].access
    \/ what = "devices" /\ Broken(cfg) # {}
    \/ what = "dri" /\ MissingNodes(cfg, Cards) # {}
    \/ /\ what = "nvidia" /\ NvidiaDir(p) # "none"
       /\ \/ cfg.devs["nv-bin"] # NvidiaDir(p)
          \/ ct[n].ldconf = "absent"
          \/ MissingNodes(cfg, NvNodes) # {}

(* Mutant of AddNodes: container and node are swapped in the call.          *)
AddNodesSwapped(t, nodes) ==
    LET order == Listed(nodes)
    IN  [i \in DOMAIN order |-> AddDevice(order[i], t.ct, order[i], t.err)]

AddNodes(t, nodes) ==
    LET order == Listed(nodes)
    IN  [i \in DOMAIN order |-> AddDevice(t.ct, order[i], order[i], t.err)]

(* Fix of the fixable named by the call: one run for every target.          *)
Fix(p) ==
    /\ At(p, "fix")
    /\ LET t == Now(p)  targets == Listed(ClickTargets)
       IN  Continue(p, [i \in DOMAIN targets |->
                           DoCfg(t.arg, targets[i], ct[targets[i]].cfg, t.err)])
    /\ UNCHANGED <<server, nvDir, halted, faults>>

(* Check of the fixable named by the call.                                  *)
Check(p) ==
    /\ At(p, "check")
    /\ IF \E n \in ClickTargets : Problem(p, Now(p).arg, n, ct[n].cfg)
       THEN Raise(p) ELSE Continue(p, <<>>)
    /\ nvDir' = [nvDir EXCEPT ![p] =
                    IF Now(p).arg = "nvidia" /\ ClickTargets # {} /\ NvidiaDir(p) # "none"
                    THEN NvidiaDir(p) ELSE @]
    /\ UNCHANGED <<server, halted, faults>>

(* ContainerAccess: chmod of the container's directory.                     *)
FixAccess(p) ==
    /\ At(p, "access")
    /\ LET n == Now(p).ct
       IN  \/ /\ Present(n)
              /\ ct' = [ct EXCEPT ![n].access = TRUE]
              /\ Continue(p, <<>>) /\ UNCHANGED <<net, faults>>
           \/ ~Present(n) /\ Refuse(p)
    /\ UNCHANGED <<nvDir, halted>>

(* Mutant of FixDevices: the loop does not advance.                         *)
FixDevicesAgain(p) ==
    /\ At(p, "devices")
    /\ LET t == Now(p)
       IN  \/ Checked(t.cfg) = {} /\ Continue(p, <<>>)
           \/ \E d \in Checked(t.cfg) :
                Continue(p, IF t.cfg.devs[d] \in host THEN <<t>>
                            ELSE <<DoArg("rmdev", t.ct, d, t.err), t>>)
    /\ UNCHANGED <<server, nvDir, halted, faults>>

(* DevicesFixable: the devices of the snapshot in any order, as Go ranges   *)
(* over a map; one that is missing on the host by now is removed.           *)
FixDevices(p) ==
    /\ At(p, "devices")
    /\ LET t == Now(p)
       IN  \/ Checked(t.cfg) = {} /\ Continue(p, <<>>)
           \/ \E d \in Checked(t.cfg) :
                LET rest == [t EXCEPT !.cfg.devs[d] = "none"]
                IN  Continue(p, IF t.cfg.devs[d] \in host THEN <<rest>>
                                ELSE <<DoArg("rmdev", t.ct, d, t.err), rest>>)
    /\ UNCHANGED <<server, nvDir, halted, faults>>

(* DRIFixable: the cards of the host that the snapshot lacks.               *)
FixDRI(p) ==
    /\ At(p, "dri")
    /\ LET t == Now(p) IN Continue(p, AddNodes(t, MissingNodes(t.cfg, Cards)))
    /\ UNCHANGED <<server, nvDir, halted, faults>>

(* Mutant of FixNvidia: an nv-bin that was removed is not added back.       *)
FixNvidiaOnce(p) ==
    /\ At(p, "nvidia")
    /\ LET t == Now(p)
           dir == NvidiaDir(p)
           has == t.cfg.devs["nv-bin"]
           nvbin == IF has = dir THEN <<>>
                    ELSE IF has = "none" THEN <<AddDevice(t.ct, "nv-bin", dir, t.err)>>
                    ELSE <<DoArg("rmdev", t.ct, "nv-bin", t.err)>>
       IN  /\ Continue(p, IF dir = "none" THEN <<>>
                          ELSE nvbin \o <<Do("ldconf", t.ct, t.err)>>
                               \o AddNodes(t, MissingNodes(t.cfg, NvNodes)))
           /\ nvDir' = [nvDir EXCEPT ![p] = IF dir = "none" THEN @ ELSE dir]
    /\ UNCHANGED <<server, halted, faults>>

(* NvidiaFixable: nv-bin replaced when it has another source, added when it *)
(* is missing; the loader configuration; the nodes the snapshot lacks.      *)
FixNvidia(p) ==
    /\ At(p, "nvidia")
    /\ LET t == Now(p)
           dir == NvidiaDir(p)
           has == t.cfg.devs["nv-bin"]
           remove == IF has \in {"none", dir} THEN <<>>
                     ELSE <<DoArg("rmdev", t.ct, "nv-bin", t.err)>>
           add == IF has = dir THEN <<>>
                  ELSE <<AddDevice(t.ct, "nv-bin", dir, t.err)>>
       IN  /\ Continue(p, IF dir = "none" THEN <<>>
                          ELSE remove \o add \o <<Do("ldconf", t.ct, t.err)>>
                               \o AddNodes(t, MissingNodes(t.cfg, NvNodes)))
           /\ nvDir' = [nvDir EXCEPT ![p] = IF dir = "none" THEN @ ELSE dir]
    /\ UNCHANGED <<server, halted, faults>>

WriteLDConf(p) ==
    /\ At(p, "ldconf")
    /\ LET n == Now(p).ct
       IN  \/ /\ Present(n)
              /\ ct' = [ct EXCEPT ![n].ldconf = IF @ = "absent" THEN "written" ELSE @]
              /\ Continue(p, <<>>) /\ UNCHANGED <<net, faults>>
           \/ ~Present(n) /\ Refuse(p)
    /\ UNCHANGED <<nvDir, halted>>

(* autofix's last loop: every click target is restarted.                    *)
UpdateTargets(p) ==
    /\ At(p, "targets")
    /\ LET t == Now(p)  targets == Listed(ClickTargets)
       IN  Continue(p, [i \in DOMAIN targets |-> Do("update", targets[i], t.err)])
    /\ UNCHANGED <<server, nvDir, halted, faults>>

FixingStep(p) ==
    \/ Fix(p) \/ Check(p) \/ FixAccess(p) \/ FixDevices(p) \/ FixDRI(p)
    \/ FixNvidia(p) \/ WriteLDConf(p) \/ UpdateTargets(p)
================================================================================
