--------------------------------- MODULE Network -------------------------------
(****************************************************************************)
(* usdk-target autosetup: stop every container, give LXD a bridge and the   *)
(* default profile an eth0 on it, start the containers again.               *)
(****************************************************************************)
EXTENDS Sync

(* Mutant of ListContainers: frozen containers are stopped but not listed   *)
(* for the restart.                                                         *)
ListContainersForgets(p) ==
    /\ At(p, "list")
    /\ LET t == Now(p)
           up == {n \in Names : ct[n].status \in {"Running", "Frozen"}}
           order == Listed(up)
           again == Listed({n \in up : ct[n].status = "Running"})
       IN  /\ halted' = [halted EXCEPT ![p] = up]
           /\ Continue(p, [i \in DOMAIN order |-> Do("stop", order[i], "fail")]
                          \o <<Do("bridge", t.ct, "fail")>>
                          \o [i \in DOMAIN again |-> Do("boot", again[i], "skip")])
    /\ UNCHANGED <<server, nvDir, faults>>

(* The listing that opens run: the containers that are up are to be         *)
(* stopped, and started again after the network is set up.  A failed stop   *)
(* ends the command; a failed start does not.                               *)
ListContainers(p) ==
    /\ At(p, "list")
    /\ LET t == Now(p)
           up == {n \in Names : ct[n].status \in {"Running", "Frozen"}}
           order == Listed(up)
       IN  /\ halted' = [halted EXCEPT ![p] = up]
           /\ Continue(p, [i \in DOMAIN order |-> Do("stop", order[i], "fail")]
                          \o <<Do("bridge", t.ct, "fail")>>
                          \o [i \in DOMAIN order |-> Do("boot", order[i], "skip")])
    /\ UNCHANGED <<server, nvDir, faults>>

(* Mutant of CreateBridgeNeeded: with a bridge there, run returns early.    *)
CreateBridgeNeededReturns(p) ==
    /\ At(p, "bridge")
    /\ LET t == Now(p)
           create == <<Do("netcreate", t.ct, "fail"), Do("profile", t.ct, "fail")>>
       IN  \/ /\ BridgeConfigured
              /\ todo' = [todo EXCEPT ![p] = <<>>]
              /\ res' = [res EXCEPT ![p] = "ok"] /\ UNCHANGED faults
           \/ ~BridgeConfigured /\ Continue(p, create) /\ UNCHANGED faults
           \/ Faulty(p) /\ Continue(p, create)
    /\ UNCHANGED <<server, nvDir, halted>>

(* Mutant of CreateBridgeNeeded: an error of NetworkCreate is ignored.      *)
CreateBridgeNeededAnyhow(p) ==
    /\ At(p, "bridge")
    /\ LET t == Now(p)
           create == <<Do("netcreate", t.ct, "skip"), Do("profile", t.ct, "fail")>>
       IN  \/ BridgeConfigured /\ Continue(p, <<>>) /\ UNCHANGED faults
           \/ ~BridgeConfigured /\ Continue(p, create) /\ UNCHANGED faults
           \/ Faulty(p) /\ Continue(p, create)
    /\ UNCHANGED <<server, nvDir, halted>>

(* lxdBridgeConfigured in autosetup: any error, also that of the listing,   *)
(* makes it create a bridge.                                                *)
CreateBridgeNeeded(p) ==
    /\ At(p, "bridge")
    /\ LET t == Now(p)
           create == <<Do("netcreate", t.ct, "fail"), Do("profile", t.ct, "fail")>>
       IN  \/ BridgeConfigured /\ Continue(p, <<>>) /\ UNCHANGED faults
           \/ ~BridgeConfigured /\ Continue(p, create) /\ UNCHANGED faults
           \/ Faulty(p) /\ Continue(p, create)
    /\ UNCHANGED <<server, nvDir, halted>>

(* The same test in usdk-target initialized ends the command.               *)
LxdBridgeConfigured(p) ==
    /\ At(p, "hasbridge")
    /\ IF BridgeConfigured THEN Continue(p, <<>>) ELSE Raise(p)
    /\ UNCHANGED <<server, nvDir, halted, faults>>

NetworkCreate(p) ==
    /\ At(p, "netcreate")
    /\ \/ /\ "sdkbr0" \notin net.bridges
          /\ net' = [net EXCEPT !.bridges = @ \cup {"sdkbr0"}]
          /\ Answer(p) /\ UNCHANGED ct
       \/ "sdkbr0" \in net.bridges /\ Refuse(p)
    /\ UNCHANGED <<nvDir, halted>>

(* The profile is read: an eth0 it already has is deleted first.            *)
ProfileConfig(p) ==
    /\ At(p, "profile")
    /\ LET t == Now(p)
           add == <<DoVal("nicadd", t.ct, "sdkbr0", "fail")>>
       IN  Continue(p, IF net.eth0 = "none" THEN add
                       ELSE <<Do("nicdel", t.ct, "fail")>> \o add)
    /\ UNCHANGED <<server, nvDir, halted, faults>>

(* ProfileDeviceDelete and ProfileDeviceAdd: the GET of each.               *)
ProfileDevice(p) ==
    /\ At(p, "nicdel") \/ At(p, "nicadd")
    /\ LET t == Now(p)
       IN  IF At(p, "nicdel") = (net.eth0 # "none")
           THEN Continue(p, <<DoVal("profput", t.ct, t.val, t.err)>>)
           ELSE Raise(p)
    /\ UNCHANGED <<server, nvDir, halted, faults>>

ProfilePut(p) ==
    /\ At(p, "profput")
    /\ net' = [net EXCEPT !.eth0 = Now(p).val]
    /\ Answer(p)
    /\ UNCHANGED <<ct, nvDir, halted>>

NetworkStep(p) ==
    \/ ListContainers(p) \/ CreateBridgeNeeded(p) \/ LxdBridgeConfigured(p)
    \/ NetworkCreate(p) \/ ProfileConfig(p) \/ ProfileDevice(p) \/ ProfilePut(p)
================================================================================
