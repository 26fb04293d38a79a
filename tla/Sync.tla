---------------------------------- MODULE Sync ---------------------------------
(****************************************************************************)
(* The synchronous helpers of helpers.go and the client calls below them.   *)
(*                                                                          *)
(* Every invocation is one sequential program.  todo[p] is what is left of  *)
(* it: the calls still to make, the current one first.  One step is one     *)
(* request to the server, so other invocations run between the GET and the  *)
(* PUT of a device change and between the parts of a helper.  Waiting for   *)
(* the operation of a request is part of its step.                          *)
(*                                                                          *)
(* Each call carries what its call site does with an error:                 *)
(*   fail      returns it from run                                          *)
(*   rollback  removes the target being created and returns it              *)
(*   drop      throws it away and returns (create's last call, a rollback)  *)
(*   skip      goes on with the next call (autosetup's restarts)            *)
(****************************************************************************)
EXTENDS Lxd

CONSTANTS
    MaxFaults,      \* bound: faults of one behaviour
    FaultPhases,    \* in which phases of an invocation faults happen
    Lossy,          \* the calls whose effect may happen and the answer be lost
    Killable        \* whether a fault may also kill the invocation

VARIABLES
    cmd,        \* the command line of each invocation
    todo,       \* the calls it still has to make
    res,        \* how it stands
    nvDir,      \* globNvDir, the driver directory cached by the process
    halted,     \* autosetup's containers to stop and to start again
    faults      \* faults so far

Ops == {"boot", "start", "unfreeze", "stop", "halt", "ldconfig", "delete",
        "update", "adddev", "rmdev", "setflag", "put", "init",
        "fix", "access", "devices", "dri", "nvidia", "ldconf", "check",
        "whoami", "lookup", "groupadd", "useradd", "targets",
        "list", "bridge", "hasbridge", "netcreate",
        "profile", "nicdel", "nicadd", "profput"}

NicOps == {"nicdel", "nicadd", "profput"}
Fixables == {"access", "devices", "dri", "nvidia"}
Flags == {"true", "false"}

ASSUME SyncAssumption ==
    /\ MaxFaults \in Nat
    /\ FaultPhases \subseteq {"running", "undoing"}
    /\ Lossy \subseteq Ops
    /\ Killable \in BOOLEAN

OnError == {"fail", "rollback", "drop", "skip"}
Arg == Dev \cup Fixables \cup {"none"}
Val == Path \cup Flags \cup Bridge \cup {"none"}

Call ==
    {c \in [op: Ops, ct: Names, arg: Arg, val: Val, cfg: Config, err: OnError] :
        /\ c.op = "adddev" => c.arg \in Dev /\ c.val \in Path
        /\ c.op = "useradd" => c.arg \in Users
        /\ c.op = "fix" => c.arg \in Fixables
        /\ c.op \in NicOps => c.val \in Bridge \cup {"none"}}

Results == {"idle", "running", "undoing",
            "ok", "error", "undone", "stuck", "killed"}

Active(p) == res[p] \in {"running", "undoing"}

Do(op, n, err) == [op |-> op, ct |-> n, arg |-> "none", val |-> "none",
                   cfg |-> NoConfig, err |-> err]
DoArg(op, n, arg, err) == [Do(op, n, err) EXCEPT !.arg = arg]
DoVal(op, n, val, err) == [Do(op, n, err) EXCEPT !.val = val]
DoCfg(op, n, cfg, err) == [Do(op, n, err) EXCEPT !.cfg = cfg]
AddDevice(n, d, path, err) == [DoArg("adddev", n, d, err) EXCEPT !.val = path]

RemoveContainerSync(n, err) == <<Do("stop", n, err), Do("delete", n, err)>>

--------------------------------------------------------------------------------
At(p, op) == todo[p] # <<>> /\ Head(todo[p]).op = op
Now(p) == Head(todo[p])

(* The current call returned without an error, after which ts are due.      *)
Continue(p, ts) ==
    LET rest == ts \o Tail(todo[p])
    IN  /\ todo' = [todo EXCEPT ![p] = rest]
        /\ res' = [res EXCEPT ![p] = IF rest # <<>> THEN @
                                     ELSE IF @ = "undoing" THEN "undone" ELSE "ok"]

(* The current call returned an error.                                      *)
Raise(p) ==
    \/ /\ Now(p).err = "fail"
       /\ todo' = [todo EXCEPT ![p] = <<>>]
       /\ res' = [res EXCEPT ![p] = "error"]
    \/ /\ Now(p).err = "rollback"
       /\ todo' = [todo EXCEPT ![p] = RemoveContainerSync(cmd[p].ct, "drop")]
       /\ res' = [res EXCEPT ![p] = "undoing"]
    \/ /\ Now(p).err = "drop"
       /\ todo' = [todo EXCEPT ![p] = <<>>]
       /\ res' = [res EXCEPT ![p] = IF @ = "undoing" THEN "stuck" ELSE "ok"]
    \/ /\ Now(p).err = "skip"
       /\ Continue(p, <<>>)

Faulty(p) ==
    /\ faults < MaxFaults
    /\ res[p] \in FaultPhases
    /\ faults' = faults + 1

(* A request that changes the server: its answer arrives or is lost.        *)
Answer(p) ==
    \/ Continue(p, <<>>) /\ UNCHANGED faults
    \/ Now(p).op \in Lossy /\ Faulty(p) /\ Raise(p)

Refuse(p) == Raise(p) /\ UNCHANGED <<server, faults>>

(* A request, or a local operation, that fails and changes nothing.  A glob *)
(* and a stat do not fail; autosetup's bridge test takes a failed listing   *)
(* for "no bridge" (see Network).                                           *)
Fault(p) ==
    /\ todo[p] # <<>> /\ Now(p).op \notin {"devices", "dri", "update", "bridge"}
    /\ Faulty(p) /\ Raise(p)
    /\ UNCHANGED <<server, nvDir, halted>>

(* The process dies; nothing in the tools handles a signal.                 *)
Kill(p) ==
    /\ Killable /\ Active(p) /\ Faulty(p)
    /\ todo' = [todo EXCEPT ![p] = <<>>]
    /\ res' = [res EXCEPT ![p] = "killed"]
    /\ UNCHANGED <<server, nvDir, halted>>

--------------------------------------------------------------------------------
(* Mutant of BootContainerSync: a frozen container is started like a        *)
(* stopped one.                                                             *)
BootContainerSyncNoThaw(p) ==
    /\ At(p, "boot")
    /\ LET t == Now(p)  s == ct[t.ct].status
       IN  \/ s = "Absent" /\ Raise(p)
           \/ s = "Running" /\ Continue(p, <<>>)
           \/ s \in {"Frozen", "Stopped"} /\ Continue(p, <<Do("start", t.ct, t.err)>>)
    /\ UNCHANGED <<server, nvDir, halted, faults>>

(* BootContainerSync: a GET decides whether to start, to unfreeze or to     *)
(* return; the state may have changed when the request reaches the server.  *)
BootContainerSync(p) ==
    /\ At(p, "boot")
    /\ LET t == Now(p)  s == ct[t.ct].status
       IN  \/ s = "Absent" /\ Raise(p)
           \/ s = "Running" /\ Continue(p, <<>>)
           \/ s = "Frozen" /\ Continue(p, <<Do("unfreeze", t.ct, t.err)>>)
           \/ s = "Stopped" /\ Continue(p, <<Do("start", t.ct, t.err)>>)
    /\ UNCHANGED <<server, nvDir, halted, faults>>

Start(p) ==
    /\ At(p, "start") \/ At(p, "unfreeze")
    /\ LET n == Now(p).ct
           ready == IF At(p, "start") THEN Startable(n) ELSE ct[n].status = "Frozen"
       IN  \/ /\ ready
              /\ ct' = [ct EXCEPT ![n].status = "Running"]
              /\ Answer(p) /\ UNCHANGED net
           \/ ~ready /\ Refuse(p)
    /\ UNCHANGED <<nvDir, halted>>

(* StopContainerSync: nothing to do for a stopped container, else a forced  *)
(* stop.                                                                    *)
StopContainerSync(p) ==
    /\ At(p, "stop")
    /\ LET t == Now(p)  s == ct[t.ct].status
       IN  \/ s = "Absent" /\ Raise(p)
           \/ s = "Stopped" /\ Continue(p, <<>>)
           \/ s \in {"Running", "Frozen"} /\ Continue(p, <<Do("halt", t.ct, t.err)>>)
    /\ UNCHANGED <<server, nvDir, halted, faults>>

Stop(p) ==
    /\ At(p, "halt")
    /\ LET n == Now(p).ct
           up == ct[n].status \in {"Running", "Frozen"}
       IN  \/ /\ up
              /\ ct' = [ct EXCEPT ![n] = AfterStop(@)]
              /\ Answer(p) /\ UNCHANGED net
           \/ ~up /\ Refuse(p)
    /\ UNCHANGED <<nvDir, halted>>

Delete(p) ==
    /\ At(p, "delete")
    /\ LET n == Now(p).ct
       IN  \/ /\ ct[n].status = "Stopped"
              /\ ct' = [ct EXCEPT ![n] = NoContainer]
              /\ Answer(p) /\ UNCHANGED net
           \/ ct[n].status # "Stopped" /\ Refuse(p)
    /\ UNCHANGED <<nvDir, halted>>

(* UpdateConfigSync restarts the container and rebuilds its loader cache.   *)
UpdateConfigSync(p) ==
    /\ At(p, "update")
    /\ LET t == Now(p)
       IN  Continue(p, <<Do("stop", t.ct, t.err), Do("boot", t.ct, t.err),
                         Do("ldconfig", t.ct, t.err)>>)
    /\ UNCHANGED <<server, nvDir, halted, faults>>

(* lxc exec ... rm /etc/ld.so.cache; ldconfig                               *)
Ldconfig(p) ==
    /\ At(p, "ldconfig")
    /\ LET n == Now(p).ct
       IN  \/ /\ ct[n].status = "Running"
              /\ ct' = [ct EXCEPT ![n].ldconf = IF @ = "absent" THEN @ ELSE "loaded"]
              /\ Answer(p) /\ UNCHANGED net
           \/ ct[n].status # "Running" /\ Refuse(p)
    /\ UNCHANGED <<nvDir, halted>>

--------------------------------------------------------------------------------
(* The GET of a change of configuration: the changed snapshot goes out as a *)
(* whole in the PUT of the next step.                                       *)
Edit(p, ok, changed) ==
    LET t == Now(p)
    IN  /\ \/ /\ Present(t.ct) /\ ok
              /\ Continue(p, <<DoCfg("put", t.ct, changed, t.err)>>)
           \/ ~(Present(t.ct) /\ ok) /\ Raise(p)
        /\ UNCHANGED <<server, nvDir, halted, faults>>

(* Mutant of AddDeviceSync: the PUT carries no user.click-updates-enabled.  *)
AddDeviceSyncReset(p) ==
    /\ At(p, "adddev")
    /\ LET t == Now(p)  cfg == ct[t.ct].cfg
       IN  Edit(p, cfg.devs[t.arg] = "none",
                [cfg EXCEPT !.devs[t.arg] = t.val, !.updates = FALSE])

AddDeviceSync(p) ==
    /\ At(p, "adddev")
    /\ LET t == Now(p)  cfg == ct[t.ct].cfg
       IN  Edit(p, cfg.devs[t.arg] = "none", [cfg EXCEPT !.devs[t.arg] = t.val])

RemoveDeviceSync(p) ==
    /\ At(p, "rmdev")
    /\ LET t == Now(p)  cfg == ct[t.ct].cfg
       IN  Edit(p, cfg.devs[t.arg] # "none", [cfg EXCEPT !.devs[t.arg] = "none"])

(* Mutant of SetContainerConfig: the PUT is made without the GET before it. *)
SetContainerConfigBlind(p) ==
    /\ At(p, "setflag")
    /\ Edit(p, TRUE, [NoConfig EXCEPT !.click = TRUE, !.updates = (Now(p).val = "true")])

SetContainerConfig(p) ==
    /\ At(p, "setflag")
    /\ LET t == Now(p)
       IN  Edit(p, TRUE, [ct[t.ct].cfg EXCEPT !.updates = (t.val = "true")])

(* The PUT: the server replaces the configuration by the one it is sent.    *)
Put(p) ==
    /\ At(p, "put")
    /\ LET t == Now(p)
       IN  \/ /\ Present(t.ct)
              /\ ct' = [ct EXCEPT ![t.ct].cfg = t.cfg]
              /\ Answer(p) /\ UNCHANGED net
           \/ ~Present(t.ct) /\ Refuse(p)
    /\ UNCHANGED <<nvDir, halted>>

SyncStep(p) ==
    \/ BootContainerSync(p) \/ Start(p) \/ StopContainerSync(p) \/ Stop(p)
    \/ Delete(p) \/ UpdateConfigSync(p) \/ Ldconfig(p)
    \/ AddDeviceSync(p) \/ RemoveDeviceSync(p) \/ SetContainerConfig(p) \/ Put(p)
================================================================================
