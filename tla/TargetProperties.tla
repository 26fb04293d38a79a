----------------------------- MODULE TargetProperties --------------------------
(****************************************************************************)
(* What the commands of usdk-target are to keep, alone and interleaved.     *)
(****************************************************************************)
EXTENDS Target

Creating(p) == cmd[p].kind = "create"

(* A create only ever works on, and rolls back, a container it made itself: *)
(* from the return of Init to the end, rollback included, the container     *)
(* under its name is its own (create.go runs every later call, and          *)
(* RemoveContainerSync, by name).                                           *)
OwnTarget ==
    \A p \in Procs :
        Creating(p) /\ Active(p) /\ ~At(p, "init") => ct[cmd[p].ct].owner = p

(* A create that returns an error leaves no container of its own behind,    *)
(* whatever call failed after Init and whatever other commands do meanwhile *)
(* (the RemoveContainerSync in every error branch of create.go).            *)
RollbackComplete ==
    \A p \in Procs :
        Creating(p) /\ res[p] \in {"error", "undone", "stuck"}
            => \A n \in Names : ct[n].owner # p

(* Root is never registered in a container (register.go refuses it, after   *)
(* the container was booted and before anything was changed).               *)
RootNotRegistered ==
    \A n \in Names : ct[n].users \cap {"root", "nouser"} = {}

(* A device that no fixable looks at (optional, or given by major and       *)
(* minor) is kept by every command, whatever commands interleave: the tools *)
(* never add one, so no stale PUT can drop one either.                      *)
ForeignDevicesKept ==
    [][\A n \in Names, d \in Dev :
         /\ Present(n) /\ Present(n)' /\ ct'[n].owner = ct[n].owner
         /\ ct[n].cfg.devs[d] = "unchecked"
         => ct'[n].cfg.devs[d] = "unchecked"]_vars

(* Containers that are not click targets are none of the business of create *)
(* and autofix: no step changes one.                                        *)
PlainUntouched ==
    [][\A n \in Names :
         Present(n) /\ ~ct[n].cfg.click => ct'[n] = ct[n]]_vars

Healthy(p, n) == \A what \in Fixables : ~Problem(p, what, n, ct[n].cfg)

Finishes(p, kind) == cmd[p].kind = kind /\ Active(p) /\ res'[p] = "ok"

(* A create that succeeds delivers: whatever failed on the way, the target  *)
(* has its click keys, /tmp, the home of the user, the user, and nothing    *)
(* that initialized would complain of.                                      *)
CreateDelivers ==
    [][\A p \in Procs : Finishes(p, "create") =>
         LET n == cmd[p].ct  u == cmd[p].user
         IN  /\ n \in ClickTargets'
             /\ ct'[n].cfg.devs["tmp"] = "tmp" /\ ct'[n].cfg.devs[u] = u
             /\ ct'[n].cfg.updates = (cmd[p].flag = "true")
             /\ u \in ct'[n].users
             /\ Healthy(p, n)']_vars

(* An autofix that succeeds leaves every click target running, free of any  *)
(* problem that initialized checks for, its loader cache rebuilt since the  *)
(* loader configuration was written.                                        *)
AutofixHeals ==
    [][\A p \in Procs : Finishes(p, "autofix") =>
         \A n \in ClickTargets' :
             /\ ct'[n].status = "Running" /\ ct'[n].ldconf # "written"
             /\ Healthy(p, n)']_vars

(* The automatic-updates flag of a container only changes by a set of that  *)
(* container; the whole-configuration PUTs of device changes keep it.       *)
OnlySetMovesFlag ==
    [][\A n \in Names :
         /\ Present(n) /\ Present(n)' /\ ct'[n].owner = ct[n].owner
         /\ ct'[n].cfg.updates # ct[n].cfg.updates
         => \E p \in Procs : /\ cmd[p].kind = "set" /\ cmd[p].ct = n
                             /\ Active(p)]_vars

(* autosetup ends with a bridge, and with every container it stopped        *)
(* running again: one may only stay down because LXD refuses to start it,   *)
(* or be gone because it was ephemeral.                                     *)
AutosetupRestores ==
    [][\A p \in Procs : Finishes(p, "autosetup") =>
         /\ BridgeConfigured'
         /\ \A n \in halted'[p] : /\ ct'[n].status # "Frozen"
                                  /\ ct'[n].status = "Stopped" => ~Startable(n)']_vars

(* Two autosetups at once, or one next to a boot, a set or a register, the  *)
(* requests failing only because of each other: when all have ended and the *)
(* autosetups without an error, the containers they stopped are up again,   *)
(* unless LXD refuses to start one - also one that the other command found  *)
(* stopped, or started first (the restart that fails then is skipped).      *)
SetupsRestore ==
    /\ Quiet /\ faults = 0 /\ hostChanges = 0
    /\ \A p \in Procs :
         /\ cmd[p].kind \notin {"create", "autofix"}
         /\ cmd[p].kind = "autosetup" => res[p] = "ok"
    => \A p \in Procs : \A n \in halted[p] :
         ct[n].status # "Frozen" /\ (ct[n].status = "Stopped" => ~Startable(n))

(* The default profile is only attached to the bridge of the tools once     *)
(* that bridge exists, whatever fails and however two autosetups interleave *)
(* (NetworkCreate comes first and its failure ends the command).            *)
Eth0HasBridge == net.eth0 = "sdkbr0" => "sdkbr0" \in net.bridges

(* What a command may fail for when no request fails: the user, the name,   *)
(* a container that is not there or that LXD refuses to start, a second     *)
(* registration, and initialized, whose errors are its answer.              *)
Excused(p) ==
    LET c == cmd[p]  n == c.ct
    IN  \/ c.kind = "initialized"
        \/ c.kind \in {"create", "register"} /\ c.user \in {"nouser", "root"}
        \/ c.kind = "create" /\ At(p, "init") /\ Present(n)
        \/ c.kind \in {"boot", "set", "destroy", "register"} /\ ~Present(n)
        \/ c.kind \in {"boot", "register"}
              /\ ct[n].status = "Stopped" /\ ~Startable(n)
        \/ c.kind = "register"
              /\ (ct[n].cfg.devs[c.user] # "none" \/ c.user \in ct[n].users)

(* One command at a time and every request answered, a command only fails   *)
(* for such a reason.  In particular autofix and autosetup never fail: the  *)
(* devices that would keep a target from booting are removed before it is   *)
(* restarted, and none is added that the target has.                        *)
NoSpuriousError ==
    [][\A p \in Procs :
         Active(p) /\ res'[p] \in {"error", "undone", "stuck"} => Excused(p)]_vars

(* One command at a time, the configurations behave as Targets says: each   *)
(* GET and PUT amounts to one edit, no device is lost by a PUT, and none is *)
(* removed that is still there on the host.                                 *)
Promise == INSTANCE Targets WITH
    conf <- [n \in Names |-> IF Present(n) THEN ct[n].cfg ELSE [click |-> FALSE]],
    Nodes <- Cards \cup NvNodes

EditsAreWhole == Promise!Spec

(* Every invocation comes to an end, rollbacks included.                    *)
Termination == \A p \in Procs : Active(p) ~> ~Active(p)
--------------------------------------------------------------------------------
(* Statements of the repository that the program does not keep.             *)

(* create.go:195 takes an error of the final UpdateConfigSync for a failed  *)
(* create: a create that succeeds leaves the target running.                *)
CreateRuns ==
    \A p \in Procs : Creating(p) /\ res[p] = "ok" => ct[cmd[p].ct].status = "Running"

(* set.go:34 flags the container for automatic update checks: once a set    *)
(* succeeded, the flag stays as set (no other set runs).                    *)
SetSticks ==
    \A p \in Procs : cmd[p].kind = "set" /\ res[p] = "ok"
        => ct[cmd[p].ct].cfg.updates = (cmd[p].flag = "true")

(* autosetup.go:106 replaces an eth0 that is already there: after an        *)
(* autosetup that succeeds the default profile has an eth0.                 *)
Eth0Replaced ==
    \A p \in Procs : cmd[p].kind = "autosetup" /\ res[p] = "ok" => net.eth0 # "none"
================================================================================
