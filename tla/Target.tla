--------------------------------- MODULE Target --------------------------------
(****************************************************************************)
(* usdk-target: invocations of create, register, destroy, set, autofix,     *)
(* autosetup and initialized (and the boot that usdk-wrapper starts with)   *)
(* against one LXD server, while device nodes come and go and the graphics  *)
(* driver of the host is upgraded.                                          *)
(****************************************************************************)
EXTENDS Fixing, Network

CONSTANTS
    Menu,           \* the command lines that are given
    Worlds,         \* the states of server and host to begin with
    Exclusive,      \* one invocation at a time, and no host change meanwhile
    MaxHostChanges  \* bound: changes of the host in one behaviour

VARIABLE hostChanges

vars == <<ct, host, nv, net, cmd, todo, res, nvDir, halted, faults, hostChanges>>

(* user is what userFromEnv or -u gives; flag is the value set writes, and  *)
(* for create whether the alias of the image enables updates.               *)
Command == [kind: {"create", "register", "destroy", "set", "autofix",
                   "autosetup", "initialized", "boot"},
            ct: Names, user: Users, flag: Flags]

World == [ct: [Names -> Container], host: SUBSET Path,
          nv: Drivers \cup {"none"}, net: Net]

ASSUME TargetAssumption ==
    /\ Menu \subseteq Command
    /\ Worlds \subseteq World
    /\ Exclusive \in BOOLEAN
    /\ MaxHostChanges \in Nat

--------------------------------------------------------------------------------
(* The commands, as the calls their run makes.                              *)
FixableSet == <<"access", "devices", "dri", "nvidia">>

(* Mutant of FixAll: a failed fixable only ends the command.                *)
FixAllKeeps(n, err) == [i \in 1..4 |-> DoArg("fix", n, FixableSet[i], "fail")]

FixAll(n, err) == [i \in 1..4 |-> DoArg("fix", n, FixableSet[i], err)]
CheckAll(n) == [i \in 1..4 |-> DoArg("check", n, FixableSet[i], "fail")]

(* Mutant of RegisterUserInContainer: an error of mounting the home ends it *)
(* without being returned.                                                  *)
RegisterUserUnmounted(n, u, err) ==
    <<DoArg("whoami", n, u, err), Do("boot", n, err), DoArg("lookup", n, u, err),
      AddDevice(n, u, u, "drop"), Do("groupadd", n, err), DoArg("useradd", n, u, err)>>

RegisterUserInContainer(n, u, err) ==
    <<DoArg("whoami", n, u, err), Do("boot", n, err), DoArg("lookup", n, u, err),
      AddDevice(n, u, u, err), Do("groupadd", n, err), DoArg("useradd", n, u, err)>>

(* What create does once Init returned: an error of it is rolled back, one  *)
(* of UpdateConfig is dropped.                                              *)
AfterInit(c) ==
    FixAll(c.ct, "rollback")
    \o (<<AddDevice(c.ct, "tmp", "tmp", "rollback")>>
        \o (RegisterUserInContainer(c.ct, c.user, "rollback")
            \o <<Do("update", c.ct, "drop")>>))

(* Mutant of Create: an error of Init is undone like those after it.        *)
CreateUndoesInit(c) == <<DoVal("init", c.ct, c.flag, "rollback")>> \o AfterInit(c)

Create(c) == <<DoVal("init", c.ct, c.flag, "fail")>> \o AfterInit(c)

Script(c) ==
    CASE c.kind = "create" -> Create(c)
      [] c.kind = "register" -> RegisterUserInContainer(c.ct, c.user, "fail")
      [] c.kind = "destroy" -> RemoveContainerSync(c.ct, "fail")
      [] c.kind = "set" -> <<DoVal("setflag", c.ct, c.flag, "fail")>>
      [] c.kind = "autofix" -> FixAll(c.ct, "fail") \o <<Do("targets", c.ct, "fail")>>
      [] c.kind = "autosetup" -> <<Do("list", c.ct, "fail")>>
      [] c.kind = "initialized" -> <<Do("hasbridge", c.ct, "fail")>> \o CheckAll(c.ct)
      [] c.kind = "boot" -> <<Do("boot", c.ct, "fail")>>

(* client.Init: the container is made, with the click keys and no devices.  *)
InitContainer(p) ==
    /\ At(p, "init")
    /\ LET t == Now(p)
       IN  \/ /\ ~Present(t.ct)
              /\ ct' = [ct EXCEPT ![t.ct] =
                          [NoContainer EXCEPT !.status = "Stopped", !.owner = p,
                             !.cfg.click = TRUE, !.cfg.updates = (t.val = "true")]]
              /\ Answer(p) /\ UNCHANGED net
           \/ Present(t.ct) /\ Refuse(p)
    /\ UNCHANGED <<nvDir, halted>>

(* Mutant of KnownUser: root passes.                                        *)
KnownUserAnyone(p) ==
    /\ At(p, "whoami") \/ At(p, "lookup")
    /\ IF Now(p).arg = "nouser" THEN Raise(p) ELSE Continue(p, <<>>)
    /\ UNCHANGED <<server, nvDir, halted, faults>>

(* RegisterUserInContainer's own checks: a user is known, and is not root.  *)
KnownUser(p) ==
    /\ At(p, "whoami") \/ At(p, "lookup")
    /\ LET bad == IF At(p, "whoami") THEN "nouser" ELSE "root"
       IN  IF Now(p).arg = bad THEN Raise(p) ELSE Continue(p, <<>>)
    /\ UNCHANGED <<server, nvDir, halted, faults>>

(* lxc exec ... groupadd of the primary group (a group that exists already  *)
(* is no error), and lxc exec ... useradd.                                  *)
GroupAdd(p) ==
    /\ At(p, "groupadd")
    /\ IF ct[Now(p).ct].status = "Running" THEN Continue(p, <<>>) ELSE Raise(p)
    /\ UNCHANGED <<server, nvDir, halted, faults>>

UserAdd(p) ==
    /\ At(p, "useradd")
    /\ LET t == Now(p)
           can == ct[t.ct].status = "Running" /\ t.arg \notin ct[t.ct].users
       IN  \/ /\ can
              /\ ct' = [ct EXCEPT ![t.ct].users = @ \cup {t.arg}]
              /\ Answer(p) /\ UNCHANGED net
           \/ ~can /\ Refuse(p)
    /\ UNCHANGED <<nvDir, halted>>

--------------------------------------------------------------------------------
NoCommand == [kind |-> "none"]

Init ==
    /\ \E w \in Worlds : ct = w.ct /\ host = w.host /\ nv = w.nv /\ net = w.net
    /\ cmd = [p \in Procs |-> NoCommand]
    /\ todo = [p \in Procs |-> <<>>]
    /\ res = [p \in Procs |-> "idle"]
    /\ nvDir = [p \in Procs |-> "none"]
    /\ halted = [p \in Procs |-> {}]
    /\ faults = 0
    /\ hostChanges = 0

Quiet == \A q \in Procs : ~Active(q)

Invoke(p) ==
    /\ res[p] = "idle"
    /\ Exclusive => Quiet
    /\ \E c \in Menu :
         /\ cmd' = [cmd EXCEPT ![p] = c]
         /\ todo' = [todo EXCEPT ![p] = Script(c)]
    /\ res' = [res EXCEPT ![p] = "running"]
    /\ UNCHANGED <<world, nvDir, halted, faults, hostChanges>>

Step(p) ==
    /\ \/ SyncStep(p) \/ FixingStep(p) \/ NetworkStep(p)
       \/ InitContainer(p) \/ KnownUser(p) \/ GroupAdd(p) \/ UserAdd(p)
    /\ UNCHANGED <<host, nv, cmd, hostChanges>>

Break(p) ==
    /\ Fault(p) \/ Kill(p)
    /\ UNCHANGED <<host, nv, cmd, hostChanges>>

ChangeHost ==
    /\ hostChanges < MaxHostChanges
    /\ Exclusive => Quiet
    /\ hostChanges' = hostChanges + 1
    /\ UNCHANGED <<server, cmd, todo, res, nvDir, halted, faults>>

(* A device node appears on the host or goes away.                          *)
Replug ==
    /\ ChangeHost
    /\ \E x \in Cards \cup NvNodes :
         host' = IF x \in host THEN host \ {x} ELSE host \cup {x}
    /\ UNCHANGED nv

(* The graphics driver is replaced: its directory carries the version.      *)
UpgradeDriver ==
    /\ ChangeHost
    /\ nv # "none"
    /\ \E d \in Drivers \ {nv} : nv' = d /\ host' = (host \ {nv}) \cup {d}

Next ==
    \/ \E p \in Procs : Invoke(p) \/ Step(p) \/ Break(p)
    \/ Replug
    \/ UpgradeDriver

Spec == Init /\ [][Next]_vars

(* A program that was started keeps running: the server answers, and the    *)
(* operating system schedules the process.                                  *)
FairSpec == Spec /\ \A p \in Procs : WF_vars(Step(p))

--------------------------------------------------------------------------------
(* The type invariant: every call still to be made is a call some helper    *)
(* makes, every container one that the server can hold.                     *)
TypeOK ==
    /\ LxdTypeOK
    /\ cmd \in [Procs -> Command \cup {NoCommand}]
    /\ todo \in [Procs -> Seq(Call)]
    /\ res \in [Procs -> Results]
    /\ nvDir \in [Procs -> Drivers \cup {"none"}]
    /\ halted \in [Procs -> SUBSET Names]
    /\ faults \in 0..MaxFaults
    /\ hostChanges \in 0..MaxHostChanges
================================================================================
