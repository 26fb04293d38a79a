------------------------------- MODULE CallProofs ------------------------------
(****************************************************************************)
(* Invariants of the calls that are still to be made, and what follows from *)
(* them: the network, the users of the containers, the containers that are  *)
(* no targets, the devices of others, and the rollback of create.           *)
(****************************************************************************)
EXTENDS TargetProofs

(* The calls an invocation still has to make.                               *)
Calls(p) == {todo[p][i] : i \in DOMAIN todo[p]}

(* What a step of p does to the containers: nothing, or what its call is    *)
(* for.                                                                     *)
Boots(p) ==
    /\ Now(p).op \in {"start", "unfreeze"}
    /\ ct[Now(p).ct].status \in {"Stopped", "Frozen"}
    /\ ct' = [ct EXCEPT ![Now(p).ct].status = "Running"]
Halts(p) ==
    /\ Now(p).op = "halt" /\ ct[Now(p).ct].status \in {"Running", "Frozen"}
    /\ ct' = [ct EXCEPT ![Now(p).ct] = AfterStop(@)]
Deletes(p) ==
    /\ Now(p).op = "delete" /\ ct[Now(p).ct].status = "Stopped"
    /\ ct' = [ct EXCEPT ![Now(p).ct] = NoContainer]
Makes(p) ==
    /\ Now(p).op = "init" /\ ~Present(Now(p).ct)
    /\ ct' = [ct EXCEPT ![Now(p).ct] =
                [NoContainer EXCEPT !.status = "Stopped", !.owner = p,
                   !.cfg.click = TRUE, !.cfg.updates = (Now(p).val = "true")]]
Puts(p) ==
    /\ Now(p).op = "put" /\ Present(Now(p).ct)
    /\ ct' = [ct EXCEPT ![Now(p).ct].cfg = Now(p).cfg]
Registers(p) ==
    /\ Now(p).op = "useradd" /\ Present(Now(p).ct)
    /\ ct' = [ct EXCEPT ![Now(p).ct].users = @ \cup {Now(p).arg}]
Opens(p) ==
    /\ Now(p).op = "access" /\ Present(Now(p).ct)
    /\ ct' = [ct EXCEPT ![Now(p).ct].access = TRUE]
Loads(p) ==
    /\ Now(p).op \in {"ldconf", "ldconfig"} /\ Present(Now(p).ct)
    /\ \E x \in {"absent", "written", "loaded"} :
         ct' = [ct EXCEPT ![Now(p).ct].ldconf = x]

Effect(p) ==
    \/ UNCHANGED ct
    \/ Boots(p) \/ Halts(p) \/ Deletes(p) \/ Makes(p) \/ Puts(p)
    \/ Registers(p) \/ Opens(p) \/ Loads(p)

(* What it does to the network.                                             *)
Bridges(p) == Now(p).op = "netcreate" /\ net' = [net EXCEPT !.bridges = @ \cup {"sdkbr0"}]
Attaches(p) == Now(p).op = "profput" /\ net' = [net EXCEPT !.eth0 = Now(p).val]

--------------------------------------------------------------------------------
(* Which action a call is for.                                              *)
LEMMA StepOf ==
  ASSUME NEW p, Step(p)
  PROVE  /\ todo[p] # <<>>
         /\ Now(p).op = "netcreate" => NetworkCreate(p)
         /\ Now(p).op = "bridge" => CreateBridgeNeeded(p)
         /\ Now(p).op \in {"whoami", "lookup"} => KnownUser(p)
         /\ Now(p).op = "stop" => StopContainerSync(p)
         /\ Now(p).op = "halt" => Stop(p)
         /\ Now(p).op = "delete" => Delete(p)
         /\ Now(p).op = "init" => InitContainer(p)
         /\ Now(p).op = "adddev" => AddDeviceSync(p)
         /\ Now(p).op = "rmdev" => RemoveDeviceSync(p)
         /\ Now(p).op = "setflag" => SetContainerConfig(p)
         /\ Now(p).op = "put" => Put(p)
         /\ Now(p).op = "fix" => Fix(p)
         /\ Now(p).op = "devices" => FixDevices(p)
         /\ Now(p).op = "dri" => FixDRI(p)
         /\ Now(p).op = "nvidia" => FixNvidia(p)
<1> DEFINE Of(A, ops) == A => todo[p] # <<>> /\ Now(p).op \in ops
<1>1. /\ Of(BootContainerSync(p), {"boot"}) /\ Of(Start(p), {"start", "unfreeze"})
      /\ Of(StopContainerSync(p), {"stop"}) /\ Of(Stop(p), {"halt"})
      /\ Of(Delete(p), {"delete"}) /\ Of(UpdateConfigSync(p), {"update"})
      /\ Of(Ldconfig(p), {"ldconfig"})
  BY DEF BootContainerSync, Start, StopContainerSync, Stop, Delete, UpdateConfigSync,
         Ldconfig, At, Now
<1>2. /\ Of(AddDeviceSync(p), {"adddev"}) /\ Of(RemoveDeviceSync(p), {"rmdev"})
      /\ Of(SetContainerConfig(p), {"setflag"}) /\ Of(Put(p), {"put"})
  BY DEF AddDeviceSync, RemoveDeviceSync, SetContainerConfig, Put, At, Now
<1>3. /\ Of(Fix(p), {"fix"}) /\ Of(Check(p), {"check"}) /\ Of(FixAccess(p), {"access"})
      /\ Of(FixDevices(p), {"devices"}) /\ Of(FixDRI(p), {"dri"})
      /\ Of(FixNvidia(p), {"nvidia"}) /\ Of(WriteLDConf(p), {"ldconf"})
      /\ Of(UpdateTargets(p), {"targets"})
  BY DEF Fix, Check, FixAccess, FixDevices, FixDRI, FixNvidia, WriteLDConf,
         UpdateTargets, At, Now
<1>4. /\ Of(ListContainers(p), {"list"}) /\ Of(CreateBridgeNeeded(p), {"bridge"})
      /\ Of(LxdBridgeConfigured(p), {"hasbridge"}) /\ Of(NetworkCreate(p), {"netcreate"})
      /\ Of(ProfileConfig(p), {"profile"}) /\ Of(ProfileDevice(p), {"nicdel", "nicadd"})
      /\ Of(ProfilePut(p), {"profput"})
  BY DEF ListContainers, CreateBridgeNeeded, LxdBridgeConfigured, NetworkCreate,
         ProfileConfig, ProfileDevice, ProfilePut, At, Now
<1>5. /\ Of(InitContainer(p), {"init"}) /\ Of(KnownUser(p), {"whoami", "lookup"})
      /\ Of(GroupAdd(p), {"groupadd"}) /\ Of(UserAdd(p), {"useradd"})
  BY DEF InitContainer, KnownUser, GroupAdd, UserAdd, At, Now
<1> QED
  BY <1>1, <1>2, <1>3, <1>4, <1>5 DEF Step, SyncStep, FixingStep, NetworkStep

(* A step does to the containers and the network what its call is for, or   *)
(* nothing.                                                                 *)
LEMMA StepEffect ==
  ASSUME TypeInv, NEW p \in Procs, Step(p)
  PROVE  Effect(p) /\ (UNCHANGED net \/ Bridges(p) \/ Attaches(p))
<1> USE DEF Effect, Now, At, server
<1>1. CASE BootContainerSync(p) \/ StopContainerSync(p) \/ UpdateConfigSync(p)
  BY <1>1 DEF BootContainerSync, StopContainerSync, UpdateConfigSync
<1>2. CASE Start(p)
  BY <1>2 DEF Start, Refuse, Startable, Boots
<1>3. CASE Stop(p)
  BY <1>3 DEF Stop, Refuse, Halts
<1>4. CASE Delete(p)
  BY <1>4 DEF Delete, Refuse, Deletes
<1>5. CASE Ldconfig(p)
  <2>1. CASE UNCHANGED <<ct, net>>
    BY <2>1
  <2>2. CASE /\ ct[Now(p).ct].status = "Running" /\ UNCHANGED net
             /\ ct' = [ct EXCEPT ![Now(p).ct].ldconf = IF @ = "absent" THEN @ ELSE "loaded"]
    <3>1. ct' = [ct EXCEPT ![Now(p).ct].ldconf = "absent"]
          \/ ct' = [ct EXCEPT ![Now(p).ct].ldconf = "loaded"]
      BY <2>2
    <3> QED  BY <1>5, <2>2, <3>1 DEF Ldconfig, Loads, Present
  <2> QED  BY <1>5, <2>1, <2>2 DEF Ldconfig, Refuse
<1>6. CASE AddDeviceSync(p) \/ RemoveDeviceSync(p) \/ SetContainerConfig(p)
  BY <1>6 DEF AddDeviceSync, RemoveDeviceSync, SetContainerConfig, Edit
<1>7. CASE Put(p)
  BY <1>7 DEF Put, Refuse, Puts
<1>8. CASE Fix(p) \/ Check(p) \/ FixDevices(p) \/ FixDRI(p) \/ FixNvidia(p)
           \/ UpdateTargets(p)
  BY <1>8 DEF Fix, Check, FixDevices, FixDRI, FixNvidia, UpdateTargets
<1>9. CASE FixAccess(p)
  BY <1>9 DEF FixAccess, Refuse, Opens
<1>10. CASE WriteLDConf(p)
  <2>1. CASE UNCHANGED <<ct, net>>
    BY <2>1
  <2>2. CASE /\ Present(Now(p).ct) /\ UNCHANGED net
             /\ ct' = [ct EXCEPT ![Now(p).ct].ldconf = IF @ = "absent" THEN "written" ELSE @]
    <3>1. Now(p).ct \in Names /\ ct[Now(p).ct].ldconf \in {"absent", "written", "loaded"}
      BY <1>10, NowType DEF WriteLDConf, Call, TypeInv, TypeOK, LxdTypeOK, Container
    <3> DEFINE x == IF ct[Now(p).ct].ldconf = "absent" THEN "written"
                    ELSE ct[Now(p).ct].ldconf
    <3>2. x \in {"absent", "written", "loaded"}
      BY <3>1
    <3>3. ct' = [ct EXCEPT ![Now(p).ct].ldconf = x]
      BY <2>2
    <3> QED  BY <1>10, <2>2, <3>2, <3>3 DEF WriteLDConf, Loads
  <2> QED  BY <1>10, <2>1, <2>2 DEF WriteLDConf, Refuse
<1>11. CASE \/ ListContainers(p) \/ CreateBridgeNeeded(p) \/ LxdBridgeConfigured(p)
            \/ ProfileConfig(p) \/ ProfileDevice(p)
  BY <1>11 DEF ListContainers, CreateBridgeNeeded, LxdBridgeConfigured, ProfileConfig,
               ProfileDevice
<1>12. CASE NetworkCreate(p)
  BY <1>12 DEF NetworkCreate, Refuse, Bridges
<1>13. CASE ProfilePut(p)
  BY <1>13 DEF ProfilePut, Attaches
<1>14. CASE InitContainer(p)
  BY <1>14 DEF InitContainer, Refuse, Makes
<1>15. CASE KnownUser(p) \/ GroupAdd(p)
  BY <1>15 DEF KnownUser, GroupAdd
<1>16. CASE UserAdd(p)
  BY <1>16 DEF UserAdd, Refuse, Registers, Present
<1> QED
  BY <1>1, <1>2, <1>3, <1>4, <1>5, <1>6, <1>7, <1>8, <1>9, <1>10, <1>11, <1>12,
     <1>13, <1>14, <1>15, <1>16
  DEF Step, SyncStep, FixingStep, NetworkStep

(* Every step ends the current call.                                        *)
LEMMA StepMoves ==
  ASSUME TypeInv, NEW p \in Procs, Step(p)
  PROVE  /\ todo[p] # <<>> /\ Moves(p) /\ cmd' = cmd
         /\ \A q \in Procs \ {p} : todo'[q] = todo[q] /\ res'[q] = res[q]
<1>1. Types(p)
  BY SyncStepType, FixingStepType, NetworkStepType, InitContainerType,
     RegisterStepType DEF Step
<1> QED  BY <1>1, OthersSame DEF Types, Step

--------------------------------------------------------------------------------
(* What is left when a call ended without an error: first what it is        *)
(* replaced by, then the rest.                                              *)
LEMMA Rest ==
  ASSUME TypeInv, NEW p \in Procs, todo[p] # <<>>, NEW ts \in Seq(Call), Continue(p, ts)
  PROVE  /\ Len(ts) \in Nat /\ Len(todo[p]) \in Nat \ {0}
         /\ Now(p) = todo[p][1] /\ 1 \in DOMAIN todo[p]
         /\ DOMAIN todo[p] = 1..Len(todo[p])
         /\ DOMAIN todo'[p] = 1..(Len(ts) + Len(todo[p]) - 1)
         /\ \A i \in DOMAIN todo'[p] : i <= Len(ts) =>
              i \in DOMAIN ts /\ todo'[p][i] = ts[i]
         /\ \A i \in DOMAIN todo'[p] : i > Len(ts) =>
              i - Len(ts) + 1 \in DOMAIN todo[p] /\ todo'[p][i] = todo[p][i - Len(ts) + 1]
<1> DEFINE rest == ts \o Tail(todo[p])
<1>1. todo[p] \in Seq(Call) /\ todo'[p] = rest
  BY DEF TypeInv, TypeOK, Continue
<1>2. /\ Len(ts) \in Nat /\ Len(todo[p]) \in Nat \ {0}
      /\ Now(p) = todo[p][1] /\ 1 \in DOMAIN todo[p]
      /\ DOMAIN todo[p] = 1..Len(todo[p])
  BY <1>1 DEF Now
<1>3. /\ Len(rest) = Len(ts) + Len(todo[p]) - 1 /\ DOMAIN rest = 1..Len(rest)
      /\ \A i \in DOMAIN rest : i <= Len(ts) => i \in DOMAIN ts /\ rest[i] = ts[i]
      /\ \A i \in DOMAIN rest : i > Len(ts) =>
           i - Len(ts) + 1 \in DOMAIN todo[p] /\ rest[i] = todo[p][i - Len(ts) + 1]
  BY <1>1
<1> QED  BY <1>1, <1>2, <1>3

LEMMA RestShrinks ==
  ASSUME TypeInv, NEW p \in Procs, todo[p] # <<>>, Continue(p, <<>>)
  PROVE  Calls(p)' \subseteq Calls(p)
<1>1. ASSUME NEW ts \in Seq(Call), Len(ts) = 0, Continue(p, ts)
      PROVE  Calls(p)' \subseteq Calls(p)
  <2>1. /\ Len(todo[p]) \in Nat \ {0}
        /\ DOMAIN todo'[p] = 1..(Len(ts) + Len(todo[p]) - 1)
        /\ \A i \in DOMAIN todo'[p] : i > Len(ts) =>
              i - Len(ts) + 1 \in DOMAIN todo[p] /\ todo'[p][i] = todo[p][i - Len(ts) + 1]
    BY <1>1, Rest
  <2>2. \A i \in DOMAIN todo'[p] : i > Len(ts)
    BY <1>1, <2>1
  <2> QED  BY <2>1, <2>2 DEF Calls
<1>2. <<>> \in Seq(Call) /\ Len(<<>>) = 0
  OBVIOUS
<1> QED  BY <1>1, <1>2

(* A failed call ends the invocation or its rollback, starts the rollback,  *)
(* or is passed over.                                                       *)
Undo(p) == {Do("stop", cmd[p].ct, "drop"), Do("delete", cmd[p].ct, "drop")}

LEMMA Raised ==
  ASSUME TypeInv, NEW p \in Procs, Raise(p)
  PROVE  \/ Now(p).err \in {"fail", "drop"} /\ todo'[p] = <<>>
         \/ /\ Now(p).err = "rollback" /\ Calls(p)' \subseteq Undo(p)
            /\ todo'[p] = RemoveContainerSync(cmd[p].ct, "drop")
         \/ Now(p).err = "skip" /\ Continue(p, <<>>)
<1>1. todo \in [Procs -> Seq(Call)]
  BY DEF TypeInv, TypeOK
<1>2. CASE Now(p).err = "rollback"
  <2> DEFINE undo == RemoveContainerSync(cmd[p].ct, "drop")
  <2>1. todo'[p] = undo
    BY <1>1, <1>2 DEF Raise
  <2>2. \A i \in DOMAIN undo : undo[i] \in Undo(p)
    BY DEF RemoveContainerSync, Undo
  <2> HIDE DEF undo
  <2>3. Calls(p)' \subseteq Undo(p)
    BY <2>1, <2>2 DEF Calls
  <2> QED  BY <1>2, <2>1, <2>3 DEF undo
<1> QED  BY <1>1, <1>2 DEF Raise

(* The calls that are left after a move: some of those from before, some    *)
(* that the current call may be replaced by, or a rollback.                 *)
LEMMA MovesCalls ==
  ASSUME TypeInv, NEW p \in Procs, todo[p] # <<>>, Moves(p)
  PROVE  Calls(p)' \subseteq Calls(p) \cup After(Now(p))
                 \cup {c \in Undo(p) : Now(p).err = "rollback"}
<1>1. ASSUME NEW ts \in Seq(After(Now(p))), Continue(p, ts)
      PROVE  Calls(p)' \subseteq Calls(p) \cup After(Now(p))
  <2>1. ts \in Seq(Call)
    BY DEF After, Follow
  <2>2. \A i \in DOMAIN ts : ts[i] \in After(Now(p))
    OBVIOUS
  <2> QED  BY <1>1, <2>1, <2>2, Rest DEF Calls
<1>2. CASE Raise(p)
  <2>1. <<>> \in Seq(After(Now(p)))
    OBVIOUS
  <2>2. todo'[p] = <<>> => Calls(p)' = {}
    BY DEF Calls
  <2> QED  BY <1>1, <1>2, <2>1, <2>2, Raised
<1> QED  BY <1>1, <1>2 DEF Moves

(* The calls that a command line is written as.                             *)
Asks(c, k) ==
    /\ k.ct = c.ct
    /\ \/ c.kind = "create" /\ k.op = "init" /\ k.err = "fail"
       \/ /\ c.kind = "create" /\ k.err = "rollback"
          /\ k.op \in {"fix", "whoami", "boot", "lookup", "adddev", "groupadd", "useradd"}
       \/ c.kind = "create" /\ k.op = "update" /\ k.err = "drop"
       \/ /\ c.kind = "register" /\ k.err = "fail"
          /\ k.op \in {"whoami", "boot", "lookup", "adddev", "groupadd", "useradd"}
       \/ c.kind = "destroy" /\ k.op \in {"stop", "delete"} /\ k.err = "fail"
       \/ c.kind = "set" /\ k.op = "setflag" /\ k.val = c.flag /\ k.err = "fail"
       \/ c.kind = "autofix" /\ k.op \in {"fix", "targets"} /\ k.err = "fail"
       \/ c.kind = "autosetup" /\ k.op = "list" /\ k.err = "fail"
       \/ c.kind = "initialized" /\ k.op \in {"hasbridge", "check"} /\ k.err = "fail"
       \/ c.kind = "boot" /\ k.op = "boot" /\ k.err = "fail"
    /\ k.op = "adddev" => k.arg = k.val /\ k.arg \in {"tmp", c.user}

LEMMA RegisterAsks ==
  ASSUME NEW c \in Command, NEW err \in OnError,
         \/ c.kind = "create" /\ err = "rollback"
         \/ c.kind = "register" /\ err = "fail"
  PROVE  \A i \in DOMAIN RegisterUserInContainer(c.ct, c.user, err) :
            Asks(c, RegisterUserInContainer(c.ct, c.user, err)[i])
<1> DEFINE reg == RegisterUserInContainer(c.ct, c.user, err)
<1>1. \A i \in DOMAIN reg : i \in {1, 2, 3, 4, 5, 6}
  BY DEF RegisterUserInContainer
<1>2. /\ reg[1] = DoArg("whoami", c.ct, c.user, err) /\ reg[2] = Do("boot", c.ct, err)
      /\ reg[3] = DoArg("lookup", c.ct, c.user, err)
      /\ reg[4] = AddDevice(c.ct, c.user, c.user, err)
      /\ reg[5] = Do("groupadd", c.ct, err)
      /\ reg[6] = DoArg("useradd", c.ct, c.user, err)
  BY DEF RegisterUserInContainer
<1> HIDE DEF reg
<1>3. Asks(c, reg[1]) /\ Asks(c, reg[2]) /\ Asks(c, reg[3])
  BY <1>2 DEF Asks, DoArg, Do
<1>4. Asks(c, reg[4]) /\ Asks(c, reg[5]) /\ Asks(c, reg[6])
  BY <1>2 DEF Asks, DoArg, Do, AddDevice
<1> QED  BY <1>1, <1>3, <1>4 DEF reg

LEMMA FixAllAsks ==
  ASSUME NEW c \in Command, NEW err,
         \/ c.kind = "create" /\ err = "rollback"
         \/ c.kind = "autofix" /\ err = "fail"
  PROVE  \A i \in DOMAIN FixAll(c.ct, err) : Asks(c, FixAll(c.ct, err)[i])
  BY DEF FixAll, DoArg, Do, Asks

LEMMA ScriptAsks ==
  ASSUME NEW c \in Command
  PROVE  \A i \in DOMAIN Script(c) : Asks(c, Script(c)[i])
<1> DEFINE T == {k \in Call : Asks(c, k)}
<1>0. c.ct \in Names /\ c.user \in Users /\ "rollback" \in OnError /\ "fail" \in OnError
      /\ Script(c) \in Seq(Call)
  BY ScriptType DEF Command, OnError
<1>1. ASSUME NEW s \in Seq(Call), \A i \in DOMAIN s : Asks(c, s[i])
      PROVE  s \in Seq(T)
  BY <1>1
<1>2. CASE c.kind = "create"
  <2> DEFINE fixes == FixAll(c.ct, "rollback")
             tmp == <<AddDevice(c.ct, "tmp", "tmp", "rollback")>>
             reg == RegisterUserInContainer(c.ct, c.user, "rollback")
             last == <<Do("update", c.ct, "drop")>>
             init == <<DoVal("init", c.ct, c.flag, "fail")>>
  <2>1. fixes \in Seq(T) /\ reg \in Seq(T)
    <3>1. fixes \in Seq(Call) /\ reg \in Seq(Call)
      BY <1>0, FixAllType, RegisterType, FollowIsCall
    <3>2. \A i \in DOMAIN fixes : Asks(c, fixes[i])
      BY <1>2, FixAllAsks
    <3>3. \A i \in DOMAIN reg : Asks(c, reg[i])
      BY <1>0, <1>2, RegisterAsks
    <3> HIDE DEF fixes, reg, T
    <3> QED  BY <1>1, <3>1, <3>2, <3>3
  <2>2. init \in Seq(T) /\ tmp \in Seq(T) /\ last \in Seq(T)
    <3>1. /\ DoVal("init", c.ct, c.flag, "fail") \in Call
          /\ AddDevice(c.ct, "tmp", "tmp", "rollback") \in Call
          /\ Do("update", c.ct, "drop") \in Call
      BY <1>0, DoValType, AddDeviceType, DoType
      DEF Command, Val, PlainOps, Ops, NicOps, OnError, Dev, Path
    <3>2. /\ Asks(c, DoVal("init", c.ct, c.flag, "fail"))
          /\ Asks(c, AddDevice(c.ct, "tmp", "tmp", "rollback"))
          /\ Asks(c, Do("update", c.ct, "drop"))
      BY <1>2 DEF Asks, DoVal, AddDevice, DoArg, Do
    <3> HIDE DEF T
    <3> QED  BY <3>1, <3>2, OneCall DEF T
  <2>3. Script(c) = init \o (fixes \o (tmp \o (reg \o last)))
    BY <1>2 DEF Script, Create, AfterInit
  <2> HIDE DEF init, fixes, tmp, reg, last, T
  <2>4. reg \o last \in Seq(T)
    BY <2>1, <2>2, MoreCalls
  <2>5. tmp \o (reg \o last) \in Seq(T)
    BY <2>2, <2>4, MoreCalls
  <2>6. fixes \o (tmp \o (reg \o last)) \in Seq(T)
    BY <2>1, <2>5, MoreCalls
  <2>7. Script(c) \in Seq(T)
    BY <2>2, <2>3, <2>6, MoreCalls
  <2>8. \A i \in DOMAIN Script(c) : Script(c)[i] \in T
    BY <2>7
  <2> QED  BY <2>8 DEF T
<1>3. CASE c.kind = "register"
  BY <1>0, <1>3, RegisterAsks DEF Script
<1>4. CASE c.kind = "autofix"
  <2> DEFINE fixes == FixAll(c.ct, "fail")
             last == <<Do("targets", c.ct, "fail")>>
  <2>1. fixes \in Seq(Call) /\ last \in Seq(Call)
    BY <1>0, FixAllType, FollowIsCall, DoType DEF PlainOps, Ops
  <2>2. \A i \in DOMAIN fixes : Asks(c, fixes[i])
    BY <1>4, FixAllAsks
  <2>3. \A i \in DOMAIN last : Asks(c, last[i])
    BY <1>4 DEF Asks, Do
  <2>4. Script(c) = fixes \o last
    BY <1>4 DEF Script
  <2> HIDE DEF fixes, last
  <2> QED  BY <2>1, <2>2, <2>3, <2>4
<1>5. CASE c.kind = "initialized"
  <2> DEFINE first == <<Do("hasbridge", c.ct, "fail")>>
             checks == CheckAll(c.ct)
  <2>1. first \in Seq(Call) /\ checks \in Seq(Call)
    BY <1>0, CheckAllType, FollowIsCall, DoType DEF PlainOps, Ops
  <2>2. \A i \in DOMAIN first : Asks(c, first[i])
    BY <1>5 DEF Asks, Do
  <2>3. \A i \in DOMAIN checks : Asks(c, checks[i])
    BY <1>5 DEF CheckAll, DoArg, Do, Asks
  <2>4. Script(c) = first \o checks
    BY <1>5 DEF Script
  <2> HIDE DEF first, checks
  <2> QED  BY <2>1, <2>2, <2>3, <2>4
<1>6. CASE c.kind = "destroy"
  <2>1. Script(c) = <<Do("stop", c.ct, "fail"), Do("delete", c.ct, "fail")>>
    BY <1>6 DEF Script, RemoveContainerSync
  <2>2. Asks(c, Do("stop", c.ct, "fail")) /\ Asks(c, Do("delete", c.ct, "fail"))
    BY <1>6 DEF Do, Asks
  <2> QED  BY <2>1, <2>2
<1>7. CASE c.kind \in {"set", "autosetup", "boot"}
  <2>1. /\ c.kind = "set" => Script(c) = <<DoVal("setflag", c.ct, c.flag, "fail")>>
        /\ c.kind = "autosetup" => Script(c) = <<Do("list", c.ct, "fail")>>
        /\ c.kind = "boot" => Script(c) = <<Do("boot", c.ct, "fail")>>
    BY <1>7 DEF Script
  <2>2. /\ c.kind = "set" => Asks(c, DoVal("setflag", c.ct, c.flag, "fail"))
        /\ c.kind = "autosetup" => Asks(c, Do("list", c.ct, "fail"))
        /\ c.kind = "boot" => Asks(c, Do("boot", c.ct, "fail"))
    BY DEF DoVal, Do, Asks
  <2> QED  BY <1>7, <2>1, <2>2
<1> QED  BY <1>2, <1>3, <1>4, <1>5, <1>6, <1>7 DEF Command

(* A new invocation, and one that breaks off.                               *)
LEMMA Invoked ==
  ASSUME TypeInv, NEW p \in Procs, Invoke(p)
  PROVE  \E c \in Menu :
           /\ c \in Command /\ cmd'[p] = c /\ todo'[p] = Script(c) /\ res'[p] = "running"
           /\ \A k \in Calls(p)' : Asks(c, k)
           /\ res[p] = "idle" /\ UNCHANGED <<ct, net>>
           /\ \A q \in Procs \ {p} :
                todo'[q] = todo[q] /\ res'[q] = res[q] /\ cmd'[q] = cmd[q]
<1>1. PICK c \in Menu : /\ cmd' = [cmd EXCEPT ![p] = c]
                        /\ todo' = [todo EXCEPT ![p] = Script(c)]
  BY DEF Invoke
<1>2. c \in Command
  BY TargetAssumption
<1>3. /\ todo'[p] = Script(c) /\ cmd'[p] = c
      /\ res[p] = "idle" /\ res'[p] = "running" /\ UNCHANGED <<ct, net>>
      /\ \A q \in Procs \ {p} :
            todo'[q] = todo[q] /\ res'[q] = res[q] /\ cmd'[q] = cmd[q]
  BY <1>1 DEF Invoke, world, TypeInv, TypeOK
<1>4. \A k \in Calls(p)' : Asks(c, k)
  BY <1>2, <1>3, ScriptAsks DEF Calls
<1> QED  BY <1>2, <1>3, <1>4

LEMMA BrokenOff ==
  ASSUME TypeInv, NEW p \in Procs, Break(p)
  PROVE  /\ cmd' = cmd /\ UNCHANGED <<ct, net>>
         /\ \A q \in Procs \ {p} : todo'[q] = todo[q] /\ res'[q] = res[q]
         /\ \/ todo[p] # <<>> /\ Raise(p)
            \/ todo'[p] = <<>> /\ Calls(p)' = {} /\ res'[p] = "killed" /\ Active(p)
<1>1. CASE Fault(p)
  <2>1. Moves(p)
    BY <1>1 DEF Fault, Moves
  <2> QED  BY <1>1, <2>1, OthersSame DEF Break, Fault, server
<1>2. CASE Kill(p)
  <2>1. /\ todo'[p] = <<>> /\ res'[p] = "killed"
        /\ \A q \in Procs \ {p} : todo'[q] = todo[q] /\ res'[q] = res[q]
    BY <1>2 DEF Kill, TypeInv, TypeOK
  <2>2. Calls(p)' = {}
    BY <2>1 DEF Calls
  <2> QED  BY <1>2, <2>1, <2>2 DEF Break, Kill, server
<1> QED  BY <1>1, <1>2 DEF Break

LEMMA NextCases ==
  ASSUME [Next]_vars
  PROVE  \/ \E p \in Procs : Invoke(p) \/ Step(p) \/ Break(p)
         \/ UNCHANGED <<ct, net, cmd, todo, res>>
  BY DEF Next, Replug, UpgradeDriver, ChangeHost, server, vars

--------------------------------------------------------------------------------
(* The bridge of the tools is there before anything is attached to it: the  *)
(* profile is only looked at right behind a NetworkCreate whose failure     *)
(* ends the command, and the name goes from there into the requests.        *)
BridgeFirst(p) ==
    \A i \in DOMAIN todo[p] :
        /\ todo[p][i].op \in NicOps /\ todo[p][i].val = "sdkbr0" => "sdkbr0" \in net.bridges
        /\ todo[p][i].op = "profile" =>
             \/ "sdkbr0" \in net.bridges
             \/ i = 2 /\ todo[p][1].op = "netcreate" /\ todo[p][1].err = "fail"

BridgeInv == TypeInv /\ Eth0HasBridge /\ \A p \in Procs : BridgeFirst(p)

(* A bridge that is there stays.                                            *)
LEMMA BridgesStay ==
  ASSUME TypeInv, NEW p \in Procs, Step(p)
  PROVE  /\ "sdkbr0" \in net.bridges => "sdkbr0" \in net'.bridges
         /\ Bridges(p) => "sdkbr0" \in net'.bridges
         /\ \/ net'.eth0 = net.eth0
            \/ Attaches(p) /\ net'.eth0 = Now(p).val
<1>1. net \in Net
  BY DEF TypeInv, TypeOK, LxdTypeOK
<1>2. UNCHANGED net \/ Bridges(p) \/ Attaches(p)
  BY StepEffect
<1>3. CASE Bridges(p)
  <2>1. net' = [net EXCEPT !.bridges = @ \cup {"sdkbr0"}]
    BY <1>3 DEF Bridges
  <2> QED  BY <1>1, <2>1 DEF Net
<1>4. CASE Attaches(p)
  <2>1. net' = [net EXCEPT !.eth0 = Now(p).val]
    BY <1>4 DEF Attaches
  <2>2. ~Bridges(p)
    BY <1>4 DEF Attaches, Bridges
  <2> QED  BY <1>1, <1>4, <2>1, <2>2 DEF Net
<1>5. CASE UNCHANGED net /\ ~Bridges(p)
  BY <1>5
<1> QED  BY <1>2, <1>3, <1>4, <1>5

(* The parts of the network calls that come first keep the order.           *)
LEMMA ContinueBridges ==
  ASSUME BridgeInv, NEW p \in Procs, todo[p] # <<>>,
         "sdkbr0" \in net.bridges => "sdkbr0" \in net'.bridges,
         NEW ts \in Seq(After(Now(p))), Continue(p, ts),
         \/ Now(p).op \notin {"bridge", "netcreate"}
         \/ Now(p).op = "netcreate" /\ ts = <<>> /\ Now(p).err # "fail"
         \/ /\ Now(p).op = "bridge"
            /\ \/ ts = <<>>
               \/ ts = <<Do("netcreate", Now(p).ct, "fail"), Do("profile", Now(p).ct, "fail")>>
  PROVE  BridgeFirst(p)'
<1>1. ts \in Seq(Call) /\ TypeInv /\ BridgeFirst(p)
  BY DEF After, Follow, BridgeInv
<1>2. SUFFICES ASSUME NEW i \in DOMAIN todo'[p]
      PROVE  /\ todo'[p][i].op \in NicOps /\ todo'[p][i].val = "sdkbr0"
                  => "sdkbr0" \in net'.bridges
             /\ todo'[p][i].op = "profile" =>
                  \/ "sdkbr0" \in net'.bridges
                  \/ i = 2 /\ todo'[p][1].op = "netcreate" /\ todo'[p][1].err = "fail"
  BY DEF BridgeFirst
<1>3. /\ Len(ts) \in Nat /\ Now(p) = todo[p][1] /\ 1 \in DOMAIN todo[p] /\ i \in Nat
      /\ i <= Len(ts) => i \in DOMAIN ts /\ todo'[p][i] = ts[i]
      /\ i > Len(ts) =>
           i - Len(ts) + 1 \in DOMAIN todo[p] /\ todo'[p][i] = todo[p][i - Len(ts) + 1]
  BY <1>1, Rest
<1>4. CASE i > Len(ts)
  <2> DEFINE j == i - Len(ts) + 1
  <2>1. j \in DOMAIN todo[p] /\ todo'[p][i] = todo[p][j] /\ j # 1
    BY <1>3, <1>4
  <2>2. j = 2 /\ todo[p][1].op = "netcreate" /\ todo[p][1].err = "fail"
          => "sdkbr0" \in net'.bridges
    BY <1>3
  <2> HIDE DEF j
  <2> QED  BY <1>1, <2>1, <2>2 DEF BridgeFirst
<1>5. CASE i <= Len(ts)
  <2>1. i \in DOMAIN ts /\ todo'[p][i] = ts[i] /\ ts[i] \in After(Now(p))
    BY <1>3, <1>5
  <2>2. CASE Now(p).op = "bridge"
    <3>1. /\ ts = <<Do("netcreate", Now(p).ct, "fail"), Do("profile", Now(p).ct, "fail")>>
          /\ Len(ts) = 2 /\ 1 \in DOMAIN todo'[p] /\ todo'[p][1] = ts[1] /\ i \in {1, 2}
      BY <1>1, <1>3, <2>1, <2>2, Rest
    <3> QED  BY <2>1, <3>1 DEF Do, NicOps
  <2>3. CASE Now(p).op \notin {"bridge", "netcreate"}
    <3>1. ts[i].op # "profile"
      <4>1. Now(p) \in Call
        BY <1>1, NowType
      <4> QED
        BY <2>1, <2>3, <4>1
        DEF After, Parts, Changes, Spreads, Repairs, Connects, Call, Fixables
    <3>2. ts[i].op \in NicOps /\ ts[i].val = "sdkbr0" =>
            \/ Now(p).op = "profile"
            \/ Now(p).op \in NicOps /\ Now(p).val = "sdkbr0"
      <4>1. Now(p) \in Call
        BY <1>1, NowType
      <4> QED
        BY <2>1, <2>3, <4>1
        DEF After, Parts, Changes, Spreads, Repairs, Connects, Call, Fixables, NicOps
    <3>3. Now(p).op = "profile" => "sdkbr0" \in net.bridges
      BY <1>1, <1>3 DEF BridgeFirst
    <3>4. Now(p).op \in NicOps /\ Now(p).val = "sdkbr0" => "sdkbr0" \in net.bridges
      BY <1>1, <1>3 DEF BridgeFirst
    <3> QED  BY <2>1, <3>1, <3>2, <3>3, <3>4
  <2> QED  BY <1>5, <2>1, <2>2, <2>3
<1> QED  BY <1>3, <1>4, <1>5

LEMMA RaiseBridges ==
  ASSUME BridgeInv, NEW p \in Procs, todo[p] # <<>>, Raise(p),
         "sdkbr0" \in net.bridges => "sdkbr0" \in net'.bridges
  PROVE  BridgeFirst(p)'
<1>1. TypeInv
  BY DEF BridgeInv
<1>2. CASE todo'[p] = <<>>
  BY <1>2 DEF BridgeFirst
<1>3. CASE Calls(p)' \subseteq Undo(p)
  BY <1>3 DEF BridgeFirst, Calls, Undo, Do, NicOps
<1>4. CASE Now(p).err = "skip" /\ Continue(p, <<>>)
  <2>1. <<>> \in Seq(After(Now(p)))
    OBVIOUS
  <2> QED  BY <1>4, <2>1, ContinueBridges
<1> QED  BY <1>1, <1>2, <1>3, <1>4, Raised

LEMMA StepBridges ==
  ASSUME BridgeInv, NEW p \in Procs, Step(p)
  PROVE  BridgeFirst(p)'
<1> DEFINE t == Now(p)
<1>1. /\ TypeInv /\ todo[p] # <<>> /\ Moves(p)
      /\ "sdkbr0" \in net.bridges => "sdkbr0" \in net'.bridges
  BY StepMoves, BridgesStay DEF BridgeInv
<1>2. CASE t.op = "netcreate"
  <2>1. NetworkCreate(p)
    BY <1>2, StepOf
  <2>2. CASE Raise(p)
    BY <1>1, <2>2, RaiseBridges
  <2>3. CASE ~Raise(p)
    <3>1. Continue(p, <<>>) /\ net' = [net EXCEPT !.bridges = @ \cup {"sdkbr0"}]
      BY <2>1, <2>3 DEF NetworkCreate, Answer, Refuse
    <3>2. "sdkbr0" \in net'.bridges
      BY <1>1, <3>1 DEF TypeInv, TypeOK, LxdTypeOK, Net
    <3> QED  BY <3>2 DEF BridgeFirst
  <2> QED  BY <2>2, <2>3
<1>3. CASE t.op = "bridge"
  <2> DEFINE create == <<Do("netcreate", t.ct, "fail"), Do("profile", t.ct, "fail")>>
  <2>1. Continue(p, <<>>) \/ Continue(p, create)
    BY <1>3, StepOf DEF CreateBridgeNeeded
  <2>2. <<>> \in Seq(After(t)) /\ create \in Seq(After(t))
    <3>1. t.ct \in Names /\ {"fail", "skip"} \subseteq OnError
      BY <1>1, NowType DEF Call, OnError
    <3>2. Do("netcreate", t.ct, "fail") \in Follow(t.err) /\ Do("profile", t.ct, "fail") \in Follow(t.err)
      BY <3>1, DoFollows DEF PlainOps, Ops
    <3>3. Do("netcreate", t.ct, "fail") \in After(t) /\ Do("profile", t.ct, "fail") \in After(t)
      BY <1>3, <3>2 DEF After, Connects, Do
    <3> QED  BY <3>3, TwoCalls
  <2> HIDE DEF create
  <2>3. ASSUME NEW ts \in Seq(After(t)), Continue(p, ts), ts = <<>> \/ ts = create
        PROVE  BridgeFirst(p)'
    BY <1>1, <1>3, <2>3, ContinueBridges DEF create
  <2> QED  BY <2>1, <2>2, <2>3
<1>4. CASE t.op \notin {"bridge", "netcreate"}
  BY <1>1, <1>4, ContinueBridges, RaiseBridges DEF Moves
<1> QED  BY <1>2, <1>3, <1>4

(* The default profile is only attached to the bridge of the tools once     *)
(* that bridge exists, however many autosetups run at once, whatever fails  *)
(* and whoever is killed: NetworkCreate comes first, its failure ends the   *)
(* command, and the name of the bridge only enters requests behind it.      *)
THEOREM BridgeBeforeEth0 ==
  ASSUME \A w \in Worlds : w.net.eth0 = "sdkbr0" => "sdkbr0" \in w.net.bridges
  PROVE  Spec => []Eth0HasBridge
<1>1. Init => BridgeInv
  BY InitType DEF Init, BridgeInv, Eth0HasBridge, BridgeFirst
<1>2. BridgeInv /\ [Next]_vars => BridgeInv'
  <2> SUFFICES ASSUME BridgeInv, [Next]_vars PROVE BridgeInv'
    OBVIOUS
  <2>0. TypeInv /\ TypeInv'
    BY NextType DEF BridgeInv
  <2>1. ASSUME NEW p \in Procs, Step(p) PROVE Eth0HasBridge' /\ \A q \in Procs : BridgeFirst(q)'
    <3>1. /\ "sdkbr0" \in net.bridges => "sdkbr0" \in net'.bridges
          /\ \/ net'.eth0 = net.eth0
             \/ Attaches(p) /\ net'.eth0 = Now(p).val
      BY <2>0, <2>1, BridgesStay
    <3>2. Attaches(p) /\ Now(p).val = "sdkbr0" => "sdkbr0" \in net.bridges
      <4>1. todo[p] # <<>> /\ todo[p] \in Seq(Call)
        BY <2>0, <2>1, StepMoves DEF TypeInv, TypeOK
      <4>2. 1 \in DOMAIN todo[p] /\ Now(p) = todo[p][1]
        BY <4>1 DEF Now
      <4> QED  BY <4>2 DEF Attaches, BridgeInv, BridgeFirst, NicOps
    <3>3. Eth0HasBridge'
      BY <3>1, <3>2 DEF BridgeInv, Eth0HasBridge
    <3>4. ASSUME NEW q \in Procs, q # p PROVE BridgeFirst(q)'
      BY <2>0, <2>1, <3>1, <3>4, StepMoves DEF BridgeInv, BridgeFirst
    <3> QED  BY <2>1, <3>3, <3>4, StepBridges
  <2>2. ASSUME NEW p \in Procs, Break(p) PROVE Eth0HasBridge' /\ \A q \in Procs : BridgeFirst(q)'
    <3>1. net' = net /\ \A q \in Procs \ {p} : todo'[q] = todo[q]
      BY <2>0, <2>2, BrokenOff
    <3>2. Eth0HasBridge' /\ \A q \in Procs \ {p} : BridgeFirst(q)'
      BY <3>1 DEF BridgeInv, Eth0HasBridge, BridgeFirst
    <3>3. todo'[p] = <<>> => BridgeFirst(p)'
      BY DEF BridgeFirst
    <3> QED  BY <2>0, <2>2, <3>1, <3>2, <3>3, BrokenOff, RaiseBridges
  <2>3. ASSUME NEW p \in Procs, Invoke(p) PROVE Eth0HasBridge' /\ \A q \in Procs : BridgeFirst(q)'
    <3>1. /\ net' = net /\ \A q \in Procs \ {p} : todo'[q] = todo[q]
          /\ \E c \in Command : \A k \in Calls(p)' : Asks(c, k)
      BY <2>0, <2>3, Invoked
    <3>2. Eth0HasBridge' /\ \A q \in Procs \ {p} : BridgeFirst(q)'
      BY <3>1 DEF BridgeInv, Eth0HasBridge, BridgeFirst
    <3>3. \A k \in Calls(p)' : k.op \notin NicOps /\ k.op # "profile"
      BY <3>1 DEF Asks, NicOps
    <3>4. BridgeFirst(p)'
      BY <3>3 DEF BridgeFirst, Calls
    <3> QED  BY <3>2, <3>4
  <2>4. CASE UNCHANGED <<ct, net, cmd, todo, res>>
    BY <2>0, <2>4 DEF BridgeInv, Eth0HasBridge, BridgeFirst
  <2> QED
    BY <2>0, <2>1, <2>2, <2>3, <2>4, NextCases DEF BridgeInv
<1>3. BridgeInv => Eth0HasBridge
  BY DEF BridgeInv
<1> QED  BY <1>1, <1>2, <1>3, PTL DEF Spec

--------------------------------------------------------------------------------
(* The users that are refused, and the call that refuses one.               *)
Refused == {"root", "nouser"}
Guards(c, u) ==
    /\ c.op = (IF u = "nouser" THEN "whoami" ELSE "lookup") /\ c.arg = u
    /\ c.err \in {"fail", "rollback"}

(* In a sequence of calls, a user who is refused is looked up before the    *)
(* account is made.                                                         *)
LookedUp(s) ==
    \A i \in DOMAIN s : \A u \in Refused :
        s[i].op = "useradd" /\ s[i].arg = u =>
            \E j \in DOMAIN s : j < i /\ Guards(s[j], u)

UserInv == TypeInv /\ RootNotRegistered /\ \A p \in Procs : LookedUp(todo[p])

(* Calls that make no account may come before or after.                     *)
LEMMA LookedUpJoined ==
  ASSUME NEW s \in Seq(Call), NEW r \in Seq(Call), LookedUp(s),
         \A i \in DOMAIN r : r[i].op # "useradd"
  PROVE  LookedUp(s \o r) /\ LookedUp(r \o s)
<1>1. /\ DOMAIN s = 1..Len(s) /\ DOMAIN r = 1..Len(r) /\ Len(s) \in Nat /\ Len(r) \in Nat
      /\ DOMAIN (s \o r) = 1..(Len(s) + Len(r)) /\ DOMAIN (r \o s) = 1..(Len(r) + Len(s))
  OBVIOUS
<1>2. /\ \A i \in 1..Len(s) : (s \o r)[i] = s[i] /\ (r \o s)[i + Len(r)] = s[i]
      /\ \A i \in 1..Len(r) : (r \o s)[i] = r[i] /\ (s \o r)[i + Len(s)] = r[i]
  OBVIOUS
<1> DEFINE sr == s \o r
           rs == r \o s
<1> HIDE DEF sr, rs
<1>3. ASSUME NEW i \in DOMAIN sr, NEW u \in Refused, sr[i].op = "useradd", sr[i].arg = u
      PROVE  \E j \in DOMAIN sr : j < i /\ Guards(sr[j], u)
  <2>1. i \in 1..Len(s)
    <3>1. i \notin 1..Len(s) => i - Len(s) \in 1..Len(r) /\ i = (i - Len(s)) + Len(s)
      BY <1>1 DEF sr
    <3> QED  BY <1>1, <1>2, <1>3, <3>1 DEF sr
  <2>2. PICK j \in DOMAIN s : j < i /\ Guards(s[j], u)
    BY <1>1, <1>2, <1>3, <2>1 DEF LookedUp, sr
  <2>3. j \in DOMAIN sr /\ sr[j] = s[j]
    BY <1>1, <1>2 DEF sr
  <2> QED  BY <2>2, <2>3
<1>4. ASSUME NEW i \in DOMAIN rs, NEW u \in Refused, rs[i].op = "useradd", rs[i].arg = u
      PROVE  \E j \in DOMAIN rs : j < i /\ Guards(rs[j], u)
  <2> DEFINE k == i - Len(r)
  <2>1. k \in 1..Len(s) /\ i = k + Len(r)
    <3>1. i \notin 1..Len(r)
      BY <1>1, <1>2, <1>4 DEF rs
    <3> QED  BY <1>1, <3>1 DEF rs
  <2>2. rs[i] = s[k]
    BY <1>2, <2>1 DEF rs
  <2> HIDE DEF k
  <2>3. PICK j \in DOMAIN s : j < k /\ Guards(s[j], u)
    BY <1>1, <1>4, <2>1, <2>2 DEF LookedUp
  <2>4. j + Len(r) \in DOMAIN rs /\ rs[j + Len(r)] = s[j] /\ j + Len(r) < i
    BY <1>1, <1>2, <2>1, <2>3 DEF rs
  <2> QED  BY <2>3, <2>4
<1> QED  BY <1>3, <1>4 DEF LookedUp, sr, rs

LEMMA RegisterLooksUp ==
  ASSUME NEW n, NEW u, NEW err \in {"fail", "rollback"}
  PROVE  LookedUp(RegisterUserInContainer(n, u, err))
<1> DEFINE reg == RegisterUserInContainer(n, u, err)
<1>1. DOMAIN reg = 1..6
  BY DEF RegisterUserInContainer
<1>2. /\ reg[1] = DoArg("whoami", n, u, err) /\ reg[2] = Do("boot", n, err)
      /\ reg[3] = DoArg("lookup", n, u, err) /\ reg[4] = AddDevice(n, u, u, err)
      /\ reg[5] = Do("groupadd", n, err) /\ reg[6] = DoArg("useradd", n, u, err)
  BY DEF RegisterUserInContainer
<1> HIDE DEF reg
<1>3. /\ reg[1].op = "whoami" /\ reg[2].op = "boot" /\ reg[3].op = "lookup"
      /\ reg[4].op = "adddev" /\ reg[5].op = "groupadd"
      /\ reg[1].arg = u /\ reg[1].err = err /\ reg[3].arg = u /\ reg[3].err = err
      /\ reg[6].arg = u
  BY <1>2 DEF DoArg, Do, AddDevice
<1>4. \A i \in DOMAIN reg : reg[i].op = "useradd" => i = 6
  <2>1. \A i \in 1..6 : i \in {1, 2, 3, 4, 5, 6}
    OBVIOUS
  <2> QED  BY <1>1, <1>3, <2>1
<1>5. Guards(reg[1], "nouser") \/ Guards(reg[3], "root") \/ u \notin Refused
  BY <1>3 DEF Guards, Refused
<1>6. u = "nouser" => Guards(reg[1], u)
  BY <1>3 DEF Guards
<1>7. u = "root" => Guards(reg[3], u)
  BY <1>3 DEF Guards
<1> QED  BY <1>1, <1>3, <1>4, <1>6, <1>7 DEF LookedUp, Refused, reg

(* Every command looks up whom it registers.                                *)
LEMMA ScriptLooksUp ==
  ASSUME NEW c \in Command
  PROVE  LookedUp(Script(c))
<1>0. c.ct \in Names /\ c.user \in Users /\ "rollback" \in OnError
  BY DEF Command, OnError
<1>1. CASE c.kind = "create"
  <2> DEFINE fixes == FixAll(c.ct, "rollback")
             tmp == <<AddDevice(c.ct, "tmp", "tmp", "rollback")>>
             reg == RegisterUserInContainer(c.ct, c.user, "rollback")
             last == <<Do("update", c.ct, "drop")>>
             init == <<DoVal("init", c.ct, c.flag, "fail")>>
  <2>1. fixes \in Seq(Call) /\ \A i \in DOMAIN fixes : fixes[i].op # "useradd"
    <3>1. fixes \in Seq(Call)
      BY <1>0, FixAllType, FollowIsCall
    <3> QED  BY <3>1 DEF FixAll, DoArg, Do
  <2>2. reg \in Seq(Call) /\ LookedUp(reg)
    BY <1>0, RegisterType, FollowIsCall, RegisterLooksUp
  <2>3. init \in Seq(Call) /\ tmp \in Seq(Call) /\ last \in Seq(Call)
    <3>1. /\ DoVal("init", c.ct, c.flag, "fail") \in Call
          /\ AddDevice(c.ct, "tmp", "tmp", "rollback") \in Call
          /\ Do("update", c.ct, "drop") \in Call
      BY <1>0, DoValType, AddDeviceType, DoType
      DEF Command, Val, PlainOps, Ops, NicOps, OnError, Dev, Path
    <3> QED  BY <3>1, OneCall
  <2>4. /\ \A i \in DOMAIN init : init[i].op # "useradd"
        /\ \A i \in DOMAIN tmp : tmp[i].op # "useradd"
        /\ \A i \in DOMAIN last : last[i].op # "useradd"
    <3>1. /\ DoVal("init", c.ct, c.flag, "fail").op # "useradd"
          /\ AddDevice(c.ct, "tmp", "tmp", "rollback").op # "useradd"
          /\ Do("update", c.ct, "drop").op # "useradd"
      BY DEF DoVal, AddDevice, DoArg, Do
    <3>2. \A c1 : \A i \in DOMAIN <<c1>> : <<c1>>[i] = c1
      OBVIOUS
    <3> QED  BY <3>1, <3>2
  <2>5. Script(c) = init \o (fixes \o (tmp \o (reg \o last)))
    BY <1>1 DEF Script, Create, AfterInit
  <2> HIDE DEF init, fixes, tmp, reg, last
  <2>6. reg \o last \in Seq(Call) /\ LookedUp(reg \o last)
    BY <2>2, <2>3, <2>4, LookedUpJoined
  <2>7. tmp \o (reg \o last) \in Seq(Call) /\ LookedUp(tmp \o (reg \o last))
    BY <2>3, <2>4, <2>6, MoreCalls, LookedUpJoined
  <2>8. fixes \o (tmp \o (reg \o last)) \in Seq(Call)
        /\ LookedUp(fixes \o (tmp \o (reg \o last)))
    BY <2>1, <2>7, MoreCalls, LookedUpJoined
  <2> QED  BY <2>3, <2>4, <2>5, <2>8, LookedUpJoined
<1>2. CASE c.kind = "register"
  BY <1>2, RegisterLooksUp DEF Script
<1>3. CASE c.kind \notin {"create", "register"}
  BY <1>3, ScriptAsks DEF Asks, LookedUp
<1> QED  BY <1>1, <1>2, <1>3

(* A call that ends without an error was no refusal.                        *)
LEMMA ContinueLooksUp ==
  ASSUME UserInv, NEW p \in Procs, todo[p] # <<>>,
         NEW ts \in Seq(After(Now(p))), Continue(p, ts),
         \A u \in Refused : ~Guards(Now(p), u)
  PROVE  LookedUp(todo'[p])
<1>1. ts \in Seq(Call) /\ TypeInv /\ LookedUp(todo[p]) /\ Now(p) \in Call
  BY NowType DEF After, Follow, UserInv
<1>2. \A i \in DOMAIN ts : ts[i].op # "useradd"
  <2>1. \A c \in After(Now(p)) : c.op # "useradd"
    BY <1>1
    DEF After, Parts, Changes, Spreads, Repairs, Connects, Call, Fixables
  <2> QED  BY <2>1
<1>3. /\ Len(ts) \in Nat /\ Len(todo[p]) \in Nat \ {0} /\ Now(p) = todo[p][1]
      /\ DOMAIN todo[p] = 1..Len(todo[p])
      /\ DOMAIN todo'[p] = 1..(Len(ts) + Len(todo[p]) - 1)
      /\ \A i \in DOMAIN todo'[p] : i <= Len(ts) => i \in DOMAIN ts /\ todo'[p][i] = ts[i]
      /\ \A i \in DOMAIN todo'[p] : i > Len(ts) =>
           i - Len(ts) + 1 \in DOMAIN todo[p] /\ todo'[p][i] = todo[p][i - Len(ts) + 1]
  BY <1>1, Rest
<1>4. SUFFICES ASSUME NEW i \in DOMAIN todo'[p], NEW u \in Refused,
                      todo'[p][i].op = "useradd", todo'[p][i].arg = u
      PROVE  \E j \in DOMAIN todo'[p] : j < i /\ Guards(todo'[p][j], u)
  BY DEF LookedUp
<1> DEFINE k == i - Len(ts) + 1
<1>5. i > Len(ts) /\ k \in DOMAIN todo[p] /\ todo'[p][i] = todo[p][k]
  BY <1>2, <1>3, <1>4, SMTT(30)
<1>6. PICK j \in DOMAIN todo[p] : j < k /\ Guards(todo[p][j], u)
  BY <1>1, <1>4, <1>5 DEF LookedUp
<1>7. j # 1
  BY <1>3, <1>6
<1>8. /\ j - 1 + Len(ts) \in DOMAIN todo'[p] /\ j - 1 + Len(ts) < i
      /\ j - 1 + Len(ts) > Len(ts) /\ (j - 1 + Len(ts)) - Len(ts) + 1 = j
  BY <1>3, <1>5, <1>6, <1>7, SMTT(30)
<1>9. todo'[p][j - 1 + Len(ts)] = todo[p][j]
  BY <1>3, <1>8
<1> QED  BY <1>6, <1>8, <1>9

LEMMA RaiseLooksUp ==
  ASSUME UserInv, NEW p \in Procs, todo[p] # <<>>, Raise(p)
  PROVE  LookedUp(todo'[p])
<1>1. TypeInv
  BY DEF UserInv
<1>2. CASE todo'[p] = <<>>
  BY <1>2 DEF LookedUp
<1>3. CASE Calls(p)' \subseteq Undo(p)
  BY <1>3 DEF LookedUp, Calls, Undo, Do
<1>4. CASE Now(p).err = "skip" /\ Continue(p, <<>>)
  <2>1. <<>> \in Seq(After(Now(p)))
    OBVIOUS
  <2> QED  BY <1>4, <2>1, ContinueLooksUp DEF Guards
<1> QED  BY <1>1, <1>2, <1>3, <1>4, Raised

LEMMA StepUsers ==
  ASSUME UserInv, NEW p \in Procs, Step(p)
  PROVE  RootNotRegistered' /\ LookedUp(todo'[p])
<1> DEFINE t == Now(p)
<1>1. TypeInv /\ todo[p] # <<>> /\ Moves(p) /\ t \in Call
  BY StepMoves, NowType DEF UserInv
<1>2. Raise(p) => LookedUp(todo'[p])
  BY <1>1, RaiseLooksUp
<1>3. ASSUME ~Raise(p) PROVE LookedUp(todo'[p])
  <2>1. ASSUME NEW u \in Refused, Guards(t, u) PROVE FALSE
    <3>1. KnownUser(p)
      BY <2>1, StepOf DEF Guards
    <3> QED  BY <1>3, <2>1, <3>1 DEF KnownUser, Guards, Refused, At, Now
  <2>2. \A u \in Refused : ~Guards(t, u)
    BY <2>1
  <2> QED  BY <1>1, <1>3, <2>2, ContinueLooksUp DEF Moves
<1>4. t.op = "useradd" => t.arg \notin Refused
  <2>1. todo[p] \in Seq(Call)
    BY <1>1 DEF TypeInv, TypeOK
  <2>2. 1 \in DOMAIN todo[p] /\ t = todo[p][1] /\ \A j \in DOMAIN todo[p] : ~(j < 1)
    BY <1>1, <2>1 DEF Now
  <2> QED  BY <2>2 DEF UserInv, LookedUp
<1>5. RootNotRegistered'
  <2> SUFFICES ASSUME NEW n \in Names PROVE ct'[n].users \cap Refused = {}
    BY DEF RootNotRegistered, Refused
  <2>1. ct[n].users \cap Refused = {} /\ ct \in [Names -> Container] /\ t.ct \in Names
    BY <1>1 DEF UserInv, RootNotRegistered, Refused, TypeInv, TypeOK, LxdTypeOK, Call
  <2>2. Effect(p)
    BY <1>1, StepEffect
  <2>3. CASE Registers(p)
    <3>1. ct'[n].users = ct[n].users \/ (n = t.ct /\ ct'[n].users = ct[n].users \cup {t.arg})
      BY <2>1, <2>3 DEF Registers, Container
    <3>2. t.arg \notin Refused
      BY <1>4, <2>3 DEF Registers
    <3> QED  BY <2>1, <3>1, <3>2
  <2>4. CASE Makes(p) \/ Deletes(p)
    <3>1. CASE Makes(p)
      BY <2>1, <3>1 DEF Makes, NoContainer
    <3>2. CASE Deletes(p)
      BY <2>1, <3>2 DEF Deletes, NoContainer
    <3> QED  BY <2>4, <3>1, <3>2
  <2>5. CASE Halts(p)
    <3>1. ct'[n] = ct[n] \/ ct'[n] = AfterStop(ct[n])
      BY <2>1, <2>5 DEF Halts
    <3>2. AfterStop(ct[n]).users = {} \/ AfterStop(ct[n]).users = ct[n].users
      BY <2>1 DEF AfterStop, NoContainer, Container
    <3> QED  BY <2>1, <3>1, <3>2
  <2>6. CASE Boots(p) \/ Puts(p) \/ Opens(p)
    <3>1. ct'[n].users = ct[n].users
      BY <2>1, <2>6 DEF Boots, Puts, Opens, Container
    <3> QED  BY <2>1, <3>1
  <2>7. CASE Loads(p)
    <3>1. ct'[n].users = ct[n].users
      BY <2>1, <2>7 DEF Loads, Container
    <3> QED  BY <2>1, <3>1
  <2> QED  BY <2>1, <2>2, <2>3, <2>4, <2>5, <2>6, <2>7 DEF Effect
<1> QED  BY <1>2, <1>3, <1>5

(* Neither root nor a user that the environment does not name is ever       *)
(* registered in a container, by register or by create, whatever is         *)
(* interleaved and whatever fails: both are looked up earlier in the same   *)
(* run, and no error of that look-up is passed over.                        *)
THEOREM RootRefused ==
  ASSUME \A w \in Worlds : \A n \in Names : w.ct[n].users \cap {"root", "nouser"} = {}
  PROVE  Spec => []RootNotRegistered
<1>1. Init => UserInv
  BY InitType DEF Init, UserInv, RootNotRegistered, LookedUp
<1>2. UserInv /\ [Next]_vars => UserInv'
  <2> SUFFICES ASSUME UserInv, [Next]_vars PROVE UserInv'
    OBVIOUS
  <2>0. TypeInv /\ TypeInv'
    BY NextType DEF UserInv
  <2>1. ASSUME NEW p \in Procs, Step(p)
        PROVE  RootNotRegistered' /\ \A q \in Procs : LookedUp(todo'[q])
    <3>1. \A q \in Procs \ {p} : todo'[q] = todo[q]
      BY <2>0, <2>1, StepMoves
    <3> QED  BY <2>1, <3>1, StepUsers DEF UserInv
  <2>2. ASSUME NEW p \in Procs, Break(p)
        PROVE  RootNotRegistered' /\ \A q \in Procs : LookedUp(todo'[q])
    <3>1. ct' = ct /\ \A q \in Procs \ {p} : todo'[q] = todo[q]
      BY <2>0, <2>2, BrokenOff
    <3>2. LookedUp(<<>>)
      BY DEF LookedUp
    <3>3. LookedUp(todo'[p])
      BY <2>0, <2>2, <3>2, BrokenOff, RaiseLooksUp
    <3> QED  BY <3>1, <3>3 DEF UserInv, RootNotRegistered
  <2>3. ASSUME NEW p \in Procs, Invoke(p)
        PROVE  RootNotRegistered' /\ \A q \in Procs : LookedUp(todo'[q])
    <3>1. ct' = ct /\ \A q \in Procs \ {p} : todo'[q] = todo[q]
      BY <2>0, <2>3, Invoked
    <3>2. LookedUp(todo'[p])
      BY <2>0, <2>3, Invoked, ScriptLooksUp
    <3> QED  BY <3>1, <3>2 DEF UserInv, RootNotRegistered
  <2>4. CASE UNCHANGED <<ct, net, cmd, todo, res>>
    BY <2>0, <2>4 DEF UserInv, RootNotRegistered
  <2> QED  BY <2>0, <2>1, <2>2, <2>3, <2>4, NextCases DEF UserInv
<1>3. UserInv => RootNotRegistered
  BY DEF UserInv
<1> QED  BY <1>1, <1>2, <1>3, PTL DEF Spec

--------------------------------------------------------------------------------
(* Only create, autofix and initialized are run.                            *)
TargetsOnly == \A c \in Menu : c.kind \in {"create", "autofix", "initialized"}

Plain(n) == Present(n) /\ ~ct[n].cfg.click

(* The calls that are about no container in particular.                     *)
General == {"fix", "check", "targets", "list", "bridge", "hasbridge", "netcreate",
            "profile", "nicdel", "nicadd", "profput"}

(* Until a create has its container, its calls are about that name; after   *)
(* that no call is about a plain container.                                 *)
SparesPlain(p) ==
    /\ At(p, "init") => \A c \in Calls(p) : c.ct = cmd[p].ct
    /\ ~At(p, "init") => \A c \in Calls(p) : c.op \in General \/ ~Plain(c.ct)
    /\ \A c \in Calls(p) : c.op = "put" => c.cfg.click
    /\ \A c \in Calls(p) : c.op \notin {"list", "setflag"}
    /\ Creating(p) /\ Active(p) /\ ~At(p, "init") => ~Plain(cmd[p].ct)

PlainInv == OwnInv /\ \A p \in Procs : SparesPlain(p)

LEMMA CallsType ==
  ASSUME TypeInv, NEW p \in Procs
  PROVE  \A c \in Calls(p) : c \in Call /\ c.ct \in Names
<1>1. todo[p] \in Seq(Call)
  BY DEF TypeInv, TypeOK
<1>2. \A c \in Calls(p) : c \in Call
  BY <1>1 DEF Calls
<1> QED  BY <1>2 DEF Call

LEMMA NowIsCall ==
  ASSUME TypeInv, NEW p \in Procs, todo[p] # <<>>
  PROVE  /\ Now(p) \in Calls(p) /\ Now(p) \in Call /\ Now(p) = todo[p][1]
         /\ 1 \in DOMAIN todo[p] /\ todo \in [Procs -> Seq(Call)]
         /\ \A c \in Calls(p) : c \in Call
<1>1. todo[p] \in Seq(Call) /\ todo \in [Procs -> Seq(Call)]
  BY DEF TypeInv, TypeOK
<1> QED  BY <1>1 DEF Calls, Now

(* A failed Init ends the create; one that does not fail made the container.*)
LEMMA InitEnds ==
  ASSUME OwnInv, NEW p \in Procs, At(p, "init")
  PROVE  /\ Creating(p) /\ Now(p).err = "fail" /\ Now(p).ct = cmd[p].ct
         /\ Raise(p) => todo'[p] = <<>> /\ res'[p] = "error"
         /\ Step(p) /\ ~Raise(p) => Continue(p, <<>>) /\ Makes(p)
<1>1. /\ TypeInv /\ todo[p] # <<>> /\ Now(p) = todo[p][1] /\ 1 \in DOMAIN todo[p]
      /\ Now(p).op = "init"
  BY NowIsCall DEF OwnInv, At, Now
<1>2. Creating(p) /\ Now(p).err = "fail" /\ Now(p).ct = cmd[p].ct
  BY <1>1 DEF OwnInv, Shape, InitFirst
<1>3. Raise(p) => todo'[p] = <<>> /\ res'[p] = "error"
  BY <1>1, <1>2 DEF Raise, TypeInv, TypeOK
<1>4. ASSUME Step(p), ~Raise(p) PROVE Continue(p, <<>>) /\ Makes(p)
  <2>1. InitContainer(p)
    BY <1>1, <1>4, StepOf
  <2> QED  BY <1>1, <1>4, <2>1 DEF InitContainer, Answer, Refuse, Makes
<1> QED  BY <1>2, <1>3, <1>4

(* A step leaves plain containers alone, and makes none.                    *)
LEMMA StepSpares ==
  ASSUME PlainInv, NEW p \in Procs, Step(p), NEW n \in Names
  PROVE  /\ Plain(n) => ct'[n] = ct[n]
         /\ Plain(n)' => Plain(n)
<1> DEFINE t == Now(p)
<1>1. /\ OwnInv /\ TypeInv /\ SparesPlain(p) /\ todo[p] # <<>> /\ t \in Calls(p)
      /\ t.ct \in Names /\ t.cfg \in Config /\ ct \in [Names -> Container]
  BY StepMoves, NowIsCall DEF PlainInv, OwnInv, TypeInv, TypeOK, LxdTypeOK, Call
<1>2. t.op # "init" => t.op \in General \/ ~Plain(t.ct)
  BY <1>1 DEF SparesPlain, At, Now
<1>3. Effect(p)
  BY <1>1, StepEffect
<1>4. CASE UNCHANGED ct
  BY <1>4 DEF Plain, Present
<1>5. CASE Makes(p)
  BY <1>1, <1>5 DEF Makes, Plain, Present, NoContainer, NoConfig
<1>6. CASE Puts(p)
  <2>1. t.cfg.click /\ ~Plain(t.ct)
    BY <1>1, <1>2, <1>6 DEF Puts, SparesPlain, General
  <2> QED  BY <1>1, <1>6, <2>1 DEF Puts, Plain, Present, Container
<1>7. CASE Deletes(p)
  BY <1>1, <1>2, <1>7 DEF Deletes, Plain, Present, NoContainer, General
<1>8. CASE Halts(p)
  <2>1. ~Plain(t.ct) /\ ct' = [ct EXCEPT ![t.ct] = AfterStop(@)] /\ Present(t.ct)
    BY <1>2, <1>8 DEF Halts, General, Present
  <2>2. \/ AfterStop(ct[t.ct]).status = "Absent"
        \/ AfterStop(ct[t.ct]).cfg = ct[t.ct].cfg
    BY <1>1 DEF AfterStop, NoContainer, Container
  <2> QED  BY <1>1, <2>1, <2>2 DEF Plain, Present
<1>9. CASE Boots(p)
  BY <1>1, <1>2, <1>9 DEF Boots, Plain, Present, Container, General
<1>10. CASE Registers(p)
  BY <1>1, <1>2, <1>10 DEF Registers, Plain, Present, Container, General
<1>11. CASE Opens(p)
  BY <1>1, <1>2, <1>11 DEF Opens, Plain, Present, Container, General
<1>12. CASE Loads(p)
  BY <1>1, <1>2, <1>12 DEF Loads, Plain, Present, Container, General
<1> QED
  BY <1>3, <1>4, <1>5, <1>6, <1>7, <1>8, <1>9, <1>10, <1>11, <1>12 DEF Effect

(* What a call may be replaced by spares plain containers, too.             *)
LEMMA AfterSpares ==
  ASSUME PlainInv, NEW p \in Procs, todo[p] # <<>>, ~At(p, "init"), NEW c \in After(Now(p))
  PROVE  /\ c.op \in General \/ (c.ct \in Names /\ ~Plain(c.ct))
         /\ c.op = "put" => c.cfg.click
         /\ c.op \notin {"list", "setflag"}
<1> DEFINE t == Now(p)
<1>1. /\ TypeInv /\ t \in Calls(p) /\ t \in Call /\ c \in Call
      /\ ct \in [Names -> Container]
  BY NowIsCall DEF PlainInv, OwnInv, After, Follow, TypeInv, TypeOK, LxdTypeOK
<1>2. /\ t.op \in General \/ ~Plain(t.ct)
      /\ t.op \notin {"list", "setflag"} /\ t.ct \in Names
  BY <1>1 DEF PlainInv, SparesPlain, Call
<1>3. CASE Parts(t, c)
  BY <1>2, <1>3 DEF Parts, General
<1>4. CASE Changes(t, c)
  <2>1. ~Plain(t.ct) /\ Present(t.ct) /\ c.ct = t.ct /\ c.op = "put"
    BY <1>2, <1>4 DEF Changes, General
  <2>2. ct[t.ct].cfg \in Config /\ ct[t.ct].cfg.click
    BY <1>1, <1>2, <2>1 DEF Plain, Container
  <2>3. c.cfg.click = ct[t.ct].cfg.click
    <3>1. CASE t.op = "adddev"
      <4>1. c.cfg = [ct[t.ct].cfg EXCEPT !.devs[t.arg] = t.val]
        BY <1>4, <3>1 DEF Changes, Edited
      <4> QED  BY <2>2, <4>1 DEF Config
    <3>2. CASE t.op = "rmdev"
      <4>1. c.cfg = [ct[t.ct].cfg EXCEPT !.devs[t.arg] = "none"]
        BY <1>4, <3>2 DEF Changes, Edited
      <4> QED  BY <2>2, <4>1 DEF Config
    <3> QED  BY <1>2, <1>4, <3>1, <3>2 DEF Changes
  <2> QED  BY <1>2, <2>1, <2>2, <2>3
<1>5. CASE Spreads(t, c)
  BY <1>1, <1>2, <1>5 DEF Spreads, ClickTargets, Plain, Call, Fixables
<1>6. CASE Repairs(t, c)
  BY <1>1, <1>2, <1>6 DEF Repairs, General, Call
<1>7. CASE Connects(t, c)
  BY <1>7 DEF Connects, General
<1> QED  BY <1>3, <1>4, <1>5, <1>6, <1>7 DEF After

(* A call that ends, with no new plain containers.                          *)
LEMMA MovesSpares ==
  ASSUME PlainInv, NEW p \in Procs, todo[p] # <<>>, Moves(p), cmd' = cmd,
         ~At(p, "init"), ~At(p, "init")', \A n \in Names : Plain(n)' => Plain(n)
  PROVE  SparesPlain(p)'
<1>1. /\ OwnInv /\ TypeInv /\ SparesPlain(p) /\ Shape(p)
      /\ \A c \in Calls(p) : c \in Call /\ c.ct \in Names
  BY NowIsCall DEF PlainInv, OwnInv, Call
<1>2. Active(p) /\ (Creating(p) => cmd[p].ct \in Names /\ ~Plain(cmd[p].ct))
  BY <1>1, CreatingName DEF Shape, SparesPlain
<1>3. Now(p).err = "rollback" => Creating(p)
  BY <1>1, NowIsCall DEF Shape, CreatesUndo
<1>4. ASSUME NEW c \in Calls(p)'
      PROVE  /\ c.op \in General \/ (c.ct \in Names /\ ~Plain(c.ct))
             /\ c.op = "put" => c.cfg.click
             /\ c.op \notin {"list", "setflag"}
  <2>1. \/ c \in Calls(p) \/ c \in After(Now(p))
        \/ c \in Undo(p) /\ Now(p).err = "rollback"
    BY <1>1, MovesCalls
  <2>2. CASE c \in Calls(p)
    BY <1>1, <2>2 DEF SparesPlain
  <2>3. CASE c \in After(Now(p))
    BY <2>3, AfterSpares
  <2>4. CASE c \in Undo(p) /\ Now(p).err = "rollback"
    BY <1>2, <1>3, <2>4 DEF Undo, Do
  <2> QED  BY <2>1, <2>2, <2>3, <2>4
<1>5. \A c \in Calls(p)' : c.op \in General \/ ~Plain(c.ct)'
  BY <1>4
<1>6. Creating(p)' => ~Plain(cmd[p].ct)'
  BY <1>2 DEF Creating
<1> QED  BY <1>4, <1>5, <1>6 DEF SparesPlain, Creating

LEMMA OthersSpare ==
  ASSUME PlainInv, NEW q \in Procs, todo'[q] = todo[q], res'[q] = res[q], cmd'[q] = cmd[q],
         \A n \in Names : Plain(n)' => Plain(n)
  PROVE  SparesPlain(q)'
<1>1. /\ TypeInv /\ SparesPlain(q) /\ Calls(q)' = Calls(q) /\ (At(q, "init")' <=> At(q, "init"))
      /\ (Creating(q)' <=> Creating(q)) /\ (Active(q)' <=> Active(q))
  BY DEF PlainInv, OwnInv, Calls, At, Creating, Active
<1>2. \A c \in Calls(q) : c.ct \in Names
  BY <1>1, CallsType
<1>3. Creating(q) => cmd[q].ct \in Names
  BY <1>1, CreatingName
<1>4. \A c \in Calls(q) : Plain(c.ct)' => Plain(c.ct)
  BY <1>2
<1>5. Creating(q) /\ Plain(cmd[q].ct)' => Plain(cmd[q].ct)
  BY <1>3
<1> QED  BY <1>1, <1>4, <1>5 DEF SparesPlain

LEMMA StepSparesPlain ==
  ASSUME PlainInv, NEW p \in Procs, Step(p)
  PROVE  \A q \in Procs : SparesPlain(q)'
<1>1. /\ OwnInv /\ TypeInv /\ SparesPlain(p) /\ todo[p] # <<>> /\ Moves(p) /\ cmd' = cmd
      /\ \A q \in Procs \ {p} : todo'[q] = todo[q] /\ res'[q] = res[q]
      /\ \A n \in Names : Plain(n)' => Plain(n)
  BY StepMoves, StepSpares DEF PlainInv, OwnInv
<1>2. ~At(p, "init")'
  BY <1>1, ContinueShape, RaiseShape, AfterFollows DEF Moves
<1>3. CASE At(p, "init") /\ Raise(p)
  <2>1. todo'[p] = <<>> /\ res'[p] = "error"
    BY <1>1, <1>3, InitEnds
  <2> QED  BY <1>1, <2>1, OthersSpare DEF SparesPlain, Calls, At, Active
<1>4. CASE At(p, "init") /\ ~Raise(p)
  <2>1. Creating(p) /\ Now(p).ct = cmd[p].ct /\ Continue(p, <<>>) /\ Makes(p)
    BY <1>1, <1>4, InitEnds
  <2>2. cmd[p].ct \in Names /\ ~Plain(cmd[p].ct)'
    BY <1>1, <2>1, CreatingName
    DEF Makes, Plain, NoContainer, NoConfig, TypeInv, TypeOK, LxdTypeOK
  <2>3. Calls(p)' \subseteq Calls(p)
    BY <1>1, <2>1, RestShrinks
  <2>4. SparesPlain(p)'
    BY <1>1, <1>2, <1>4, <2>2, <2>3 DEF SparesPlain
  <2> QED  BY <1>1, <2>4, OthersSpare
<1>5. CASE ~At(p, "init")
  BY <1>1, <1>2, <1>5, MovesSpares, OthersSpare
<1> QED  BY <1>3, <1>4, <1>5

LEMMA BreakSparesPlain ==
  ASSUME PlainInv, NEW p \in Procs, Break(p)
  PROVE  \A q \in Procs : SparesPlain(q)'
<1>1. /\ OwnInv /\ TypeInv /\ cmd' = cmd /\ ct' = ct
      /\ \A q \in Procs \ {p} : todo'[q] = todo[q] /\ res'[q] = res[q]
  BY BrokenOff DEF PlainInv, OwnInv
<1>2. \A n \in Names : Plain(n)' => Plain(n)
  BY <1>1 DEF Plain, Present
<1>3. \A q \in Procs \ {p} : SparesPlain(q)'
  BY <1>1, <1>2, OthersSpare
<1>4. CASE todo'[p] = <<>> /\ res'[p] \in {"killed", "error"}
  BY <1>3, <1>4 DEF SparesPlain, Calls, At, Active
<1>5. CASE todo[p] # <<>> /\ Raise(p)
  <2>1. CASE At(p, "init")
    BY <1>1, <1>4, <1>5, <2>1, InitEnds
  <2>2. CASE ~At(p, "init")
    <3>1. ~At(p, "init")'
      BY <1>1, <1>5, RaiseShape
    <3> QED  BY <1>1, <1>2, <1>3, <1>5, <2>2, <3>1, MovesSpares DEF Moves
  <2> QED  BY <2>1, <2>2
<1> QED  BY <1>1, <1>4, <1>5, BrokenOff

(* A create begins with its Init.                                           *)
LEMMA CreateBegins ==
  ASSUME NEW c \in Command, c.kind = "create"
  PROVE  Script(c) # <<>> /\ Head(Script(c)).op = "init"
<1> DEFINE init == DoVal("init", c.ct, c.flag, "fail")
           rest == AfterInit(c)
<1>1. rest \in Seq(Call) /\ Script(c) = <<init>> \o rest
  BY AfterInitType, FollowIsCall DEF Script, Create
<1>2. init.op = "init"
  BY DEF DoVal, Do
<1> HIDE DEF init, rest
<1> QED  BY <1>1, <1>2

LEMMA InvokeSparesPlain ==
  ASSUME TargetsOnly, PlainInv, NEW p \in Procs, Invoke(p)
  PROVE  \A q \in Procs : SparesPlain(q)'
<1>1. PICK c \in Menu :
           /\ c \in Command /\ cmd'[p] = c /\ todo'[p] = Script(c)
           /\ \A k \in Calls(p)' : Asks(c, k)
           /\ ct' = ct
           /\ \A q \in Procs \ {p} :
                todo'[q] = todo[q] /\ res'[q] = res[q] /\ cmd'[q] = cmd[q]
  BY Invoked DEF PlainInv, OwnInv
<1>2. \A q \in Procs \ {p} : SparesPlain(q)'
  BY <1>1, OthersSpare DEF Plain, Present
<1>3. CASE c.kind = "create"
  <2>1. At(p, "init")'
    BY <1>1, <1>3, CreateBegins DEF At
  <2> QED  BY <1>1, <1>2, <1>3, <2>1 DEF SparesPlain, Asks
<1>4. CASE c.kind \in {"autofix", "initialized"}
  <2>1. \A k \in Calls(p)' : k.op \in {"fix", "targets", "hasbridge", "check"}
    BY <1>1, <1>4 DEF Asks
  <2>2. ~Creating(p)'
    BY <1>1, <1>4 DEF Creating
  <2>3. ~At(p, "init")'
    <3>1. todo'[p] \in Seq(Call)
      BY <1>1, ScriptType
    <3>2. todo'[p] # <<>> => Head(todo'[p]) \in Calls(p)'
      BY <3>1 DEF Calls
    <3> QED  BY <2>1, <3>2 DEF At
  <2> QED  BY <1>2, <2>1, <2>2, <2>3 DEF SparesPlain, General
<1> QED  BY <1>1, <1>3, <1>4 DEF TargetsOnly

(* No step of create, autofix or initialized changes a container that is no *)
(* click target, in whatever way several of them are interleaved, fail or   *)
(* are killed: the calls of a create are about the container that its own   *)
(* Init made, the fixables and the restarts about listed click targets, and *)
(* no container ever loses its click keys.                                  *)
THEOREM PlainLeftAlone ==
  ASSUME TargetsOnly
  PROVE  Spec => PlainUntouched
<1>1. Init => PlainInv
  BY OwnInit DEF Init, PlainInv, SparesPlain, Calls, At, Active
<1>2. NoDestroy
  BY DEF TargetsOnly, NoDestroy
<1>3. PlainInv /\ [Next]_vars => PlainInv'
  <2> SUFFICES ASSUME PlainInv, [Next]_vars PROVE PlainInv'
    OBVIOUS
  <2>1. OwnInv'
    BY <1>2, OwnNext DEF PlainInv
  <2>2. CASE UNCHANGED <<ct, net, cmd, todo, res>>
    BY <2>1, <2>2, OthersSpare DEF PlainInv, Plain, Present
  <2> QED
    BY <2>1, <2>2, NextCases, StepSparesPlain, BreakSparesPlain, InvokeSparesPlain
    DEF PlainInv
<1>4. PlainInv /\ [Next]_vars =>
        \A n \in Names : Present(n) /\ ~ct[n].cfg.click => ct'[n] = ct[n]
  <2> SUFFICES ASSUME PlainInv, [Next]_vars, NEW n \in Names, Plain(n)
               PROVE  ct'[n] = ct[n]
    BY DEF Plain
  <2>1. ASSUME NEW p \in Procs, Invoke(p) \/ Break(p) PROVE ct' = ct
    BY <2>1, Invoked, BrokenOff DEF PlainInv, OwnInv
  <2> QED  BY <2>1, StepSpares, NextCases
<1> QED  BY <1>1, <1>3, <1>4, PTL DEF Spec, PlainUntouched

--------------------------------------------------------------------------------
(* A device of others, and where it may be to begin with: not in a          *)
(* container that goes away when it is stopped, and not under the name that *)
(* the nvidia fixable replaces.                                             *)
Foreign(n, d) == ct[n].cfg.devs[d] = "unchecked"
ForeignWorlds ==
    \A w \in Worlds : \A n \in Names, d \in Dev :
        w.ct[n].cfg.devs[d] = "unchecked" =>
            /\ w.ct[n].status # "Absent" /\ ~w.ct[n].eph
            /\ w.ct[n].owner = "nobody" /\ d # "nv-bin"

ForeignStays ==
    \A n \in Names, d \in Dev : Foreign(n, d) =>
        ct[n].status # "Absent" /\ ~ct[n].eph /\ ct[n].owner = "nobody" /\ d # "nv-bin"

(* A PUT carries exactly the devices of others that the container has; none *)
(* is to be removed, also by a snapshot that is not from now.               *)
SparesForeign(p) ==
    \A c \in Calls(p) : \A d \in Dev :
        /\ c.op = "put" => (c.cfg.devs[d] = "unchecked" <=> Foreign(c.ct, d))
        /\ c.op = "rmdev" /\ c.arg = d => ~Foreign(c.ct, d)
        /\ c.op = "devices" /\ c.cfg.devs[d] \in Path => ~Foreign(c.ct, d)

ForeignInv == OwnInv /\ ForeignStays /\ \A p \in Procs : SparesForeign(p)

(* No step adds a device of others or takes one away.                       *)
LEMMA StepForeign ==
  ASSUME ForeignInv, NEW p \in Procs, Step(p), NEW n \in Names, NEW d \in Dev
  PROVE  /\ Foreign(n, d)' <=> Foreign(n, d)
         /\ Foreign(n, d) => ct'[n].status # "Absent" /\ ~ct'[n].eph
                             /\ ct'[n].owner = "nobody" /\ d # "nv-bin"
<1> DEFINE t == Now(p)
           c == ct[n]
<1>1. /\ OwnInv /\ TypeInv /\ SparesForeign(p) /\ todo[p] # <<>> /\ t \in Calls(p)
      /\ t.ct \in Names /\ t.cfg \in Config /\ ct \in [Names -> Container]
  BY StepMoves, NowIsCall DEF ForeignInv, OwnInv, TypeInv, TypeOK, LxdTypeOK, Call
<1>2. Foreign(n, d) => c.status # "Absent" /\ ~c.eph /\ c.owner = "nobody" /\ d # "nv-bin"
  BY DEF ForeignInv, ForeignStays
<1>c. c \in Container /\ c.cfg \in Config
  BY <1>1 DEF Container
<1>n. /\ NoContainer.status = "Absent" /\ NoContainer.cfg.devs[d] = "none"
  BY DEF NoContainer, NoConfig, NoDevs
<1>3. Effect(p)
  BY <1>1, StepEffect
<1>4. CASE UNCHANGED ct
  BY <1>2, <1>4 DEF Foreign
<1>5. CASE n # t.ct
  <2>1. ct'[n] = c
    BY <1>1, <1>3, <1>5
    DEF Effect, Boots, Halts, Deletes, Makes, Puts, Registers, Opens, Loads
  <2> QED  BY <1>2, <2>1 DEF Foreign
<1>6. CASE n = t.ct /\ Makes(p)
  <2>1. ~Foreign(n, d)
    BY <1>2, <1>6 DEF Makes, Present
  <2>2. ct'[n].cfg.devs[d] = "none"
    BY <1>1, <1>6 DEF Makes, NoContainer, NoConfig, NoDevs
  <2> QED  BY <2>1, <2>2 DEF Foreign
<1>7. CASE n = t.ct /\ Puts(p)
  <2>1. ct'[n] = [c EXCEPT !.cfg = t.cfg]
    BY <1>1, <1>7 DEF Puts
  <2>2. ct'[n].cfg = t.cfg /\ ct'[n].status = c.status /\ ct'[n].eph = c.eph /\ ct'[n].owner = c.owner
    BY <1>c, <2>1 DEF Container
  <2>3. t.cfg.devs[d] = "unchecked" <=> Foreign(n, d)
    BY <1>1, <1>7 DEF Puts, SparesForeign
  <2> QED  BY <1>2, <2>2, <2>3 DEF Foreign
<1>8. CASE n = t.ct /\ Deletes(p)
  <2>1. At(p, "delete") /\ ~At(p, "init")
    BY <1>1, <1>8 DEF Deletes, At, Now
  <2>2. Creating(p) /\ Active(p) /\ t.ct = cmd[p].ct
    <3>1. 1 \in DOMAIN todo[p] /\ t = todo[p][1]
      BY <1>1, NowIsCall
    <3> QED  BY <1>1, <1>8, <3>1 DEF Deletes, OwnInv, Shape, DeleteLast
  <2>3. c.owner = p /\ p # "nobody"
    BY <1>1, <1>8, <2>1, <2>2, LxdAssumption DEF OwnInv, Owns, Mine
  <2>4. ct'[n] = NoContainer
    BY <1>1, <1>8 DEF Deletes
  <2> QED  BY <1>2, <1>n, <2>3, <2>4 DEF Foreign
<1>9. CASE n = t.ct /\ Halts(p)
  <2>1. ct'[n] = AfterStop(c)
    BY <1>1, <1>9 DEF Halts
  <2>2. CASE c.eph
    BY <1>2, <1>n, <2>1, <2>2 DEF AfterStop, Foreign
  <2>3. CASE ~c.eph
    <3>1. ct'[n] = [c EXCEPT !.status = "Stopped"]
      BY <2>1, <2>3 DEF AfterStop
    <3>2. ct'[n].status = "Stopped" /\ ct'[n].cfg = c.cfg /\ ct'[n].eph = c.eph /\ ct'[n].owner = c.owner
      BY <1>c, <3>1 DEF Container
    <3> QED  BY <1>2, <3>2 DEF Foreign
  <2> QED  BY <2>2, <2>3
<1>10. CASE n = t.ct /\ (Boots(p) \/ Registers(p) \/ Opens(p) \/ Loads(p))
  <2>1. /\ ct'[n].cfg = c.cfg /\ ct'[n].eph = c.eph /\ ct'[n].owner = c.owner
        /\ ct'[n].status \in {c.status, "Running"}
    <3>1. CASE Boots(p)
      BY <1>1, <1>c, <1>10, <3>1 DEF Boots, Container
    <3>2. CASE Registers(p)
      BY <1>1, <1>c, <1>10, <3>2 DEF Registers, Container
    <3>3. CASE Opens(p)
      BY <1>1, <1>c, <1>10, <3>3 DEF Opens, Container
    <3>4. CASE Loads(p)
      BY <1>1, <1>c, <1>10, <3>4 DEF Loads, Container
    <3> QED  BY <1>10, <3>1, <3>2, <3>3, <3>4
  <2> QED  BY <1>2, <2>1 DEF Foreign
<1> QED  BY <1>3, <1>4, <1>5, <1>6, <1>7, <1>8, <1>9, <1>10 DEF Effect

(* What a call may be replaced by: a PUT of a fresh snapshot, or the work   *)
(* on a snapshot.                                                           *)
LEMMA AfterForeign ==
  ASSUME ForeignInv, NEW p \in Procs, todo[p] # <<>>, NEW c \in After(Now(p)), NEW d \in Dev
  PROVE  /\ c.op = "put" => (c.cfg.devs[d] = "unchecked" <=> Foreign(c.ct, d))
         /\ c.op = "rmdev" /\ c.arg = d => ~Foreign(c.ct, d)
         /\ c.op = "devices" /\ c.cfg.devs[d] \in Path => ~Foreign(c.ct, d)
<1> DEFINE t == Now(p)
<1>1. /\ TypeInv /\ t \in Calls(p) /\ t \in Call /\ c \in Call
      /\ ct \in [Names -> Container]
  BY NowIsCall DEF ForeignInv, OwnInv, After, Follow, TypeInv, TypeOK, LxdTypeOK
<1>2. /\ t.ct \in Names /\ t.cfg \in Config /\ ct[t.ct].cfg \in Config
      /\ t.op = "rmdev" /\ t.arg = d => ~Foreign(t.ct, d)
      /\ t.op = "devices" /\ t.cfg.devs[d] \in Path => ~Foreign(t.ct, d)
  BY <1>1 DEF ForeignInv, SparesForeign, Call, Container
<1>3. CASE Parts(t, c) \/ Connects(t, c)
  BY <1>3 DEF Parts, Connects
<1>4. CASE Changes(t, c)
  <2> DEFINE cfg == ct[t.ct].cfg
  <2>1. c.ct = t.ct /\ c.op = "put" /\ t.op \in {"adddev", "rmdev", "setflag"}
        /\ c.cfg = Edited(t, cfg) /\ Editable(t, cfg)
    BY <1>4 DEF Changes
  <2>2. c.cfg.devs[d] = "unchecked" <=> cfg.devs[d] = "unchecked"
    <3>1. CASE t.op = "adddev"
      <4>1. c.cfg = [cfg EXCEPT !.devs[t.arg] = t.val] /\ cfg.devs[t.arg] = "none"
        BY <2>1, <3>1 DEF Edited, Editable
      <4>2. t.val # "unchecked"
        BY <1>1, <3>1, LxdAssumption DEF Call
      <4> QED  BY <1>2, <4>1, <4>2 DEF Config
    <3>2. CASE t.op = "rmdev"
      <4>1. c.cfg = [cfg EXCEPT !.devs[t.arg] = "none"]
        BY <2>1, <3>2 DEF Edited
      <4>2. t.arg = d => cfg.devs[d] # "unchecked"
        BY <1>2, <3>2 DEF Foreign
      <4> QED  BY <1>2, <4>1, <4>2 DEF Config
    <3>3. CASE t.op = "setflag"
      <4>1. c.cfg = [cfg EXCEPT !.updates = (t.val = "true")]
        BY <2>1, <3>3 DEF Edited
      <4> QED  BY <1>2, <4>1 DEF Config
    <3> QED  BY <2>1, <3>1, <3>2, <3>3
  <2> QED  BY <2>1, <2>2 DEF Foreign
<1>5. CASE Spreads(t, c)
  <2>1. c.op = "devices" => c.cfg = ct[c.ct].cfg
    BY <1>5 DEF Spreads
  <2>2. c.op \notin {"put", "rmdev"}
    BY <1>1, <1>5 DEF Spreads, Call, Fixables
  <2>3. "unchecked" \notin Path
    BY LxdAssumption
  <2> QED  BY <2>1, <2>2, <2>3 DEF Foreign
<1>6. CASE Repairs(t, c)
  <2>1. CASE t.op = "devices"
    <3>1. PICK e \in Checked(t.cfg) :
              \/ c.op = "rmdev" /\ c.arg = e
              \/ c = [t EXCEPT !.cfg.devs[e] = "none"]
      BY <1>6, <2>1 DEF Repairs
    <3>2. c.ct = t.ct /\ e \in Dev /\ t.cfg.devs[e] \in Path
      BY <1>6, <3>1 DEF Repairs, Checked
    <3>3. CASE c.op = "rmdev" /\ c.arg = e
      BY <1>2, <2>1, <3>2, <3>3
    <3>4. CASE c = [t EXCEPT !.cfg.devs[e] = "none"]
      <4>1. c.op = "devices" /\ c.cfg.devs = [t.cfg.devs EXCEPT ![e] = "none"]
        BY <1>1, <1>2, <2>1, <3>4 DEF Call, Config
      <4>2. c.cfg.devs[d] \in Path => t.cfg.devs[d] \in Path
        BY <1>2, <3>2, <4>1, LxdAssumption DEF Config
      <4> QED  BY <1>2, <2>1, <3>2, <4>1, <4>2
    <3> QED  BY <3>1, <3>3, <3>4
  <2>2. CASE t.op # "devices"
    <3>1. c.op \notin {"put", "devices"} /\ (c.op = "rmdev" => c.arg = "nv-bin") /\ c.ct = t.ct
      BY <1>6, <2>2 DEF Repairs
    <3> QED  BY <1>2, <3>1 DEF ForeignInv, ForeignStays
  <2> QED  BY <2>1, <2>2
<1> QED  BY <1>3, <1>4, <1>5, <1>6 DEF After

LEMMA OthersForeign ==
  ASSUME ForeignInv, NEW q \in Procs,
         \A n \in Names, d \in Dev : Foreign(n, d)' <=> Foreign(n, d),
         \A c \in Calls(q)' :
             c \in Calls(q) \/ c \in Undo(q) \/ (todo[q] # <<>> /\ c \in After(Now(q)))
  PROVE  SparesForeign(q)'
<1>1. TypeInv /\ SparesForeign(q)
  BY DEF ForeignInv, OwnInv
<1>2. SUFFICES ASSUME NEW c \in Calls(q)', NEW d \in Dev
      PROVE  /\ c.op = "put" => (c.cfg.devs[d] = "unchecked" <=> Foreign(c.ct, d)')
             /\ c.op = "rmdev" /\ c.arg = d => ~Foreign(c.ct, d)'
             /\ c.op = "devices" /\ c.cfg.devs[d] \in Path => ~Foreign(c.ct, d)'
  BY DEF SparesForeign
<1>3. CASE c \in Undo(q)
  BY <1>3 DEF Undo, Do
<1>4. CASE c \in Calls(q)
  <2>1. c.ct \in Names
    BY <1>1, <1>4, CallsType
  <2> QED  BY <1>1, <1>4, <2>1 DEF SparesForeign
<1>5. CASE todo[q] # <<>> /\ c \in After(Now(q))
  <2>1. c.ct \in Names
    BY <1>5 DEF After, Follow, Call
  <2> QED  BY <1>5, <2>1, AfterForeign
<1> QED  BY <1>3, <1>4, <1>5

(* A device that no fixable looks at is kept by every command but destroy,  *)
(* whatever is interleaved, fails or is killed: a snapshot may be stale in  *)
(* the devices of the tools, but never in the others, so no PUT of a stale  *)
(* snapshot drops one and no fixable removes one.                           *)
THEOREM ForeignKept ==
  ASSUME NoDestroy, ForeignWorlds
  PROVE  Spec => ForeignDevicesKept
<1>1. Init => ForeignInv
  <2> SUFFICES ASSUME Init PROVE ForeignInv
    OBVIOUS
  <2>1. ForeignStays
    BY DEF Init, ForeignWorlds, ForeignStays, Foreign
  <2>2. \A p \in Procs : Calls(p) = {}
    BY DEF Init, Calls
  <2> QED  BY <2>1, <2>2, OwnInit DEF ForeignInv, SparesForeign
<1>2. ASSUME ForeignInv, [Next]_vars
      PROVE  /\ ForeignInv'
             /\ \A n \in Names, d \in Dev : Foreign(n, d)' <=> Foreign(n, d)
  <2>1. OwnInv' /\ TypeInv
    BY <1>2, OwnNext DEF ForeignInv, OwnInv
  <2>2. /\ \A n \in Names, d \in Dev : Foreign(n, d)' <=> Foreign(n, d)
        /\ ForeignStays'
    <3>1. ASSUME NEW p \in Procs, Step(p)
          PROVE  \A n \in Names, d \in Dev :
                   /\ Foreign(n, d)' <=> Foreign(n, d)
                   /\ Foreign(n, d) => ct'[n].status # "Absent" /\ ~ct'[n].eph
                                       /\ ct'[n].owner = "nobody" /\ d # "nv-bin"
      BY <1>2, <3>1, StepForeign
    <3>2. ASSUME ct' = ct
          PROVE  /\ \A n \in Names, d \in Dev : Foreign(n, d)' <=> Foreign(n, d)
                 /\ ForeignStays'
      BY <1>2, <3>2 DEF ForeignInv, ForeignStays, Foreign
    <3>3. ASSUME NEW p \in Procs, Step(p) PROVE ForeignStays'
      BY <3>1, <3>3 DEF ForeignStays
    <3>4. ASSUME NEW p \in Procs, Invoke(p) \/ Break(p) PROVE ct' = ct
      BY <2>1, <3>4, Invoked, BrokenOff
    <3> QED  BY <1>2, <3>1, <3>2, <3>3, <3>4, NextCases
  <2>3. \A q \in Procs : SparesForeign(q)'
    <3>1. ASSUME NEW p \in Procs, Step(p) \/ Break(p)
          PROVE  \A q \in Procs : \A c \in Calls(q)' :
                   \/ c \in Calls(q) \/ c \in Undo(q)
                   \/ todo[q] # <<>> /\ c \in After(Now(q))
      <4>1. \A q \in Procs \ {p} : Calls(q)' = Calls(q)
        BY <2>1, <3>1, StepMoves, BrokenOff DEF Calls
      <4>2. Calls(p)' = {} \/ (todo[p] # <<>> /\ Moves(p))
        BY <2>1, <3>1, StepMoves, BrokenOff DEF Moves
      <4>3. todo[p] # <<>> /\ Moves(p) => \A c \in Calls(p)' :
                   \/ c \in Calls(p) \/ c \in Undo(p) \/ c \in After(Now(p))
        BY <2>1, MovesCalls
      <4> QED  BY <4>1, <4>2, <4>3
    <3>2. ASSUME NEW p \in Procs, Invoke(p) PROVE \A q \in Procs : SparesForeign(q)'
      <4>1. /\ \A q \in Procs \ {p} : Calls(q)' = Calls(q)
            /\ \E c \in Command : \A k \in Calls(p)' : Asks(c, k)
        BY <2>1, <3>2, Invoked DEF Calls
      <4>2. \A k \in Calls(p)' : k.op \notin {"put", "rmdev", "devices"}
        BY <4>1 DEF Asks
      <4>3. SparesForeign(p)'
        BY <4>2 DEF SparesForeign
      <4>4. ASSUME NEW q \in Procs \ {p} PROVE SparesForeign(q)'
        BY <1>2, <2>2, <4>1, OthersForeign
      <4> QED  BY <4>3, <4>4
    <3>3. ASSUME UNCHANGED <<ct, net, cmd, todo, res>>
          PROVE  \A q \in Procs : Calls(q)' = Calls(q)
      BY <3>3 DEF Calls
    <3>4. ASSUME NEW p \in Procs, Step(p) \/ Break(p)
          PROVE  \A q \in Procs : SparesForeign(q)'
      BY <1>2, <2>2, <3>1, <3>4, OthersForeign
    <3>5. ASSUME UNCHANGED <<ct, net, cmd, todo, res>>
          PROVE  \A q \in Procs : SparesForeign(q)'
      BY <1>2, <2>2, <3>3, <3>5, OthersForeign
    <3> QED  BY <1>2, <3>2, <3>4, <3>5, NextCases
  <2> QED  BY <2>1, <2>2, <2>3 DEF ForeignInv
<1>3. ForeignInv /\ [Next]_vars =>
        \A n \in Names, d \in Dev :
            /\ Present(n) /\ Present(n)' /\ ct'[n].owner = ct[n].owner
            /\ ct[n].cfg.devs[d] = "unchecked"
            => ct'[n].cfg.devs[d] = "unchecked"
  BY <1>2 DEF Foreign
<1>4. ForeignInv /\ [Next]_vars => ForeignInv'
  BY <1>2
<1> QED  BY <1>1, <1>3, <1>4, PTL DEF Spec, ForeignDevicesKept

--------------------------------------------------------------------------------
(* The conditions of a complete rollback: nobody else starts or stops the   *)
(* container, Init's answer is not lost, and the rollback meets no fault.   *)
RollbackMenu == \A c \in Menu : c.kind \in {"create", "set", "initialized"}
RollbackFaults == "init" \notin Lossy /\ "undoing" \notin FaultPhases
NobodysWorlds == \A w \in Worlds : \A n \in Names : w.ct[n].owner = "nobody"

Stateful == {"init", "boot", "start", "unfreeze", "stop", "halt", "update", "delete"}
Setting == {"list", "targets", "bridge", "profile", "nicdel", "nicadd"}

(* A create only starts, stops or deletes its own container, and from Init  *)
(* on every error is undone or dropped; the others do not even start one.   *)
ActsOnOwn(p) ==
    \A c \in Calls(p) :
        /\ c.op \notin Setting
        /\ c.op \in Stateful => Creating(p) /\ c.ct = cmd[p].ct
        /\ Creating(p) => c.op = "init" \/ c.err \in {"rollback", "drop"}

(* Which containers an invocation owns.                                     *)
OwnsNoOther(p) ==
    \A n \in Names : ct[n].owner = p =>
        /\ Creating(p) /\ n = cmd[p].ct /\ ~At(p, "init")
        /\ res[p] \notin {"idle", "error", "undone", "stuck"}

(* How far a rollback is.                                                   *)
Undoing(p) ==
    res[p] = "undoing" =>
        LET status == ct[cmd[p].ct].status
            last == Do("delete", cmd[p].ct, "drop")
        IN  \/ todo[p] = <<Do("stop", cmd[p].ct, "drop"), last>>
            \/ /\ todo[p] = <<Do("halt", cmd[p].ct, "drop"), last>>
               /\ status \in {"Running", "Frozen"}
            \/ todo[p] = <<last>> /\ status = "Stopped"

RollbackInv ==
    OwnInv /\ \A p \in Procs : ActsOnOwn(p) /\ OwnsNoOther(p) /\ Undoing(p)

(* A container only gets an owner by Init.                                  *)
LEMMA StepOwner ==
  ASSUME TypeInv, NEW p \in Procs, Step(p), NEW n \in Names
  PROVE  \/ ct'[n].owner \in {ct[n].owner, "nobody"}
         \/ Makes(p) /\ n = Now(p).ct
<1> DEFINE t == Now(p)
           c == ct[n]
<1>1. t.ct \in Names /\ ct \in [Names -> Container] /\ c \in Container
  BY StepMoves, NowIsCall DEF TypeInv, TypeOK, LxdTypeOK, Call
<1>2. Effect(p)
  BY StepEffect
<1>3. CASE n # t.ct
  BY <1>1, <1>2, <1>3
  DEF Effect, Boots, Halts, Deletes, Makes, Puts, Registers, Opens, Loads
<1>4. CASE n = t.ct /\ (Boots(p) \/ Puts(p))
  BY <1>1, <1>4 DEF Boots, Puts, Container
<1>5. CASE n = t.ct /\ (Registers(p) \/ Opens(p))
  BY <1>1, <1>5 DEF Registers, Opens, Container
<1>6. CASE n = t.ct /\ Loads(p)
  BY <1>1, <1>6 DEF Loads, Container
<1>7. CASE n = t.ct /\ (Halts(p) \/ Deletes(p))
  <2>1. ct'[n] \in {AfterStop(c), NoContainer}
    BY <1>1, <1>7 DEF Halts, Deletes
  <2> QED  BY <1>1, <2>1 DEF AfterStop, NoContainer, Container
<1> QED  BY <1>2, <1>3, <1>4, <1>5, <1>6, <1>7 DEF Effect

LEMMA UndoingNow ==
  ASSUME NEW p, Undoing(p), res[p] = "undoing"
  PROVE  todo[p] # <<>> /\ Now(p).op \in {"stop", "halt", "delete"}
<1> DEFINE n == cmd[p].ct
           stop == Do("stop", n, "drop")
           halt == Do("halt", n, "drop")
           last == Do("delete", n, "drop")
<1>1. stop.op = "stop" /\ halt.op = "halt" /\ last.op = "delete"
  BY DEF Do
<1>2. todo[p] = <<stop, last>> \/ todo[p] = <<halt, last>> \/ todo[p] = <<last>>
  BY DEF Undoing
<1> HIDE DEF stop, halt, last
<1>3. CASE todo[p] = <<stop, last>>
  BY <1>1, <1>3 DEF Now
<1>4. CASE todo[p] = <<halt, last>>
  BY <1>1, <1>4 DEF Now
<1>5. CASE todo[p] = <<last>>
  BY <1>1, <1>5 DEF Now
<1> QED  BY <1>2, <1>3, <1>4, <1>5

(* Two sequences of one call each.                                          *)
LEMMA Joined ==
  ASSUME NEW s, NEW t
  PROVE  <<s>> \o <<t>> = <<s, t>> /\ <<s, t>> # <<>>
<1> DEFINE T == {s, t}
           l == <<s>> \o <<t>>
           r == <<s, t>>
<1>1. <<s>> \in Seq(T) /\ <<t>> \in Seq(T) /\ r \in Seq(T)
  OBVIOUS
<1>2. l \in Seq(T) /\ Len(l) = 2 /\ l[1] = s /\ l[2] = t
  BY <1>1
<1>3. Len(r) = 2 /\ r[1] = s /\ r[2] = t
  OBVIOUS
<1> HIDE DEF l, r, T
<1>4. l = r
  <2>1. \A i \in 1..2 : i = 1 \/ i = 2
    OBVIOUS
  <2> QED  BY <1>1, <1>2, <1>3, <2>1, SeqEqual
<1>5. r # <<>>
  <2>1. Len(<<>>) = 0
    OBVIOUS
  <2> QED  BY <1>3, <2>1
<1> QED  BY <1>4, <1>5 DEF l, r

(* What an undoing step leads to: the container is stopped, then deleted.   *)
LEMMA UndoingStep ==
  ASSUME RollbackFaults, RollbackInv, NEW p \in Procs, Step(p), res[p] = "undoing"
  PROVE  /\ \/ res'[p] = "undoing" /\ Undoing(p)'
            \/ res'[p] = "undone" /\ ct'[cmd[p].ct].owner = "nobody"
         /\ cmd[p].ct \in Names
<1> DEFINE n == cmd[p].ct
           last == Do("delete", n, "drop")
<1>1. /\ OwnInv /\ TypeInv /\ Shape(p) /\ Undoing(p) /\ todo[p] # <<>> /\ cmd' = cmd
      /\ todo \in [Procs -> Seq(Call)] /\ res \in [Procs -> Results]
  BY StepMoves DEF RollbackInv, OwnInv, TypeInv, TypeOK
<1>2. /\ last.op = "delete" /\ last.ct = n /\ last.err = "drop"
      /\ Do("stop", n, "drop").op = "stop" /\ Do("stop", n, "drop").ct = n
      /\ Do("stop", n, "drop").err = "drop"
      /\ Do("halt", n, "drop").op = "halt" /\ Do("halt", n, "drop").ct = n
      /\ Do("halt", n, "drop").err = "drop"
  BY DEF Do
<1>3. Creating(p) /\ Mine(p) /\ n \in Names
  <2>1. Active(p) /\ ~At(p, "init")
    BY <1>1, <1>2 DEF Undoing, Active, At
  <2>2. Creating(p)
    <3>1. \E i \in DOMAIN todo[p] : todo[p][i].op = "delete"
      BY <1>1, <1>2 DEF Undoing
    <3> QED  BY <1>1, <3>1 DEF Shape, DeleteLast
  <2> QED  BY <1>1, <2>1, <2>2, CreatingName DEF OwnInv, Owns
<1>4. ct \in [Names -> Container] /\ ~Faulty(p)
  BY <1>1 DEF TypeInv, TypeOK, LxdTypeOK, Faulty, RollbackFaults
<1> HIDE DEF n, last
<1>5. CASE todo[p] = <<Do("stop", n, "drop"), last>>
  <2>1. Now(p) = Do("stop", n, "drop") /\ Tail(todo[p]) = <<last>>
    BY <1>5 DEF Now
  <2>2. StopContainerSync(p)
    BY <1>2, <2>1, StepOf
  <2>3. ct' = ct /\ ct[n].status # "Absent"
    BY <1>3, <2>2 DEF StopContainerSync, server, Mine, n
  <2>4. CASE ct[n].status = "Stopped"
    <3>1. Continue(p, <<>>)
      BY <1>2, <2>1, <2>2, <2>4 DEF StopContainerSync
    <3>2. todo'[p] = <<last>> /\ res'[p] = "undoing"
      <4>1. <<>> \o Tail(todo[p]) = <<last>> /\ <<last>> # <<>>
        BY <2>1
      <4> QED  BY <1>1, <3>1, <4>1 DEF Continue
    <3> QED  BY <1>1, <1>3, <2>3, <2>4, <3>2 DEF Undoing, n, last
  <2>5. CASE ct[n].status \in {"Running", "Frozen"}
    <3>1. Continue(p, <<Do("halt", n, "drop")>>)
      BY <1>2, <2>1, <2>2, <2>5 DEF StopContainerSync
    <3>2. todo'[p] = <<Do("halt", n, "drop"), last>> /\ res'[p] = "undoing"
      <4>1. <<Do("halt", n, "drop")>> \o Tail(todo[p]) = <<Do("halt", n, "drop"), last>>
            /\ <<Do("halt", n, "drop"), last>> # <<>>
        BY <2>1, Joined
      <4> QED  BY <1>1, <3>1, <4>1 DEF Continue
    <3> QED  BY <1>1, <1>3, <2>3, <2>5, <3>2 DEF Undoing, n, last
  <2> QED  BY <1>3, <1>4, <2>3, <2>4, <2>5 DEF Container
<1>6. CASE /\ todo[p] = <<Do("halt", n, "drop"), last>>
           /\ ct[n].status \in {"Running", "Frozen"}
  <2>1. Now(p) = Do("halt", n, "drop") /\ Tail(todo[p]) = <<last>>
    BY <1>6 DEF Now
  <2>2. Stop(p)
    BY <1>2, <2>1, StepOf
  <2>3. Continue(p, <<>>) /\ ct' = [ct EXCEPT ![n] = AfterStop(@)]
    BY <1>2, <1>4, <1>6, <2>1, <2>2 DEF Stop, Answer
  <2>4. todo'[p] = <<last>> /\ res'[p] = "undoing"
    <3>1. <<>> \o Tail(todo[p]) = <<last>> /\ <<last>> # <<>>
      BY <2>1
    <3> QED  BY <1>1, <2>3, <3>1 DEF Continue
  <2>5. ct'[n].status = "Stopped"
    <3>1. ~ct[n].eph
      BY <1>3 DEF Mine, n
    <3>2. ct'[n] = [ct[n] EXCEPT !.status = "Stopped"]
      BY <1>3, <1>4, <2>3, <3>1 DEF AfterStop
    <3> QED  BY <1>3, <1>4, <3>2 DEF Container
  <2> QED  BY <1>1, <1>3, <2>4, <2>5 DEF Undoing, n, last
<1>7. CASE todo[p] = <<last>> /\ ct[n].status = "Stopped"
  <2>1. Now(p) = last /\ Tail(todo[p]) = <<>>
    BY <1>7 DEF Now
  <2>2. Delete(p)
    BY <1>2, <2>1, StepOf
  <2>3. Continue(p, <<>>) /\ ct' = [ct EXCEPT ![n] = NoContainer]
    BY <1>2, <1>4, <1>7, <2>1, <2>2 DEF Delete, Answer
  <2>4. res'[p] = "undone"
    <3>1. <<>> \o Tail(todo[p]) = <<>>
      BY <2>1
    <3> QED  BY <1>1, <2>3, <3>1 DEF Continue
  <2>5. ct'[n].owner = "nobody"
    BY <1>3, <1>4, <2>3 DEF NoContainer
  <2> QED  BY <1>3, <2>4, <2>5 DEF n
<1> QED  BY <1>1, <1>3, <1>5, <1>6, <1>7 DEF Undoing, n, last

(* How a call of a running create ends.                                     *)
LEMMA RunningEnds ==
  ASSUME RollbackInv, NEW p \in Procs, todo[p] # <<>>, Moves(p), res[p] = "running",
         Creating(p), ~At(p, "init"), cmd' = cmd
  PROVE  res'[p] \in {"running", "ok", "undoing"} /\ Undoing(p)'
<1>1. /\ TypeInv /\ Now(p) \in Calls(p) /\ res \in [Procs -> Results]
      /\ todo \in [Procs -> Seq(Call)]
  BY NowIsCall DEF RollbackInv, OwnInv, TypeInv, TypeOK
<1>2. Now(p).err \in {"rollback", "drop"}
  BY <1>1 DEF RollbackInv, ActsOnOwn, At, Now
<1>3. ASSUME NEW ts, Continue(p, ts) PROVE res'[p] \in {"running", "ok"}
  BY <1>1, <1>3 DEF Continue
<1>4. CASE Raise(p)
  <2>1. CASE Now(p).err = "drop"
    BY <1>1, <1>4, <2>1 DEF Raise, Undoing
  <2>2. CASE Now(p).err = "rollback"
    BY <1>1, <1>4, <2>2 DEF Raise, Undoing, RemoveContainerSync
  <2> QED  BY <1>2, <2>1, <2>2
<1> QED  BY <1>3, <1>4 DEF Moves, Undoing

(* Another command is not rolled back.                                      *)
LEMMA OthersEnd ==
  ASSUME RollbackInv, NEW p \in Procs, todo[p] # <<>>, Moves(p), res[p] = "running",
         ~Creating(p)
  PROVE  res'[p] # "undoing"
<1>1. /\ TypeInv /\ res \in [Procs -> Results] /\ Shape(p)
      /\ Now(p) = todo[p][1] /\ 1 \in DOMAIN todo[p]
  BY NowIsCall DEF RollbackInv, OwnInv, TypeInv, TypeOK
<1>2. Now(p).err # "rollback"
  BY <1>1 DEF Shape, CreatesUndo
<1>3. ASSUME NEW ts, Continue(p, ts) PROVE res'[p] # "undoing"
  BY <1>1, <1>3 DEF Continue
<1>4. CASE Raise(p)
  BY <1>1, <1>2, <1>3, <1>4 DEF Raise
<1> QED  BY <1>3, <1>4 DEF Moves

LEMMA StepOwnsNoOther ==
  ASSUME RollbackFaults, RollbackInv, NEW p \in Procs, Step(p)
  PROVE  \A q \in Procs : OwnsNoOther(q)'
<1>1. /\ OwnInv /\ TypeInv /\ todo[p] # <<>> /\ Moves(p) /\ cmd' = cmd
      /\ \A q \in Procs \ {p} : todo'[q] = todo[q] /\ res'[q] = res[q]
      /\ ct \in [Names -> Container] /\ Shape(p) /\ OwnsNoOther(p)
      /\ res \in [Procs -> Results] /\ todo \in [Procs -> Seq(Call)]
      /\ \A q \in Procs : q # "nobody"
  BY StepMoves, LxdAssumption DEF RollbackInv, OwnInv, TypeInv, TypeOK, LxdTypeOK
<1>2. ~At(p, "init")'
  BY <1>1, ContinueShape, RaiseShape, AfterFollows DEF Moves
<1>3. \A q \in Procs \ {p} : OwnsNoOther(q)'
  <2> SUFFICES ASSUME NEW q \in Procs \ {p}, NEW n \in Names, ct'[n].owner = q
               PROVE  /\ Creating(q)' /\ n = cmd'[q].ct /\ ~At(q, "init")'
                      /\ res'[q] \notin {"idle", "error", "undone", "stuck"}
    BY DEF OwnsNoOther
  <2>1. Makes(p) /\ n = Now(p).ct => ct'[n].owner = p
    BY <1>1 DEF Makes, NoContainer
  <2>2. ct[n].owner = q
    BY <1>1, <2>1, StepOwner
  <2> QED  BY <1>1, <2>2 DEF RollbackInv, OwnsNoOther, Creating, At
<1>4. OwnsNoOther(p)'
  <2> SUFFICES ASSUME NEW n \in Names, ct'[n].owner = p
               PROVE  /\ Creating(p) /\ n = cmd[p].ct
                      /\ res'[p] \notin {"idle", "error", "undone", "stuck"}
    BY <1>1, <1>2 DEF OwnsNoOther, Creating
  <2>1. Active(p)
    BY <1>1 DEF Shape
  <2>2. CASE ct[n].owner = p
    <3>1. Creating(p) /\ n = cmd[p].ct /\ ~At(p, "init")
      BY <1>1, <2>2 DEF OwnsNoOther
    <3>2. CASE res[p] = "undoing"
      BY <1>1, <3>1, <3>2, UndoingStep
    <3>3. CASE res[p] = "running"
      BY <1>1, <3>1, <3>3, RunningEnds
    <3> QED  BY <2>1, <3>1, <3>2, <3>3 DEF Active
  <2>3. CASE ct[n].owner # p
    <3>1. Makes(p) /\ n = Now(p).ct
      BY <1>1, <2>3, StepOwner
    <3>2. At(p, "init") /\ ~Raise(p)
      <4>1. At(p, "init") /\ InitContainer(p)
        BY <1>1, <3>1, StepOf DEF Makes, At, Now
      <4>2. ~Present(Now(p).ct)
        BY <3>1 DEF Makes
      <4>3. Continue(p, <<>>)
        BY <4>1, <4>2 DEF InitContainer, Answer, RollbackFaults, At, Now
      <4>4. Creating(p) /\ Now(p).err = "fail"
        BY <1>1, <4>1, InitEnds
      <4>5. res'[p] # "error"
        BY <1>1, <2>1, <4>3 DEF Continue, Active
      <4> QED  BY <1>1, <4>1, <4>5, InitEnds
    <3>3. Creating(p) /\ Now(p).ct = cmd[p].ct /\ Continue(p, <<>>)
      BY <1>1, <3>2, InitEnds
    <3>4. res[p] = "running"
      <4>1. res[p] = "undoing" => ~At(p, "init")
        BY UndoingNow DEF RollbackInv, At, Now
      <4> QED  BY <2>1, <3>2, <4>1 DEF Active
    <3> QED  BY <1>1, <3>1, <3>3, <3>4 DEF Continue
  <2> QED  BY <2>2, <2>3
<1> QED  BY <1>3, <1>4

(* What is left to do stays about the own container.                        *)
LEMMA MovesOnOwn ==
  ASSUME RollbackInv, NEW p \in Procs, todo[p] # <<>>, Moves(p), cmd' = cmd
  PROVE  ActsOnOwn(p)'
<1> DEFINE t == Now(p)
<1>1. /\ TypeInv /\ ActsOnOwn(p) /\ Shape(p) /\ t \in Calls(p) /\ t \in Call
      /\ t = todo[p][1] /\ 1 \in DOMAIN todo[p]
  BY NowIsCall DEF RollbackInv, OwnInv
<1>2. /\ t.op \notin Setting
      /\ t.op \in Stateful => Creating(p) /\ t.ct = cmd[p].ct
      /\ Creating(p) => t.op = "init" \/ t.err \in {"rollback", "drop"}
  BY <1>1 DEF ActsOnOwn
<1>3. SUFFICES ASSUME NEW c \in Calls(p)'
      PROVE  /\ c.op \notin Setting
             /\ c.op \in Stateful => Creating(p) /\ c.ct = cmd[p].ct
             /\ Creating(p) => c.op = "init" \/ c.err \in {"rollback", "drop"}
  BY DEF ActsOnOwn, Creating
<1>4. CASE c \in Calls(p)
  BY <1>1, <1>4 DEF ActsOnOwn
<1>5. CASE c \in Undo(p) /\ t.err = "rollback"
  <2>1. Creating(p)
    BY <1>1, <1>5 DEF Shape, CreatesUndo
  <2> QED  BY <1>5, <2>1 DEF Undo, Do, Setting
<1>6. CASE c \in After(t)
  <2>1. CASE Parts(t, c)
    BY <1>2, <2>1 DEF Parts, Setting, Stateful
  <2>2. CASE Changes(t, c)
    BY <1>2, <2>2 DEF Changes, Setting, Stateful
  <2>3. CASE Spreads(t, c)
    BY <1>1, <1>2, <2>3 DEF Spreads, Setting, Stateful, Call, Fixables
  <2>4. CASE Repairs(t, c)
    BY <1>1, <1>2, <2>4 DEF Repairs, Setting, Stateful, Call
  <2>5. CASE Connects(t, c)
    BY <1>2, <2>5 DEF Connects, Setting
  <2> QED  BY <1>6, <2>1, <2>2, <2>3, <2>4, <2>5 DEF After
<1> QED  BY <1>1, <1>4, <1>5, <1>6, MovesCalls

(* Nobody else starts or stops a container that is being rolled back.       *)
LEMMA StepKeepsOthers ==
  ASSUME RollbackInv, NEW p \in Procs, Step(p), NEW q \in Procs \ {p}
  PROVE  Undoing(q)'
<1>1. SUFFICES ASSUME res[q] = "undoing" PROVE Undoing(q)'
  BY StepMoves DEF Undoing, RollbackInv, OwnInv
<1> DEFINE t == Now(p)
           n == cmd[q].ct
<1>2. /\ OwnInv /\ TypeInv /\ todo[p] # <<>> /\ cmd' = cmd /\ t \in Calls(p)
      /\ t.ct \in Names /\ ct \in [Names -> Container]
      /\ todo'[q] = todo[q] /\ res'[q] = res[q] /\ Undoing(q) /\ ActsOnOwn(p)
      /\ Shape(q) /\ Shape(p)
  BY StepMoves, NowIsCall DEF RollbackInv, OwnInv, TypeInv, TypeOK, LxdTypeOK, Call
<1>3. Creating(q) /\ Mine(q) /\ n \in Names
  <2>1. Active(q) /\ ~At(q, "init")
    BY <1>1, <1>2 DEF Undoing, Active, At, Do
  <2>2. \E i \in DOMAIN todo[q] : todo[q][i].op = "delete"
    <3>1. Do("delete", n, "drop").op = "delete"
      BY DEF Do
    <3> QED  BY <1>1, <1>2, <3>1 DEF Undoing
  <2>3. Creating(q)
    BY <1>2, <2>2 DEF Shape, DeleteLast
  <2> QED  BY <1>2, <2>1, <2>3, CreatingName DEF OwnInv, Owns
<1>4. t.op \in Stateful /\ t.op # "init" => t.ct # n
  <2> SUFFICES ASSUME t.op \in Stateful, t.op # "init" PROVE t.ct # n
    OBVIOUS
  <2>1. Creating(p) /\ t.ct = cmd[p].ct /\ Active(p) /\ ~At(p, "init")
    BY <1>2 DEF ActsOnOwn, Shape, At, Now
  <2>2. Mine(p)
    BY <1>2, <2>1 DEF OwnInv, Owns
  <2> QED  BY <1>3, <2>1, <2>2 DEF Mine
<1>5. ct'[n].status = ct[n].status
  <2>1. Effect(p)
    BY <1>2, StepEffect
  <2>2. CASE UNCHANGED ct
    BY <2>2
  <2>3. CASE Boots(p) \/ Halts(p) \/ Deletes(p)
    BY <1>2, <1>3, <1>4, <2>3 DEF Boots, Halts, Deletes, Stateful
  <2>4. CASE Makes(p)
    <3>1. t.ct # n
      BY <1>3, <2>4 DEF Makes, Present, Mine
    <3> QED  BY <1>2, <1>3, <2>4, <3>1 DEF Makes
  <2>5. CASE Puts(p) \/ Registers(p)
    BY <1>2, <1>3, <2>5 DEF Puts, Registers, Container
  <2>6. CASE Opens(p) \/ Loads(p)
    BY <1>2, <1>3, <2>6 DEF Opens, Loads, Container
  <2> QED  BY <2>1, <2>2, <2>3, <2>4, <2>5, <2>6 DEF Effect
<1> QED  BY <1>2, <1>5 DEF Undoing

LEMMA StepRollback ==
  ASSUME RollbackFaults, RollbackInv, NEW p \in Procs, Step(p)
  PROVE  \A q \in Procs : ActsOnOwn(q)' /\ OwnsNoOther(q)' /\ Undoing(q)'
<1>1. /\ OwnInv /\ TypeInv /\ todo[p] # <<>> /\ Moves(p) /\ cmd' = cmd
      /\ \A q \in Procs \ {p} : todo'[q] = todo[q] /\ res'[q] = res[q]
      /\ Shape(p) /\ OwnsNoOther(p) /\ res \in [Procs -> Results]
      /\ todo \in [Procs -> Seq(Call)]
  BY StepMoves DEF RollbackInv, OwnInv, TypeInv, TypeOK
<1>2. \A q \in Procs : OwnsNoOther(q)'
  BY StepOwnsNoOther
<1>3. ActsOnOwn(p)'
  BY <1>1, MovesOnOwn
<1>4. \A q \in Procs \ {p} : ActsOnOwn(q)'
  BY <1>1 DEF RollbackInv, ActsOnOwn, Calls, Creating
<1>5. \A q \in Procs \ {p} : Undoing(q)'
  BY StepKeepsOthers
<1>6. Undoing(p)'
  <2>1. CASE res[p] = "undoing"
    BY <2>1, UndoingStep DEF Undoing
  <2>2. CASE res[p] = "running" /\ Creating(p) /\ ~At(p, "init")
    BY <1>1, <2>2, RunningEnds
  <2>3. CASE res[p] = "running" /\ At(p, "init")
    <3>1. CASE Raise(p)
      BY <1>1, <2>3, <3>1, InitEnds DEF Undoing
    <3>2. CASE ~Raise(p)
      <4>1. Continue(p, <<>>)
        BY <1>1, <2>3, <3>2, InitEnds
      <4>2. res'[p] # "undoing"
        BY <1>1, <2>3, <4>1 DEF Continue
      <4> QED  BY <4>2 DEF Undoing
    <3> QED  BY <3>1, <3>2
  <2>4. CASE res[p] = "running" /\ ~Creating(p)
    BY <1>1, <2>4, OthersEnd DEF Undoing
  <2> QED  BY <1>1, <2>1, <2>2, <2>3, <2>4 DEF Shape, Active
<1> QED  BY <1>2, <1>3, <1>4, <1>5, <1>6

LEMMA BreakRollback ==
  ASSUME RollbackFaults, RollbackInv, NEW p \in Procs, Break(p)
  PROVE  \A q \in Procs : ActsOnOwn(q)' /\ OwnsNoOther(q)' /\ Undoing(q)'
<1>1. /\ OwnInv /\ TypeInv /\ cmd' = cmd /\ ct' = ct
      /\ \A q \in Procs \ {p} : todo'[q] = todo[q] /\ res'[q] = res[q]
      /\ OwnsNoOther(p) /\ Shape(p) /\ res \in [Procs -> Results]
      /\ todo \in [Procs -> Seq(Call)]
  BY BrokenOff DEF RollbackInv, OwnInv, TypeInv, TypeOK
<1>2. \A q \in Procs \ {p} : ActsOnOwn(q)' /\ OwnsNoOther(q)' /\ Undoing(q)'
  <2>1. \A q \in Procs \ {p} : ActsOnOwn(q) /\ OwnsNoOther(q) /\ Undoing(q)
    BY DEF RollbackInv
  <2>2. \A q \in Procs \ {p} : ActsOnOwn(q)'
    BY <1>1, <2>1 DEF ActsOnOwn, Calls, Creating
  <2>3. \A q \in Procs \ {p} : OwnsNoOther(q)'
    BY <1>1, <2>1 DEF OwnsNoOther, Creating, At
  <2>4. \A q \in Procs \ {p} : Undoing(q)'
    BY <1>1, <2>1 DEF Undoing
  <2> QED  BY <2>2, <2>3, <2>4
<1>3. CASE Kill(p)
  <2>1. todo'[p] = <<>> /\ res'[p] = "killed"
    BY <1>1, <1>3 DEF Kill
  <2>2. Calls(p)' = {}
    BY <2>1 DEF Calls
  <2>3. ActsOnOwn(p)' /\ Undoing(p)'
    BY <2>1, <2>2 DEF ActsOnOwn, Undoing
  <2>4. OwnsNoOther(p)'
    BY <1>1, <2>1 DEF OwnsNoOther, Creating, At
  <2> QED  BY <1>2, <2>3, <2>4
<1>4. CASE Fault(p)
  <2>1. res[p] = "running" /\ todo[p] # <<>> /\ Raise(p) /\ Moves(p)
    BY <1>1, <1>4 DEF Fault, Faulty, RollbackFaults, Shape, Active, Moves
  <2>2. ActsOnOwn(p)'
    BY <1>1, <2>1, MovesOnOwn
  <2>3. ~At(p, "init")'
    BY <1>1, <2>1, RaiseShape
  <2>4. CASE At(p, "init")
    <3>1. res'[p] = "error"
      BY <1>1, <2>1, <2>4, InitEnds
    <3>2. OwnsNoOther(p)'
      BY <1>1, <2>4 DEF OwnsNoOther
    <3> QED  BY <1>2, <2>2, <3>1, <3>2 DEF Undoing
  <2>5. CASE Creating(p) /\ ~At(p, "init")
    <3>1. res'[p] \in {"running", "ok", "undoing"} /\ Undoing(p)'
      BY <1>1, <2>1, <2>5, RunningEnds
    <3>2. OwnsNoOther(p)'
      BY <1>1, <2>3, <3>1 DEF OwnsNoOther, Creating
    <3> QED  BY <1>2, <2>2, <3>1, <3>2
  <2>6. CASE ~Creating(p)
    <3>1. OwnsNoOther(p)'
      BY <1>1, <2>6 DEF OwnsNoOther
    <3>2. Undoing(p)'
      BY <1>1, <2>1, <2>6, OthersEnd DEF Undoing
    <3> QED  BY <1>2, <2>2, <3>1, <3>2
  <2> QED  BY <2>4, <2>5, <2>6
<1> QED  BY <1>3, <1>4 DEF Break

LEMMA InvokeRollback ==
  ASSUME RollbackMenu, RollbackInv, NEW p \in Procs, Invoke(p)
  PROVE  \A q \in Procs : ActsOnOwn(q)' /\ OwnsNoOther(q)' /\ Undoing(q)'
<1>1. PICK c \in Menu :
           /\ c \in Command /\ cmd'[p] = c /\ res'[p] = "running"
           /\ \A k \in Calls(p)' : Asks(c, k)
           /\ res[p] = "idle" /\ ct' = ct
           /\ \A q \in Procs \ {p} :
                todo'[q] = todo[q] /\ res'[q] = res[q] /\ cmd'[q] = cmd[q]
  BY Invoked DEF RollbackInv, OwnInv
<1>2. \A q \in Procs \ {p} : ActsOnOwn(q) /\ OwnsNoOther(q) /\ Undoing(q)
  BY DEF RollbackInv
<1>3. \A q \in Procs \ {p} : ActsOnOwn(q)'
  BY <1>1, <1>2 DEF ActsOnOwn, Calls, Creating
<1>4. \A q \in Procs \ {p} : OwnsNoOther(q)'
  BY <1>1, <1>2 DEF OwnsNoOther, Creating, At
<1>5. \A q \in Procs \ {p} : Undoing(q)'
  BY <1>1, <1>2 DEF Undoing
<1>6. OwnsNoOther(p)' /\ Undoing(p)'
  BY <1>1 DEF RollbackInv, OwnsNoOther, Undoing
<1>7. ActsOnOwn(p)'
  <2>1. c.kind \in {"create", "set", "initialized"}
    BY <1>1 DEF RollbackMenu
  <2>2. ASSUME NEW k \in Calls(p)'
        PROVE  /\ k.op \notin Setting
               /\ k.op \in Stateful => c.kind = "create" /\ k.ct = c.ct
               /\ c.kind = "create" => k.op = "init" \/ k.err \in {"rollback", "drop"}
    BY <1>1, <2>1 DEF Asks, Setting, Stateful
  <2> QED  BY <1>1, <2>2 DEF ActsOnOwn, Creating
<1> QED  BY <1>3, <1>4, <1>5, <1>6, <1>7

(* A create that ends with an error leaves no container of its own: from    *)
(* the return of Init on, every call that fails starts the rollback, whose  *)
(* stop and delete find the container as the create left it, because only   *)
(* it starts, stops or deletes that container.  Next to other creates, set  *)
(* and initialized, as long as the answer to Init is not lost and the       *)
(* rollback itself meets no fault; the containers that are there at first   *)
(* belong to nobody.                                                        *)
THEOREM RollbackLeavesNone ==
  ASSUME RollbackMenu, RollbackFaults, NobodysWorlds
  PROVE  Spec => []RollbackComplete
<1>1. Init => RollbackInv
  <2> SUFFICES ASSUME Init PROVE RollbackInv
    OBVIOUS
  <2>1. \A p \in Procs : Calls(p) = {} /\ res[p] = "idle"
    BY DEF Init, Calls
  <2>2. \A n \in Names : ct[n].owner = "nobody"
    BY DEF Init, NobodysWorlds
  <2> QED  BY <2>1, <2>2, OwnInit, LxdAssumption
           DEF RollbackInv, ActsOnOwn, OwnsNoOther, Undoing
<1>2. NoDestroy
  BY DEF RollbackMenu, NoDestroy
<1>3. RollbackInv /\ [Next]_vars => RollbackInv'
  <2> SUFFICES ASSUME RollbackInv, [Next]_vars PROVE RollbackInv'
    OBVIOUS
  <2>1. OwnInv'
    BY <1>2, OwnNext DEF RollbackInv
  <2>2. CASE UNCHANGED <<ct, net, cmd, todo, res>>
    BY <2>1, <2>2
    DEF RollbackInv, ActsOnOwn, OwnsNoOther, Undoing, Calls, Creating, At
  <2> QED
    BY <2>1, <2>2, NextCases, StepRollback, BreakRollback, InvokeRollback
    DEF RollbackInv
<1>4. RollbackInv => RollbackComplete
  BY DEF RollbackInv, OwnsNoOther, RollbackComplete
<1> QED  BY <1>1, <1>3, <1>4, PTL DEF Spec
================================================================================
