------------------------------ MODULE TargetProofs -----------------------------
(****************************************************************************)
(* What TLAPS proves about Target, for every set of containers, invocations,*)
(* users, nodes and drivers, every menu of commands, and any number of      *)
(* faults and of changes of the host.                                       *)
(****************************************************************************)
EXTENDS TargetProperties, FiniteSetTheorems, SequenceTheorems, TLAPS

(* An invocation that has calls left was given a command line.              *)
Given == \A p \in Procs : todo[p] # <<>> => cmd[p] \in Command

TypeInv == TypeOK /\ Given

--------------------------------------------------------------------------------
(* The calls the helpers build are calls.                                   *)
LEMMA NoConfigType == NoConfig \in Config
  BY DEF NoConfig, NoDevs, Config, DevValue

PlainOps == Ops \ {"adddev", "useradd", "fix"}

LEMMA DoType ==
  ASSUME NEW op \in PlainOps, NEW n \in Names, NEW err \in OnError
  PROVE  /\ Do(op, n, err) \in Call
         /\ Do(op, n, err).op = op /\ Do(op, n, err).err = err
  BY NoConfigType DEF PlainOps, Do, Call, Arg, Val

LEMMA DoArgType ==
  ASSUME NEW op \in Ops \ {"adddev"}, NEW n \in Names, NEW arg \in Arg,
         NEW err \in OnError,
         op = "useradd" => arg \in Users, op = "fix" => arg \in Fixables
  PROVE  /\ DoArg(op, n, arg, err) \in Call
         /\ DoArg(op, n, arg, err).op = op /\ DoArg(op, n, arg, err).err = err
  BY NoConfigType DEF DoArg, Do, Call, Val

LEMMA DoValType ==
  ASSUME NEW op \in PlainOps, NEW n \in Names, NEW val \in Val, NEW err \in OnError,
         op \in NicOps => val \in Bridge \cup {"none"}
  PROVE  /\ DoVal(op, n, val, err) \in Call
         /\ DoVal(op, n, val, err).op = op /\ DoVal(op, n, val, err).err = err
  BY NoConfigType DEF PlainOps, DoVal, Do, Call, Arg

LEMMA DoCfgType ==
  ASSUME NEW op \in PlainOps, NEW n \in Names, NEW cfg \in Config, NEW err \in OnError
  PROVE  /\ DoCfg(op, n, cfg, err) \in Call
         /\ DoCfg(op, n, cfg, err).op = op /\ DoCfg(op, n, cfg, err).err = err
  BY DEF PlainOps, DoCfg, Do, Call, Arg, Val

LEMMA AddDeviceType ==
  ASSUME NEW n \in Names, NEW d \in Dev, NEW path \in Path, NEW err \in OnError
  PROVE  /\ AddDevice(n, d, path, err) \in Call
         /\ AddDevice(n, d, path, err).op = "adddev"
         /\ AddDevice(n, d, path, err).err = err
  BY NoConfigType DEF AddDevice, DoArg, Do, Call, Arg, Val, Ops, NicOps

(* What a call that fails with err may be followed by: no Init and no       *)
(* delete, and a rollback only from a call that has one.                    *)
Follow(err) ==
    {c \in Call : c.op \notin {"init", "delete"} /\ (c.err = "rollback" => err = "rollback")}

LEMMA DoFollows ==
  ASSUME NEW op \in PlainOps \ {"init", "delete"}, NEW n \in Names,
         NEW err \in OnError, NEW e, err = "rollback" => e = "rollback"
  PROVE  Do(op, n, err) \in Follow(e)
  BY DoType DEF Follow

LEMMA DoArgFollows ==
  ASSUME NEW op \in PlainOps \ {"init", "delete"}, NEW n \in Names, NEW arg \in Arg,
         NEW err \in OnError
  PROVE  DoArg(op, n, arg, err) \in Follow(err)
  BY DoArgType DEF Follow, PlainOps

LEMMA DoValFollows ==
  ASSUME NEW op \in PlainOps \ {"init", "delete"}, NEW n \in Names, NEW val \in Val,
         NEW err \in OnError, NEW e, err = "rollback" => e = "rollback",
         op \in NicOps => val \in Bridge \cup {"none"}
  PROVE  DoVal(op, n, val, err) \in Follow(e)
  BY DoValType DEF Follow

LEMMA DoCfgFollows ==
  ASSUME NEW op \in PlainOps \ {"init", "delete"}, NEW n \in Names, NEW cfg \in Config,
         NEW err \in OnError
  PROVE  DoCfg(op, n, cfg, err) \in Follow(err)
  BY DoCfgType DEF Follow

LEMMA AddDeviceFollows ==
  ASSUME NEW n \in Names, NEW d \in Dev, NEW path \in Path, NEW err \in OnError
  PROVE  AddDevice(n, d, path, err) \in Follow(err)
  BY AddDeviceType DEF Follow

(* A listing enumerates its set.                                            *)
LEMMA ListedType ==
  ASSUME NEW S, IsFiniteSet(S)
  PROVE  Listed(S) \in Seq(S)
<1>1. Cardinality(S) \in Nat /\ \E f : f \in Bijection(1..Cardinality(S), S)
  BY FS_CardinalityType DEF ExistsBijection
<1>2. \E f \in [1..Cardinality(S) -> S] : IsInjective(f)
  BY <1>1 DEF Bijection, Injection, IsInjective
<1>3. Listed(S) \in [1..Cardinality(S) -> S]
  BY <1>2 DEF Listed, SetToSeq
<1> QED  BY <1>1, <1>3

(* One call for each element of a listing.                                  *)
LEMMA CallsFromList ==
  ASSUME NEW S, IsFiniteSet(S), NEW T, NEW f, \A x \in S : f[x] \in T
  PROVE  [i \in DOMAIN Listed(S) |-> f[Listed(S)[i]]] \in Seq(T)
<1>1. Listed(S) \in Seq(S)
  BY ListedType
<1>2. PICK n \in Nat : Listed(S) \in [1..n -> S]
  BY <1>1
<1>3. [i \in DOMAIN Listed(S) |-> f[Listed(S)[i]]] \in [1..n -> T]
  BY <1>2
<1> QED  BY <1>2, <1>3

--------------------------------------------------------------------------------
(* What a call may be replaced by, before the rest of the program: the      *)
(* parts of a helper, ...                                                   *)
Parts(t, c) ==
    /\ c.ct = t.ct /\ c.err = t.err
    /\ \/ t.op = "boot" /\ c.op \in {"start", "unfreeze"}
       \/ t.op = "stop" /\ c.op = "halt"
       \/ t.op = "update" /\ c.op \in {"stop", "boot", "ldconfig"}

(* ... the PUT of a configuration that was just read, ...                   *)
Edited(t, cfg) ==
    CASE t.op = "adddev" -> [cfg EXCEPT !.devs[t.arg] = t.val]
      [] t.op = "rmdev" -> [cfg EXCEPT !.devs[t.arg] = "none"]
      [] t.op = "setflag" -> [cfg EXCEPT !.updates = (t.val = "true")]

Editable(t, cfg) ==
    /\ t.op = "adddev" => cfg.devs[t.arg] = "none"
    /\ t.op = "rmdev" => cfg.devs[t.arg] # "none"

Changes(t, c) ==
    /\ t.op \in {"adddev", "rmdev", "setflag"} /\ c.op = "put"
    /\ c.ct = t.ct /\ c.err = t.err
    /\ Present(t.ct) /\ Editable(t, ct[t.ct].cfg)
    /\ c.cfg = Edited(t, ct[t.ct].cfg)

(* ... the runs of a fixable, on fresh snapshots, the restarts of autofix   *)
(* and the stops and starts of autosetup, ...                               *)
Spreads(t, c) ==
    \/ /\ t.op = "fix" /\ c.op = t.arg /\ c.err = t.err
       /\ c.ct \in ClickTargets /\ c.cfg = ct[c.ct].cfg
    \/ /\ t.op = "targets" /\ c.op = "update" /\ c.err = t.err
       /\ c.ct \in ClickTargets
    \/ t.op = "list" /\ c.op \in {"stop", "boot", "bridge"}

(* ... what a fixable does to its container, ...                            *)
Repairs(t, c) ==
    /\ c.ct = t.ct /\ c.err = t.err
    /\ \/ /\ t.op = "devices"
          /\ \E d \in Checked(t.cfg) :
               \/ c.op = "rmdev" /\ c.arg = d
               \/ c = [t EXCEPT !.cfg.devs[d] = "none"]
       \/ /\ t.op \in {"dri", "nvidia"} /\ c.op = "adddev"
          /\ c.arg \in Cards \cup NvNodes
       \/ t.op = "nvidia" /\ c.op \in {"rmdev", "adddev"} /\ c.arg = "nv-bin"
       \/ t.op = "nvidia" /\ c.op = "ldconf"

(* ... or the requests about the network.                                   *)
Connects(t, c) ==
    \/ t.op = "bridge" /\ c.op \in {"netcreate", "profile"}
    \/ t.op = "profile" /\ c.op = "nicadd" /\ c.val = "sdkbr0"
    \/ t.op = "profile" /\ c.op = "nicdel" /\ c.val = "none"
    \/ t.op \in {"nicdel", "nicadd"} /\ c.op = "profput" /\ c.val = t.val

After(t) ==
    {c \in Follow(t.err) : \/ Parts(t, c) \/ Changes(t, c) \/ Spreads(t, c)
                           \/ Repairs(t, c) \/ Connects(t, c)}

(* The current call of an invocation ends, one way or the other.            *)
Moves(p) == (\E ts \in Seq(After(Now(p))) : Continue(p, ts)) \/ Raise(p)

LEMMA AfterFollows ==
  ASSUME NEW t, NEW ts \in Seq(After(t))
  PROVE  ts \in Seq(Follow(t.err))
  BY DEF After

(* What is left to do stays a sequence of calls.                            *)
LEMMA MovesType ==
  ASSUME TypeInv, NEW p \in Procs, todo[p] # <<>>, Moves(p)
  PROVE  /\ todo' \in [Procs -> Seq(Call)]
         /\ res' \in [Procs -> Results]
         /\ \A q \in Procs : todo'[q] # <<>> => todo[q] # <<>>
<1> USE DEF TypeInv, TypeOK
<1>1. todo[p] \in Seq(Call) /\ Tail(todo[p]) \in Seq(Call)
  OBVIOUS
<1>2. ASSUME NEW ts \in Seq(Call), Continue(p, ts)
      PROVE  /\ todo' \in [Procs -> Seq(Call)]
             /\ res' \in [Procs -> Results]
             /\ \A q \in Procs : todo'[q] # <<>> => todo[q] # <<>>
  <2>1. ts \o Tail(todo[p]) \in Seq(Call)
    BY <1>1
  <2> QED  BY <1>2, <2>1 DEF Continue, Results
<1>3. RemoveContainerSync(cmd[p].ct, "drop") \in Seq(Call)
  <2>1. cmd[p].ct \in Names
    BY DEF Given, Command
  <2>2. Do("stop", cmd[p].ct, "drop") \in Call /\ Do("delete", cmd[p].ct, "drop") \in Call
    BY <2>1, DoType DEF PlainOps, Ops, OnError
  <2> QED  BY <2>2 DEF RemoveContainerSync
<1>4. <<>> \in Seq(Call)
  OBVIOUS
<1>5. CASE Raise(p)
  BY <1>2, <1>3, <1>4, <1>5 DEF Raise, Results
<1>6. ASSUME NEW ts \in Seq(After(Now(p))) PROVE ts \in Seq(Call)
  BY DEF After, Follow
<1> QED  BY <1>2, <1>5, <1>6 DEF Moves

--------------------------------------------------------------------------------
(* A step of one invocation: its current call ends and the rest of the      *)
(* state keeps its type.                                                    *)
Types(p) ==
    /\ todo[p] # <<>> /\ Moves(p)
    /\ ct' \in [Names -> Container] /\ net' \in Net
    /\ nvDir' \in [Procs -> Drivers \cup {"none"}]
    /\ halted' \in [Procs -> SUBSET Names]
    /\ faults' \in 0..MaxFaults

LEMMA NowType ==
  ASSUME TypeInv, NEW p \in Procs, todo[p] # <<>>
  PROVE  Now(p) \in Call
  BY DEF TypeInv, TypeOK, Now

LEMMA OneCall ==
  ASSUME NEW T, NEW t \in T PROVE <<t>> \in Seq(T)
  OBVIOUS

LEMMA TwoCalls ==
  ASSUME NEW T, NEW t \in T, NEW u \in T PROVE <<t, u>> \in Seq(T)
  OBVIOUS

LEMMA MoreCalls ==
  ASSUME NEW T, NEW ts \in Seq(T), NEW us \in Seq(T) PROVE ts \o us \in Seq(T)
  OBVIOUS

LEMMA FaultyType ==
  ASSUME TypeInv, NEW p \in Procs, Faulty(p)
  PROVE  faults' \in 0..MaxFaults
  BY SyncAssumption DEF TypeInv, TypeOK, Faulty

(* A request ends the current call and at most costs a fault.               *)
LEMMA AnswerType ==
  ASSUME TypeInv, NEW p \in Procs, Answer(p) \/ Refuse(p)
  PROVE  Moves(p) /\ faults' \in 0..MaxFaults
<1>1. <<>> \in Seq(After(Now(p)))
  OBVIOUS
<1> QED
  BY <1>1, FaultyType DEF Answer, Refuse, Moves, TypeInv, TypeOK

LEMMA SyncStepType ==
  ASSUME TypeInv, NEW p \in Procs, SyncStep(p)
  PROVE  Types(p)
<1> DEFINE t == Now(p)
<1>0. todo[p] # <<>> /\ t \in Call
  <2>1. todo[p] # <<>>
    BY DEF SyncStep, At, BootContainerSync, Start, StopContainerSync, Stop, Delete,
           UpdateConfigSync, Ldconfig, AddDeviceSync, RemoveDeviceSync,
           SetContainerConfig, Put
  <2> QED  BY <2>1, NowType
<1>t. /\ t.ct \in Names /\ t.err \in OnError /\ t.arg \in Arg /\ t.val \in Val
      /\ t.cfg \in Config
  BY <1>0 DEF Call
<1>c. ct[t.ct] \in Container
  BY <1>t DEF TypeInv, TypeOK, LxdTypeOK
<1>n. <<>> \in Seq(After(t))
  OBVIOUS
<1> USE <1>0 DEF Types
<1>1. CASE BootContainerSync(p)
  <2>a. /\ Do("unfreeze", t.ct, t.err) \in Follow(t.err)
        /\ Do("start", t.ct, t.err) \in Follow(t.err)
    BY <1>t, DoFollows DEF PlainOps, Ops
  <2>0. /\ Do("unfreeze", t.ct, t.err) \in After(t)
        /\ Do("start", t.ct, t.err) \in After(t)
    BY <1>1, <2>a DEF BootContainerSync, At, Now, After, Parts, Do
  <2>1. /\ <<Do("unfreeze", t.ct, t.err)>> \in Seq(After(t))
        /\ <<Do("start", t.ct, t.err)>> \in Seq(After(t))
    BY <2>0, OneCall
  <2> QED
    BY <1>1, <1>n, <2>1 DEF BootContainerSync, Moves, server, TypeInv, TypeOK, LxdTypeOK
<1>2. CASE Start(p)
  <2>1. [ct[t.ct] EXCEPT !.status = "Running"] \in Container
    BY <1>c DEF Container
  <2> QED
    BY <1>2, <2>1, AnswerType DEF Start, Refuse, server, TypeInv, TypeOK, LxdTypeOK
<1>3. CASE StopContainerSync(p)
  <2>a. Do("halt", t.ct, t.err) \in Follow(t.err)
    BY <1>t, DoFollows DEF PlainOps, Ops
  <2>0. Do("halt", t.ct, t.err) \in After(t)
    BY <1>3, <2>a DEF StopContainerSync, At, Now, After, Parts, Do
  <2>1. <<Do("halt", t.ct, t.err)>> \in Seq(After(t))
    BY <2>0, OneCall
  <2> QED
    BY <1>3, <1>n, <2>1 DEF StopContainerSync, Moves, server, TypeInv, TypeOK, LxdTypeOK
<1>a. NoContainer \in Container
  BY NoConfigType DEF NoContainer, Container
<1>4. CASE Stop(p)
  <2>1. AfterStop(ct[t.ct]) \in Container
    BY <1>a, <1>c DEF AfterStop, Container
  <2> QED
    BY <1>4, <2>1, AnswerType DEF Stop, Refuse, server, TypeInv, TypeOK, LxdTypeOK
<1>5. CASE Delete(p)
  BY <1>5, <1>a, AnswerType, ZenonT(40) DEF Delete, Refuse, server, TypeInv, TypeOK, LxdTypeOK
<1>6. CASE UpdateConfigSync(p)
  <2>1. /\ Do("stop", t.ct, t.err) \in Follow(t.err) /\ Do("boot", t.ct, t.err) \in Follow(t.err)
        /\ Do("ldconfig", t.ct, t.err) \in Follow(t.err)
    BY <1>t, DoFollows DEF PlainOps, Ops
  <2>a. /\ Do("stop", t.ct, t.err) \in After(t) /\ Do("boot", t.ct, t.err) \in After(t)
        /\ Do("ldconfig", t.ct, t.err) \in After(t)
    BY <1>6, <2>1 DEF UpdateConfigSync, At, Now, After, Parts, Do
  <2>2. <<Do("stop", t.ct, t.err), Do("boot", t.ct, t.err),
          Do("ldconfig", t.ct, t.err)>> \in Seq(After(t))
    BY <2>a
  <2> QED
    BY <1>6, <2>2 DEF UpdateConfigSync, Moves, server, TypeInv, TypeOK, LxdTypeOK
<1>7. CASE Ldconfig(p)
  <2>1. [ct[t.ct] EXCEPT !.ldconf = IF @ = "absent" THEN @ ELSE "loaded"] \in Container
    BY <1>c DEF Container
  <2> QED
    BY <1>7, <2>1, AnswerType DEF Ldconfig, Refuse, server, TypeInv, TypeOK, LxdTypeOK
<1>8. ASSUME NEW ok, NEW changed \in Config, Edit(p, ok, changed),
             t.op \in {"adddev", "rmdev", "setflag"},
             ok => Editable(t, ct[t.ct].cfg), changed = Edited(t, ct[t.ct].cfg)
      PROVE  Types(p)
  <2>a. DoCfg("put", t.ct, changed, t.err) \in Follow(t.err)
    BY <1>t, DoCfgFollows DEF PlainOps, Ops
  <2>0. Present(t.ct) /\ ok => DoCfg("put", t.ct, changed, t.err) \in After(t)
    BY <1>8, <2>a DEF After, Changes, DoCfg, Do
  <2>1. Present(t.ct) /\ ok => <<DoCfg("put", t.ct, changed, t.err)>> \in Seq(After(t))
    BY <2>0, OneCall
  <2> QED
    BY <1>8, <2>1 DEF Edit, Moves, server, TypeInv, TypeOK, LxdTypeOK
<1>v. ct[t.ct].cfg \in Config /\ "none" \in DevValue
  BY <1>c DEF Container, DevValue
<1>9. CASE AddDeviceSync(p)
  <2>1. t.val \in DevValue
    BY <1>9, <1>0 DEF AddDeviceSync, At, Now, Call, DevValue
  <2>2. [ct[t.ct].cfg EXCEPT !.devs[t.arg] = t.val] \in Config
    BY <1>v, <2>1 DEF Config
  <2> QED  BY <1>9, <1>8, <2>2 DEF AddDeviceSync, At, Now, Edited, Editable
<1>10. CASE RemoveDeviceSync(p)
  <2>1. [ct[t.ct].cfg EXCEPT !.devs[t.arg] = "none"] \in Config
    BY <1>v DEF Config
  <2> QED  BY <1>10, <1>8, <2>1 DEF RemoveDeviceSync, At, Now, Edited, Editable
<1>11. CASE SetContainerConfig(p)
  <2>1. [ct[t.ct].cfg EXCEPT !.updates = (t.val = "true")] \in Config
    BY <1>v DEF Config
  <2> QED  BY <1>11, <1>8, <2>1 DEF SetContainerConfig, At, Now, Edited, Editable
<1>12. CASE Put(p)
  <2>1. [ct[t.ct] EXCEPT !.cfg = t.cfg] \in Container
    BY <1>c, <1>t DEF Container
  <2> QED
    BY <1>12, <2>1, AnswerType, SMTT(30) DEF Put, Refuse, server, TypeInv, TypeOK, LxdTypeOK
<1> QED
  BY <1>1, <1>2, <1>3, <1>4, <1>5, <1>6, <1>7, <1>9, <1>10, <1>11, <1>12 DEF SyncStep
--------------------------------------------------------------------------------
LEMMA AddNodesType ==
  ASSUME NEW t \in Call, t.op \in {"dri", "nvidia"},
         NEW nodes, IsFiniteSet(nodes), nodes \subseteq Cards \cup NvNodes
  PROVE  AddNodes(t, nodes) \in Seq(After(t))
<1> DEFINE f == [x \in nodes |-> AddDevice(t.ct, x, x, t.err)]
           order == Listed(nodes)
<1>0. \A x \in nodes : AddDevice(t.ct, x, x, t.err) \in Follow(t.err)
  BY AddDeviceType DEF Follow, Dev, Path, Call
<1>1. \A x \in nodes : f[x] \in After(t)
  BY <1>0 DEF After, Repairs, AddDevice, DoArg, Do
<1>2. [i \in DOMAIN order |-> f[order[i]]] \in Seq(After(t))
  <2> HIDE DEF f
  <2> QED  BY <1>1, CallsFromList
<1>3. order \in Seq(nodes)
  BY ListedType
<1>4. \A i \in DOMAIN order : order[i] \in nodes
  <2> HIDE DEF order
  <2> QED  BY <1>3
<1>5. AddNodes(t, nodes) = [i \in DOMAIN order |-> f[order[i]]]
  BY <1>4 DEF AddNodes
<1> QED  BY <1>2, <1>5

LEMMA MissingNodesFinite ==
  ASSUME NEW cfg
  PROVE  /\ IsFiniteSet(MissingNodes(cfg, Cards)) /\ MissingNodes(cfg, Cards) \subseteq Cards
         /\ IsFiniteSet(MissingNodes(cfg, NvNodes)) /\ MissingNodes(cfg, NvNodes) \subseteq NvNodes
<1>1. MissingNodes(cfg, Cards) \subseteq Cards /\ MissingNodes(cfg, NvNodes) \subseteq NvNodes
  BY DEF MissingNodes
<1> QED  BY <1>1, LxdAssumption, FS_Subset

(* One call for every listed container.                                     *)
LEMMA TargetsType ==
  ASSUME NEW S \in SUBSET Names, NEW T, NEW f, \A n \in S : f[n] \in T
  PROVE  [i \in DOMAIN Listed(S) |-> f[Listed(S)[i]]] \in Seq(T)
<1>1. IsFiniteSet(S)
  BY LxdAssumption, FS_Subset
<1> QED  BY <1>1, CallsFromList

LEMMA ListedIn ==
  ASSUME NEW S \in SUBSET Names
  PROVE  \A i \in DOMAIN Listed(S) : Listed(S)[i] \in S
<1>1. IsFiniteSet(S)
  BY LxdAssumption, FS_Subset
<1>2. Listed(S) \in Seq(S)
  BY <1>1, ListedType
<1> DEFINE order == Listed(S)
<1> HIDE DEF order
<1>3. order \in Seq(S) => \A i \in DOMAIN order : order[i] \in S
  OBVIOUS
<1> QED  BY <1>2, <1>3 DEF order

LEMMA NvidiaDirType ==
  ASSUME TypeInv, NEW p \in Procs
  PROVE  NvidiaDir(p) \in Drivers \cup {"none"}
  BY DEF TypeInv, TypeOK, LxdTypeOK, NvidiaDir

LEMMA FixingStepType ==
  ASSUME TypeInv, NEW p \in Procs, FixingStep(p)
  PROVE  Types(p)
<1> DEFINE t == Now(p)
<1>0. todo[p] # <<>> /\ t \in Call
  <2>1. todo[p] # <<>>
    BY DEF FixingStep, At, Fix, Check, FixAccess, FixDevices, FixDRI, FixNvidia,
           WriteLDConf, UpdateTargets
  <2> QED  BY <2>1, NowType
<1>t. /\ t.ct \in Names /\ t.err \in OnError /\ t.arg \in Arg /\ t.val \in Val
      /\ t.cfg \in Config
  BY <1>0 DEF Call
<1>c. \A n \in Names : ct[n] \in Container /\ ct[n].cfg \in Config
  BY DEF TypeInv, TypeOK, LxdTypeOK, Container
<1>n. <<>> \in Seq(After(t))
  OBVIOUS
<1>s. ClickTargets \in SUBSET Names
  BY DEF ClickTargets
<1> USE <1>0 DEF Types
<1>1. CASE Fix(p)
  <2> DEFINE f == [n \in ClickTargets |-> DoCfg(t.arg, n, ct[n].cfg, t.err)]
             ts == [i \in DOMAIN Listed(ClickTargets) |-> f[Listed(ClickTargets)[i]]]
  <2>1. t.arg \in PlainOps \ {"init", "delete"}
    BY <1>1 DEF Fix, At, Now, Call, Fixables, PlainOps, Ops
  <2>a. \A n \in ClickTargets : f[n] \in Follow(t.err)
    BY <2>1, <1>s, <1>c, <1>t, DoCfgFollows
  <2>2. \A n \in ClickTargets : f[n] \in After(t)
    BY <1>1, <2>a DEF Fix, At, Now, After, Spreads, DoCfg, Do
  <2>3. ts \in Seq(After(t))
    <3> HIDE DEF f
    <3> QED  BY <2>2, <1>s, TargetsType
  <2>4. ts = [i \in DOMAIN Listed(ClickTargets) |->
                 DoCfg(t.arg, Listed(ClickTargets)[i], ct[Listed(ClickTargets)[i]].cfg, t.err)]
    BY <1>s, ListedIn
  <2> HIDE DEF ts
  <2>5. Moves(p)
    BY <1>1, <2>3, <2>4 DEF Fix, Moves
  <2> QED
    BY <1>1, <2>5 DEF Fix, server, TypeInv, TypeOK, LxdTypeOK
<1>2. CASE Check(p)
  BY <1>2, <1>n, NvidiaDirType DEF Check, Moves, server, TypeInv, TypeOK, LxdTypeOK
<1>3. CASE FixAccess(p)
  <2>1. [ct[t.ct] EXCEPT !.access = TRUE] \in Container
    BY <1>c, <1>t DEF Container
  <2> QED
    BY <1>3, <1>n, <2>1 DEF FixAccess, Refuse, Moves, server, TypeInv, TypeOK, LxdTypeOK
<1>4. CASE FixDevices(p)
  <2>1. CASE Continue(p, <<>>)
    BY <1>4, <2>1, <1>n DEF FixDevices, Moves, server, TypeInv, TypeOK, LxdTypeOK
  <2>2. ASSUME NEW d \in Dev,
               d \in Checked(t.cfg),
               Continue(p, IF t.cfg.devs[d] \in host
                           THEN <<[t EXCEPT !.cfg.devs[d] = "none"]>>
                           ELSE <<DoArg("rmdev", t.ct, d, t.err),
                                  [t EXCEPT !.cfg.devs[d] = "none"]>>)
        PROVE  Types(p)
    <3>0. [t EXCEPT !.cfg.devs[d] = "none"] \in Call
      BY <1>4 DEF Call, Config, DevValue
    <3>1. [t EXCEPT !.cfg.devs[d] = "none"] \in Follow(t.err)
      BY <1>4, <3>0 DEF FixDevices, At, Now, Call, Follow
    <3>2. DoArg("rmdev", t.ct, d, t.err) \in Follow(t.err)
      BY <1>t, DoArgFollows DEF PlainOps, Ops, Arg
    <3>a. t.op = "devices"
      BY <1>4 DEF FixDevices, At, Now
    <3> DEFINE rest == [t EXCEPT !.cfg.devs[d] = "none"]
               rm == DoArg("rmdev", t.ct, d, t.err)
               ts == IF t.cfg.devs[d] \in host THEN <<rest>> ELSE <<rm, rest>>
    <3>3. ts \in Seq(After(t))
      <4> HIDE DEF rest, rm
      <4>a. rest.ct = t.ct /\ rm.ct = t.ct /\ rm.op = "rmdev" /\ rm.arg = d
            /\ rest.err = t.err /\ rm.err = t.err
        BY <1>0 DEF rest, rm, DoArg, Do, Call
      <4>1. rest \in After(t) /\ rm \in After(t)
        BY <2>2, <3>1, <3>2, <3>a, <4>a DEF rest, rm, After, Repairs
      <4>2. <<rest>> \in Seq(After(t)) /\ <<rm, rest>> \in Seq(After(t))
        BY <4>1, OneCall, TwoCalls
      <4> QED  BY <4>2
    <3>4. Moves(p)
      <4>1. Continue(p, ts)
        BY <2>2
      <4> HIDE DEF ts
      <4> QED  BY <3>3, <4>1 DEF Moves
    <3> QED
      BY <1>4, <3>4 DEF FixDevices, server, TypeInv, TypeOK, LxdTypeOK
  <2> QED  BY <1>4, <2>1, <2>2 DEF FixDevices, Checked
<1>5. CASE FixDRI(p)
  <2>0. t.op = "dri"
    BY <1>5 DEF FixDRI, At, Now
  <2>1. AddNodes(t, MissingNodes(t.cfg, Cards)) \in Seq(After(t))
    BY <2>0, MissingNodesFinite, AddNodesType
  <2> QED
    BY <1>5, <2>1 DEF FixDRI, Moves, server, TypeInv, TypeOK, LxdTypeOK
<1>6. CASE FixNvidia(p)
  <2> DEFINE dir == NvidiaDir(p)
             has == t.cfg.devs["nv-bin"]
             remove == IF has \in {"none", dir} THEN <<>>
                       ELSE <<DoArg("rmdev", t.ct, "nv-bin", t.err)>>
             add == IF has = dir THEN <<>>
                    ELSE <<AddDevice(t.ct, "nv-bin", dir, t.err)>>
             nodes == AddNodes(t, MissingNodes(t.cfg, NvNodes))
             ts == IF dir = "none" THEN <<>>
                   ELSE remove \o add \o <<Do("ldconf", t.ct, t.err)>> \o nodes
  <2>0. "nv-bin" \in Dev /\ t.op = "nvidia"
    BY <1>6 DEF Dev, FixNvidia, At, Now
  <2>1. remove \in Seq(After(t))
    <3>a. DoArg("rmdev", t.ct, "nv-bin", t.err) \in Follow(t.err)
      BY <2>0, <1>t, DoArgFollows DEF PlainOps, Ops, Arg
    <3>1. DoArg("rmdev", t.ct, "nv-bin", t.err) \in After(t)
      BY <2>0, <3>a DEF After, Repairs, DoArg, Do
    <3> QED  BY <3>1, <1>n, OneCall
  <2>2. dir # "none" => add \in Seq(After(t))
    <3>1. dir # "none" => dir \in Path
      BY NvidiaDirType DEF Path
    <3>a. dir # "none" => AddDevice(t.ct, "nv-bin", dir, t.err) \in Follow(t.err)
      BY <2>0, <3>1, <1>t, AddDeviceFollows
    <3>2. dir # "none" => AddDevice(t.ct, "nv-bin", dir, t.err) \in After(t)
      BY <2>0, <3>a DEF After, Repairs, AddDevice, DoArg, Do
    <3> QED  BY <3>2, <1>n, OneCall
  <2>3. <<Do("ldconf", t.ct, t.err)>> \in Seq(After(t))
    <3>1. Do("ldconf", t.ct, t.err) \in Follow(t.err)
      BY <1>t, DoFollows DEF PlainOps, Ops
    <3>2. Do("ldconf", t.ct, t.err) \in After(t)
      BY <2>0, <3>1 DEF After, Repairs, Do
    <3> QED  BY <3>2, OneCall
  <2>4. nodes \in Seq(After(t))
    BY <2>0, MissingNodesFinite, AddNodesType
  <2>5. ts \in Seq(After(t))
    <3> HIDE DEF remove, add, nodes, dir
    <3>1. CASE dir = "none"
      BY <3>1, <1>n
    <3>2. CASE dir # "none"
      <4>1. remove \o add \in Seq(After(t))
        BY <2>1, <2>2, <3>2, MoreCalls
      <4>2. remove \o add \o <<Do("ldconf", t.ct, t.err)>> \in Seq(After(t))
        BY <2>3, <4>1, MoreCalls
      <4>3. remove \o add \o <<Do("ldconf", t.ct, t.err)>> \o nodes \in Seq(After(t))
        BY <2>4, <4>2, MoreCalls
      <4> QED  BY <3>2, <4>3
    <3> QED  BY <3>1, <3>2
  <2>6. Moves(p)
    <3>1. Continue(p, ts)
      BY <1>6 DEF FixNvidia
    <3> HIDE DEF ts
    <3> QED  BY <2>5, <3>1 DEF Moves
  <2> QED
    BY <1>6, <2>6, NvidiaDirType DEF FixNvidia, server, TypeInv, TypeOK, LxdTypeOK
<1>7. CASE WriteLDConf(p)
  <2>1. [ct[t.ct] EXCEPT !.ldconf = IF @ = "absent" THEN "written" ELSE @] \in Container
    BY <1>c, <1>t DEF Container
  <2> QED
    BY <1>7, <1>n, <2>1 DEF WriteLDConf, Refuse, Moves, server, TypeInv, TypeOK, LxdTypeOK
<1>8. CASE UpdateTargets(p)
  <2> DEFINE f == [n \in ClickTargets |-> Do("update", n, t.err)]
             ts == [i \in DOMAIN Listed(ClickTargets) |-> f[Listed(ClickTargets)[i]]]
  <2>a. \A n \in ClickTargets : f[n] \in Follow(t.err)
    BY <1>s, <1>t, DoFollows DEF PlainOps, Ops
  <2>1. \A n \in ClickTargets : f[n] \in After(t)
    BY <1>8, <2>a DEF UpdateTargets, At, Now, After, Spreads, Do
  <2>2. ts \in Seq(After(t))
    <3> HIDE DEF f
    <3> QED  BY <2>1, <1>s, TargetsType
  <2>3. ts = [i \in DOMAIN Listed(ClickTargets) |->
                 Do("update", Listed(ClickTargets)[i], t.err)]
    BY <1>s, ListedIn
  <2> HIDE DEF ts
  <2>4. Moves(p)
    BY <1>8, <2>2, <2>3 DEF UpdateTargets, Moves
  <2> QED
    BY <1>8, <2>4 DEF UpdateTargets, server, TypeInv, TypeOK, LxdTypeOK
<1> QED
  BY <1>1, <1>2, <1>3, <1>4, <1>5, <1>6, <1>7, <1>8 DEF FixingStep
LEMMA NetworkStepType ==
  ASSUME TypeInv, NEW p \in Procs, NetworkStep(p)
  PROVE  Types(p)
<1> DEFINE t == Now(p)
<1>0. todo[p] # <<>> /\ t \in Call
  <2>1. todo[p] # <<>>
    BY DEF NetworkStep, At, ListContainers, CreateBridgeNeeded, LxdBridgeConfigured,
           NetworkCreate, ProfileConfig, ProfileDevice, ProfilePut
  <2> QED  BY <2>1, NowType
<1>t. t.ct \in Names /\ t.err \in OnError /\ t.val \in Val
  BY <1>0 DEF Call
<1>n. <<>> \in Seq(After(t))
  OBVIOUS
<1>f. "fail" \in OnError /\ "skip" \in OnError
  BY DEF OnError
<1> USE <1>0 DEF Types
<1>1. CASE ListContainers(p)
  <2> DEFINE up == {n \in Names : ct[n].status \in {"Running", "Frozen"}}
             order == Listed(up)
             f == [n \in up |-> Do("stop", n, "fail")]
             g == [n \in up |-> Do("boot", n, "skip")]
             stops == [i \in DOMAIN order |-> f[order[i]]]
             boots == [i \in DOMAIN order |-> g[order[i]]]
             ts == stops \o <<Do("bridge", t.ct, "fail")>> \o boots
  <2>0. up \in SUBSET Names
    OBVIOUS
  <2>a. t.op = "list"
    BY <1>1 DEF ListContainers, At, Now
  <2>b. (\A n \in up : f[n] \in Follow(t.err)) /\ (\A n \in up : g[n] \in Follow(t.err))
    BY <1>f, DoFollows DEF PlainOps, Ops
  <2>1. (\A n \in up : f[n] \in After(t)) /\ (\A n \in up : g[n] \in After(t))
    BY <2>a, <2>b DEF After, Spreads, Do
  <2>2. stops \in Seq(After(t)) /\ boots \in Seq(After(t))
    <3> HIDE DEF f, g, up
    <3> QED  BY <2>0, <2>1, TargetsType
  <2>c. Do("bridge", t.ct, "fail") \in Follow(t.err)
    BY <1>t, <1>f, DoFollows DEF PlainOps, Ops
  <2>3. Do("bridge", t.ct, "fail") \in After(t)
    BY <2>a, <2>c DEF After, Spreads, Do
  <2>4. ts \in Seq(After(t))
    <3> HIDE DEF stops, boots
    <3> QED  BY <2>2, <2>3
  <2>5. /\ stops = [i \in DOMAIN order |-> Do("stop", order[i], "fail")]
        /\ boots = [i \in DOMAIN order |-> Do("boot", order[i], "skip")]
    BY <2>0, ListedIn
  <2>6. Moves(p)
    <3> HIDE DEF stops, boots
    <3>1. Continue(p, ts)
      BY <1>1, <2>5 DEF ListContainers
    <3> HIDE DEF ts
    <3> QED  BY <2>4, <3>1 DEF Moves
  <2> QED
    BY <1>1, <2>6 DEF ListContainers, server, TypeInv, TypeOK, LxdTypeOK
<1>2. CASE CreateBridgeNeeded(p)
  <2> DEFINE create == <<Do("netcreate", t.ct, "fail"), Do("profile", t.ct, "fail")>>
  <2>1. Do("netcreate", t.ct, "fail") \in Follow(t.err) /\ Do("profile", t.ct, "fail") \in Follow(t.err)
    BY <1>t, <1>f, DoFollows DEF PlainOps, Ops
  <2>a. Do("netcreate", t.ct, "fail") \in After(t) /\ Do("profile", t.ct, "fail") \in After(t)
    BY <1>2, <2>1 DEF CreateBridgeNeeded, At, Now, After, Connects, Do
  <2>2. create \in Seq(After(t))
    BY <2>a, TwoCalls
  <2>3. Moves(p)
    <3>1. Continue(p, <<>>) \/ Continue(p, create)
      BY <1>2 DEF CreateBridgeNeeded
    <3> HIDE DEF create
    <3> QED  BY <1>n, <2>2, <3>1 DEF Moves
  <2> QED
    BY <1>2, <2>3, FaultyType DEF CreateBridgeNeeded, server, TypeInv, TypeOK, LxdTypeOK
<1>3. CASE LxdBridgeConfigured(p)
  BY <1>3, <1>n DEF LxdBridgeConfigured, Moves, server, TypeInv, TypeOK, LxdTypeOK
<1>4. CASE NetworkCreate(p)
  <2>1. [net EXCEPT !.bridges = @ \cup {"sdkbr0"}] \in Net
    BY DEF TypeInv, TypeOK, LxdTypeOK, Net, Bridge
  <2> QED
    BY <1>4, <2>1, AnswerType DEF NetworkCreate, Refuse, server, TypeInv, TypeOK, LxdTypeOK
<1>5. CASE ProfileConfig(p)
  <2>1. DoVal("nicadd", t.ct, "sdkbr0", "fail") \in Follow(t.err)
    BY <1>t, <1>f, DoValFollows DEF PlainOps, Ops, Val, Bridge
  <2>2. Do("nicdel", t.ct, "fail") \in Follow(t.err)
    BY <1>t, <1>f, DoFollows DEF PlainOps, Ops
  <2> DEFINE del == Do("nicdel", t.ct, "fail")
             add == DoVal("nicadd", t.ct, "sdkbr0", "fail")
             ts == IF net.eth0 = "none" THEN <<add>> ELSE <<del>> \o <<add>>
  <2>3. Moves(p)
    <3>1. ts \in Seq(After(t))
      <4> HIDE DEF del, add
      <4>a. add \in After(t) /\ del \in After(t)
        BY <1>5, <2>1, <2>2
        DEF del, add, ProfileConfig, At, Now, After, Connects, DoVal, Do
      <4>1. <<add>> \in Seq(After(t)) /\ <<del>> \in Seq(After(t))
        BY <4>a, OneCall
      <4> QED  BY <4>1, MoreCalls
    <3>2. Continue(p, ts)
      BY <1>5 DEF ProfileConfig
    <3> HIDE DEF ts
    <3> QED  BY <3>1, <3>2 DEF Moves
  <2> QED
    BY <1>5, <2>3 DEF ProfileConfig, server, TypeInv, TypeOK, LxdTypeOK
<1>6. CASE ProfileDevice(p)
  <2>1. t.val \in Bridge \cup {"none"}
    BY <1>6 DEF ProfileDevice, At, Now, Call, NicOps
  <2>a. DoVal("profput", t.ct, t.val, t.err) \in Follow(t.err)
    BY <2>1, <1>t, DoValFollows DEF PlainOps, Ops
  <2>0. DoVal("profput", t.ct, t.val, t.err) \in After(t)
    BY <1>6, <2>a DEF ProfileDevice, At, Now, After, Connects, DoVal, Do
  <2>2. <<DoVal("profput", t.ct, t.val, t.err)>> \in Seq(After(t))
    BY <2>0, OneCall
  <2> QED
    BY <1>6, <2>2 DEF ProfileDevice, Moves, server, TypeInv, TypeOK, LxdTypeOK
<1>7. CASE ProfilePut(p)
  <2>1. t.val \in Bridge \cup {"none"}
    BY <1>7 DEF ProfilePut, At, Now, Call, NicOps
  <2>2. [net EXCEPT !.eth0 = t.val] \in Net
    BY <2>1 DEF TypeInv, TypeOK, LxdTypeOK, Net
  <2> QED
    BY <1>7, <2>2, AnswerType DEF ProfilePut, TypeInv, TypeOK, LxdTypeOK
<1> QED
  BY <1>1, <1>2, <1>3, <1>4, <1>5, <1>6, <1>7 DEF NetworkStep

--------------------------------------------------------------------------------
LEMMA InitContainerType ==
  ASSUME TypeInv, NEW p \in Procs, InitContainer(p)
  PROVE  Types(p)
<1> DEFINE new == [NoContainer EXCEPT !.status = "Stopped", !.owner = p,
                      !.cfg.click = TRUE, !.cfg.updates = (Now(p).val = "true")]
<1>1. new \in Container
  BY NoConfigType DEF NoContainer, Container, Config
<1>2. todo[p] # <<>>
  BY DEF InitContainer, At
<1> QED
  BY <1>1, <1>2, AnswerType
  DEF InitContainer, Refuse, server, Types, TypeInv, TypeOK, LxdTypeOK

LEMMA RegisterStepType ==
  ASSUME TypeInv, NEW p \in Procs, KnownUser(p) \/ GroupAdd(p) \/ UserAdd(p)
  PROVE  Types(p)
<1>1. todo[p] # <<>>
  BY DEF KnownUser, GroupAdd, UserAdd, At
<1>2. <<>> \in Seq(After(Now(p)))
  OBVIOUS
<1>3. CASE KnownUser(p) \/ GroupAdd(p)
  BY <1>1, <1>2, <1>3
  DEF KnownUser, GroupAdd, Types, Moves, server, TypeInv, TypeOK, LxdTypeOK
<1>4. CASE UserAdd(p)
  <2> DEFINE t == Now(p)
  <2>1. t.ct \in Names /\ t.arg \in Users
    BY <1>4, <1>1, NowType DEF UserAdd, At, Now, Call
  <2>2. ct[t.ct] \in Container
    BY <2>1 DEF TypeInv, TypeOK, LxdTypeOK
  <2>3. [ct[t.ct] EXCEPT !.users = @ \cup {t.arg}] \in Container
    BY <2>1, <2>2 DEF Container
  <2> HIDE DEF t
  <2>4. ct' \in [Names -> Container]
    <3>1. ct' = ct \/ ct' = [ct EXCEPT ![t.ct].users = @ \cup {t.arg}]
      BY <1>4 DEF UserAdd, Refuse, server, t
    <3> QED
      BY <2>1, <2>3, <3>1 DEF TypeInv, TypeOK, LxdTypeOK
  <2> QED
    BY <1>1, <1>4, <2>4, AnswerType
    DEF UserAdd, Refuse, server, Types, TypeInv, TypeOK, LxdTypeOK
<1> QED  BY <1>3, <1>4

(* What the commands are written as.                                        *)
LEMMA FollowIsCall ==
  ASSUME NEW err, NEW ts \in Seq(Follow(err))
  PROVE  ts \in Seq(Call)
  BY DEF Follow

LEMMA FixAllType ==
  ASSUME NEW n \in Names, NEW err \in OnError
  PROVE  FixAll(n, err) \in Seq(Follow(err))
<1>1. \A i \in 1..4 : FixableSet[i] \in Fixables /\ FixableSet[i] \in Arg
  BY DEF FixableSet, Fixables, Arg
<1>2. \A i \in 1..4 : /\ DoArg("fix", n, FixableSet[i], err) \in Call
                      /\ DoArg("fix", n, FixableSet[i], err).op = "fix"
                      /\ DoArg("fix", n, FixableSet[i], err).err = err
  BY <1>1, DoArgType DEF Ops
<1>3. \A i \in 1..4 : DoArg("fix", n, FixableSet[i], err) \in Follow(err)
  BY <1>2 DEF Follow
<1> QED  BY <1>3 DEF FixAll

LEMMA CheckAllType ==
  ASSUME NEW n \in Names
  PROVE  CheckAll(n) \in Seq(Follow("fail"))
<1>1. \A i \in 1..4 : FixableSet[i] \in Arg
  BY DEF FixableSet, Fixables, Arg
<1>2. \A i \in 1..4 : DoArg("check", n, FixableSet[i], "fail") \in Follow("fail")
  BY <1>1, DoArgFollows DEF PlainOps, Ops, OnError
<1> QED  BY <1>2 DEF CheckAll

LEMMA RegisterType ==
  ASSUME NEW n \in Names, NEW u \in Users, NEW err \in OnError
  PROVE  RegisterUserInContainer(n, u, err) \in Seq(Follow(err))
<1>1. u \in Dev /\ u \in Path /\ u \in Arg
  BY DEF Dev, Path, Arg
<1>2. /\ DoArg("whoami", n, u, err) \in Follow(err)
      /\ DoArg("lookup", n, u, err) \in Follow(err)
  BY <1>1, DoArgFollows DEF PlainOps, Ops
<1>3. DoArg("useradd", n, u, err) \in Follow(err)
  <2>1. /\ DoArg("useradd", n, u, err) \in Call
        /\ DoArg("useradd", n, u, err).op = "useradd"
        /\ DoArg("useradd", n, u, err).err = err
    BY <1>1, DoArgType DEF Ops
  <2> QED  BY <2>1 DEF Follow
<1>4. Do("boot", n, err) \in Follow(err) /\ Do("groupadd", n, err) \in Follow(err)
  BY DoFollows DEF PlainOps, Ops
<1>5. AddDevice(n, u, u, err) \in Follow(err)
  BY <1>1, AddDeviceFollows
<1> QED
  BY <1>2, <1>3, <1>4, <1>5 DEF RegisterUserInContainer

(* What a create does after Init rolls back, or cannot fail it.             *)
LEMMA AfterInitType ==
  ASSUME NEW c \in Command
  PROVE  AfterInit(c) \in Seq(Follow("rollback"))
<1> DEFINE n == c.ct
           fixes == FixAll(n, "rollback")
           tmp == <<AddDevice(n, "tmp", "tmp", "rollback")>>
           reg == RegisterUserInContainer(n, c.user, "rollback")
           last == <<Do("update", n, "drop")>>
<1>0. n \in Names /\ c.user \in Users /\ "rollback" \in OnError
  BY DEF Command, OnError
<1>1. fixes \in Seq(Follow("rollback")) /\ reg \in Seq(Follow("rollback"))
  BY <1>0, FixAllType, RegisterType
<1>2. AddDevice(n, "tmp", "tmp", "rollback") \in Follow("rollback")
  BY <1>0, AddDeviceFollows DEF Dev, Path
<1>3. Do("update", n, "drop") \in Follow("rollback")
  BY <1>0, DoFollows DEF PlainOps, Ops, OnError
<1>4. tmp \in Seq(Follow("rollback")) /\ last \in Seq(Follow("rollback"))
  BY <1>2, <1>3, OneCall
<1>5. AfterInit(c) = fixes \o (tmp \o (reg \o last))
  BY DEF AfterInit
<1> HIDE DEF fixes, tmp, reg, last
<1>6. reg \o last \in Seq(Follow("rollback"))
  BY <1>1, <1>4, MoreCalls
<1>7. tmp \o (reg \o last) \in Seq(Follow("rollback"))
  BY <1>4, <1>6, MoreCalls
<1> QED  BY <1>1, <1>5, <1>7, MoreCalls

(* Every command but create and destroy returns the first error.            *)
LEMMA ScriptFollows ==
  ASSUME NEW c \in Command, c.kind \notin {"create", "destroy"}
  PROVE  Script(c) \in Seq(Follow("fail"))
<1> DEFINE n == c.ct
<1>0. n \in Names /\ c.user \in Users /\ c.flag \in Val /\ "fail" \in OnError
  BY DEF Command, Val, OnError
<1>1. FixAll(n, "fail") \in Seq(Follow("fail"))
  BY <1>0, FixAllType
<1>2. CheckAll(n) \in Seq(Follow("fail"))
  BY <1>0, CheckAllType
<1>3. RegisterUserInContainer(n, c.user, "fail") \in Seq(Follow("fail"))
  BY <1>0, RegisterType
<1>4. /\ Do("targets", n, "fail") \in Follow("fail")
      /\ Do("list", n, "fail") \in Follow("fail")
      /\ Do("hasbridge", n, "fail") \in Follow("fail")
      /\ Do("boot", n, "fail") \in Follow("fail")
  BY <1>0, DoFollows DEF PlainOps, Ops
<1>5. DoVal("setflag", n, c.flag, "fail") \in Follow("fail")
  BY <1>0, DoValFollows DEF PlainOps, Ops, NicOps
<1>6. /\ <<Do("targets", n, "fail")>> \in Seq(Follow("fail"))
      /\ <<Do("list", n, "fail")>> \in Seq(Follow("fail"))
      /\ <<Do("hasbridge", n, "fail")>> \in Seq(Follow("fail"))
      /\ <<Do("boot", n, "fail")>> \in Seq(Follow("fail"))
      /\ <<DoVal("setflag", n, c.flag, "fail")>> \in Seq(Follow("fail"))
  BY <1>4, <1>5, OneCall
<1>7. /\ FixAll(n, "fail") \o <<Do("targets", n, "fail")>> \in Seq(Follow("fail"))
      /\ <<Do("hasbridge", n, "fail")>> \o CheckAll(n) \in Seq(Follow("fail"))
  BY <1>1, <1>2, <1>6, MoreCalls
<1> QED
  BY <1>3, <1>6, <1>7 DEF Script, Command

LEMMA ScriptType ==
  ASSUME NEW c \in Command
  PROVE  Script(c) \in Seq(Call)
<1>0. c.ct \in Names /\ c.flag \in Val
  BY DEF Command, Val
<1>1. CASE c.kind = "create"
  <2>1. AfterInit(c) \in Seq(Call)
    BY AfterInitType, FollowIsCall
  <2>2. DoVal("init", c.ct, c.flag, "fail") \in Call
    BY <1>0, DoValType DEF PlainOps, Ops, NicOps, OnError
  <2>3. Create(c) \in Seq(Call)
    BY <2>1, <2>2, OneCall, MoreCalls DEF Create
  <2> QED  BY <1>1, <2>3 DEF Script
<1>2. CASE c.kind = "destroy"
  <2>1. Do("stop", c.ct, "fail") \in Call /\ Do("delete", c.ct, "fail") \in Call
    BY <1>0, DoType DEF PlainOps, Ops, OnError
  <2> QED  BY <1>2, <2>1, TwoCalls DEF Script, RemoveContainerSync
<1>3. CASE c.kind \notin {"create", "destroy"}
  BY <1>3, ScriptFollows, FollowIsCall
<1> QED  BY <1>1, <1>2, <1>3

--------------------------------------------------------------------------------
(* A failed request, or the death of the process.                           *)
LEMMA BreakType ==
  ASSUME TypeInv, NEW p \in Procs, Break(p)
  PROVE  TypeInv'
<1>1. CASE Fault(p)
  <2>1. todo[p] # <<>> /\ Moves(p) /\ faults' \in 0..MaxFaults
    BY <1>1, FaultyType DEF Fault, Moves
  <2>2. /\ todo' \in [Procs -> Seq(Call)] /\ res' \in [Procs -> Results]
        /\ \A q \in Procs : todo'[q] # <<>> => todo[q] # <<>>
    BY <2>1, MovesType
  <2> QED
    BY <1>1, <2>1, <2>2
    DEF Fault, Break, server, TypeInv, TypeOK, LxdTypeOK, Given
<1>2. CASE Kill(p)
  <2>1. faults' \in 0..MaxFaults /\ <<>> \in Seq(Call)
    BY <1>2, FaultyType DEF Kill
  <2> QED
    BY <1>2, <2>1
    DEF Kill, Break, server, TypeInv, TypeOK, LxdTypeOK, Given, Results
<1> QED  BY <1>1, <1>2 DEF Break

LEMMA StepType ==
  ASSUME TypeInv, NEW p \in Procs, Step(p)
  PROVE  TypeInv'
<1>1. Types(p)
  BY SyncStepType, FixingStepType, NetworkStepType, InitContainerType,
     RegisterStepType DEF Step
<1>2. /\ todo' \in [Procs -> Seq(Call)] /\ res' \in [Procs -> Results]
      /\ \A q \in Procs : todo'[q] # <<>> => todo[q] # <<>>
  BY <1>1, MovesType DEF Types
<1> QED
  BY <1>1, <1>2 DEF Types, Step, TypeInv, TypeOK, LxdTypeOK, Given

LEMMA InvokeType ==
  ASSUME TypeInv, NEW p \in Procs, Invoke(p)
  PROVE  TypeInv'
<1>1. PICK c \in Menu : /\ cmd' = [cmd EXCEPT ![p] = c]
                        /\ todo' = [todo EXCEPT ![p] = Script(c)]
  BY DEF Invoke
<1>2. c \in Command /\ Script(c) \in Seq(Call)
  BY TargetAssumption, ScriptType
<1> QED
  BY <1>1, <1>2 DEF Invoke, world, TypeInv, TypeOK, LxdTypeOK, Given, Results

LEMMA HostType ==
  ASSUME TypeInv, Replug \/ UpgradeDriver
  PROVE  TypeInv'
<1>1. hostChanges' \in 0..MaxHostChanges
  BY TargetAssumption DEF Replug, UpgradeDriver, ChangeHost, TypeInv, TypeOK
<1>2. host' \in SUBSET Path /\ nv' \in Drivers \cup {"none"}
  <2>1. Cards \cup NvNodes \subseteq Path /\ Drivers \subseteq Path
    BY DEF Path
  <2> QED
    BY <2>1 DEF Replug, UpgradeDriver, TypeInv, TypeOK, LxdTypeOK
<1> QED
  BY <1>1, <1>2
  DEF Replug, UpgradeDriver, ChangeHost, server, TypeInv, TypeOK, LxdTypeOK, Given

LEMMA InitType ==
  ASSUME Init
  PROVE  TypeInv
<1>1. LxdTypeOK
  BY TargetAssumption DEF Init, World, LxdTypeOK
<1>2. <<>> \in Seq(Call)
  OBVIOUS
<1> QED
  BY <1>1, <1>2, SyncAssumption, TargetAssumption
  DEF Init, TypeInv, TypeOK, Given, Results

LEMMA NextType ==
  ASSUME TypeInv, [Next]_vars
  PROVE  TypeInv'
<1>1. ASSUME NEW p \in Procs, Invoke(p) \/ Step(p) \/ Break(p) PROVE TypeInv'
  BY <1>1, InvokeType, StepType, BreakType
<1>2. CASE Replug \/ UpgradeDriver
  BY <1>2, HostType
<1>3. CASE UNCHANGED vars
  BY <1>3 DEF vars, TypeInv, TypeOK, LxdTypeOK, Given
<1> QED  BY <1>1, <1>2, <1>3 DEF Next

(* The state always has its type: whatever is interleaved, whatever fails,  *)
(* every call an invocation still has to make is one that some helper of    *)
(* helpers.go, the fixables or the commands makes, on a container of the    *)
(* server and with arguments of the right kind, and the server only ever    *)
(* holds configurations it could be sent.                                   *)
THEOREM TypeCorrect == Spec => []TypeOK
<1>1. Init => TypeInv
  BY InitType
<1>2. TypeInv /\ [Next]_vars => TypeInv'
  BY NextType
<1>3. TypeInv => TypeOK
  BY DEF TypeInv
<1> QED  BY <1>1, <1>2, <1>3, PTL DEF Spec
--------------------------------------------------------------------------------
(* A create only works on, and rolls back, the container it made.           *)
(*                                                                          *)
(* Nobody destroys containers; whatever else runs at the same time.         *)
NoDestroy == \A c \in Menu : c.kind # "destroy"

(* The container under the name of a create is there, its own, and not one  *)
(* that goes away when it is stopped.                                       *)
Mine(p) ==
    LET c == ct[cmd[p].ct]
    IN  c.owner = p /\ c.status # "Absent" /\ ~c.eph

(* What is left of an invocation: Init only comes first, and a failed Init  *)
(* is not undone; a container is only deleted by the rollback of a create,  *)
(* which that delete ends; only a create rolls back.                        *)
InitFirst(p) ==
    \A i \in DOMAIN todo[p] : todo[p][i].op = "init" =>
        i = 1 /\ Creating(p) /\ todo[p][i].err = "fail" /\ todo[p][i].ct = cmd[p].ct
DeleteLast(p) ==
    \A i \in DOMAIN todo[p] : todo[p][i].op = "delete" =>
        /\ i = Len(todo[p]) /\ Creating(p)
        /\ todo[p][i].err = "drop" /\ todo[p][i].ct = cmd[p].ct
CreatesUndo(p) ==
    \A i \in DOMAIN todo[p] : todo[p][i].err = "rollback" => Creating(p)

Shape(p) ==
    /\ todo[p] # <<>> => Active(p)
    /\ InitFirst(p) /\ DeleteLast(p) /\ CreatesUndo(p)

Owns(p) == Creating(p) /\ Active(p) /\ ~At(p, "init") => Mine(p)

OwnInv == TypeInv /\ \A p \in Procs : Shape(p) /\ Owns(p)

--------------------------------------------------------------------------------
(* Containers that stay: an existing one that is not ephemeral keeps its    *)
(* owner.                                                                   *)
Stays(n) ==
    ct[n].status # "Absent" /\ ~ct[n].eph =>
        ct'[n].owner = ct[n].owner /\ ct'[n].status # "Absent" /\ ~ct'[n].eph

(* Every step but Init's and delete's keeps all such containers.            *)
LEMMA SyncStays ==
  ASSUME TypeInv, NEW p \in Procs, SyncStep(p), ~At(p, "delete")
  PROVE  \A n \in Names : Stays(n)
<1> DEFINE t == Now(p)
<1>0. todo[p] # <<>> /\ t.ct \in Names
  BY SyncStepType, NowType DEF Types, Call
<1>c. ct \in [Names -> Container]
  BY DEF TypeInv, TypeOK, LxdTypeOK
<1>1. CASE UNCHANGED ct
  BY <1>1 DEF Stays
<1>2. CASE Start(p)
  <2>1. ct' = ct \/ ct' = [ct EXCEPT ![t.ct].status = "Running"]
    BY <1>2 DEF Start, Refuse, server
  <2> QED  BY <1>0, <1>c, <2>1 DEF Stays, Container
<1>3. CASE Stop(p)
  <2>1. ct' = ct \/ ct' = [ct EXCEPT ![t.ct] = AfterStop(@)]
    BY <1>3 DEF Stop, Refuse, server
  <2>2. ~ct[t.ct].eph => AfterStop(ct[t.ct]) = [ct[t.ct] EXCEPT !.status = "Stopped"]
    BY DEF AfterStop
  <2> QED  BY <1>0, <1>c, <2>1, <2>2 DEF Stays, Container
<1>4. CASE Ldconfig(p)
  <2>1. ct' = ct \/ ct' = [ct EXCEPT ![t.ct].ldconf = IF @ = "absent" THEN @ ELSE "loaded"]
    BY <1>4 DEF Ldconfig, Refuse, server
  <2> QED  BY <1>0, <1>c, <2>1 DEF Stays, Container
<1>5. CASE Put(p)
  <2>1. ct' = ct \/ ct' = [ct EXCEPT ![t.ct].cfg = t.cfg]
    BY <1>5 DEF Put, Refuse, server
  <2> QED  BY <1>0, <1>c, <2>1 DEF Stays, Container
<1>6. CASE BootContainerSync(p) \/ StopContainerSync(p) \/ UpdateConfigSync(p)
  BY <1>1, <1>6 DEF BootContainerSync, StopContainerSync, UpdateConfigSync, server
<1>7. CASE AddDeviceSync(p) \/ RemoveDeviceSync(p) \/ SetContainerConfig(p)
  BY <1>1, <1>7 DEF AddDeviceSync, RemoveDeviceSync, SetContainerConfig, Edit, server
<1> QED
  BY <1>2, <1>3, <1>4, <1>5, <1>6, <1>7 DEF SyncStep, Delete

LEMMA OtherStays ==
  ASSUME TypeInv, NEW p \in Procs,
         \/ FixingStep(p) \/ NetworkStep(p)
         \/ KnownUser(p) \/ GroupAdd(p) \/ UserAdd(p)
  PROVE  \A n \in Names : Stays(n)
<1> DEFINE t == Now(p)
<1>0. todo[p] # <<>> /\ t.ct \in Names
  BY FixingStepType, NetworkStepType, RegisterStepType, NowType DEF Types, Call
<1>c. ct \in [Names -> Container]
  BY DEF TypeInv, TypeOK, LxdTypeOK
<1>1. CASE UNCHANGED ct
  BY <1>1 DEF Stays
<1>2. CASE FixAccess(p)
  <2>1. ct' = ct \/ ct' = [ct EXCEPT ![t.ct].access = TRUE]
    BY <1>2 DEF FixAccess, Refuse, server
  <2> QED  BY <1>0, <1>c, <2>1 DEF Stays, Container
<1>3. CASE WriteLDConf(p)
  <2>1. ct' = ct \/ ct' = [ct EXCEPT ![t.ct].ldconf = IF @ = "absent" THEN "written" ELSE @]
    BY <1>3 DEF WriteLDConf, Refuse, server
  <2> QED  BY <1>0, <1>c, <2>1 DEF Stays, Container
<1>4. CASE UserAdd(p)
  <2>1. ct' = ct \/ ct' = [ct EXCEPT ![t.ct].users = @ \cup {t.arg}]
    BY <1>4 DEF UserAdd, Refuse, server
  <2> QED  BY <1>0, <1>c, <2>1 DEF Stays, Container
<1>5. CASE Fix(p) \/ Check(p) \/ FixDevices(p) \/ FixDRI(p) \/ FixNvidia(p) \/ UpdateTargets(p)
  BY <1>1, <1>5 DEF Fix, Check, FixDevices, FixDRI, FixNvidia, UpdateTargets, server
<1>6. CASE NetworkStep(p)
  <2>1. UNCHANGED ct
    BY <1>6 DEF NetworkStep, ListContainers, CreateBridgeNeeded, LxdBridgeConfigured,
                NetworkCreate, ProfileConfig, ProfileDevice, ProfilePut, Refuse, server
  <2> QED  BY <1>1, <2>1
<1>7. CASE KnownUser(p) \/ GroupAdd(p)
  BY <1>1, <1>7 DEF KnownUser, GroupAdd, server
<1> QED
  BY <1>2, <1>3, <1>4, <1>5, <1>6, <1>7 DEF FixingStep

--------------------------------------------------------------------------------
(* How a call ends, as far as the shape of what is left is concerned.       *)
LEMMA ContinueShape ==
  ASSUME OwnInv, NEW p \in Procs, todo[p] # <<>>, cmd' = cmd,
         NEW ts \in Seq(Follow(Now(p).err)), Continue(p, ts)
  PROVE  Shape(p)' /\ ~At(p, "init")'
<1> DEFINE rest == ts \o Tail(todo[p])
<1>1. todo[p] \in Seq(Call) /\ todo \in [Procs -> Seq(Call)] /\ res \in [Procs -> Results]
  BY DEF OwnInv, TypeInv, TypeOK
<1>2. /\ todo'[p] = rest
      /\ rest # <<>> => res'[p] = res[p]
  BY <1>1 DEF Continue
<1>3. ts \in Seq(Call)
  BY DEF Follow
<1>4. /\ rest \in Seq(Call) /\ Len(rest) = Len(ts) + Len(todo[p]) - 1
      /\ DOMAIN rest = 1..Len(rest)
  BY <1>1, <1>3
<1>5. \A i \in DOMAIN rest :
         \/ i \in DOMAIN ts /\ rest[i] = ts[i]
         \/ /\ i > Len(ts) /\ i - Len(ts) + 1 \in DOMAIN todo[p]
            /\ rest[i] = todo[p][i - Len(ts) + 1]
  BY <1>1, <1>3, <1>4
<1>6. \A i \in DOMAIN ts : /\ ts[i].op \notin {"init", "delete"}
                           /\ ts[i].err = "rollback" => todo[p][1].err = "rollback"
  BY DEF Follow, Now
<1>7. Shape(p)
  BY DEF OwnInv
<1>8. 1 \in DOMAIN todo[p] /\ Len(ts) \in Nat /\ Len(todo[p]) \in Nat
  BY <1>1, <1>3
<1>9. Creating(p)' = Creating(p)
  BY DEF Creating
<1> HIDE DEF rest
<1>10. \A i \in DOMAIN rest : rest[i].op # "init"
  BY <1>4, <1>5, <1>6, <1>7, <1>8 DEF Shape, InitFirst
<1>11. \A i \in DOMAIN rest : rest[i].op = "delete" =>
          /\ i = Len(rest) /\ Creating(p)
          /\ rest[i].err = "drop" /\ rest[i].ct = cmd[p].ct
  <2> SUFFICES ASSUME NEW i \in DOMAIN rest, rest[i].op = "delete"
               PROVE  /\ i = Len(rest) /\ Creating(p)
                      /\ rest[i].err = "drop" /\ rest[i].ct = cmd[p].ct
    OBVIOUS
  <2>1. /\ i > Len(ts) /\ i - Len(ts) + 1 \in DOMAIN todo[p]
        /\ rest[i] = todo[p][i - Len(ts) + 1]
    BY <1>5, <1>6
  <2>2. i - Len(ts) + 1 = Len(todo[p])
    BY <1>7, <2>1 DEF Shape, DeleteLast
  <2>3. i = Len(rest)
    BY <1>4, <1>8, <2>2
  <2> QED  BY <1>7, <2>1, <2>3 DEF Shape, DeleteLast
<1>12. \A i \in DOMAIN rest : rest[i].err = "rollback" => Creating(p)
  BY <1>5, <1>6, <1>7, <1>8 DEF Shape, CreatesUndo
<1>13. rest # <<>> => Active(p)'
  BY <1>2, <1>7 DEF Shape, Active
<1>14. rest # <<>> => 1 \in DOMAIN rest /\ Head(rest) = rest[1]
  BY <1>4
<1>15. Shape(p)'
  BY <1>2, <1>9, <1>10, <1>11, <1>12, <1>13
  DEF Shape, InitFirst, DeleteLast, CreatesUndo
<1>16. ~At(p, "init")'
  BY <1>2, <1>10, <1>14 DEF At
<1> QED  BY <1>15, <1>16

LEMMA RaiseShape ==
  ASSUME OwnInv, NEW p \in Procs, todo[p] # <<>>, cmd' = cmd, Raise(p)
  PROVE  /\ Shape(p)' /\ ~At(p, "init")'
         /\ Active(p)' => ~At(p, "init") /\ ~At(p, "delete")
<1>1. todo[p] \in Seq(Call) /\ todo \in [Procs -> Seq(Call)] /\ res \in [Procs -> Results]
  BY DEF OwnInv, TypeInv, TypeOK
<1>2. Shape(p) /\ 1 \in DOMAIN todo[p] /\ Now(p) = todo[p][1]
  BY <1>1 DEF OwnInv, Now
<1>3. /\ At(p, "init") => Now(p).err = "fail"
      /\ At(p, "delete") => Now(p).err = "drop"
  BY <1>2 DEF Shape, InitFirst, DeleteLast, At, Now
<1>4. CASE Now(p).err = "fail"
  BY <1>1, <1>4 DEF Raise, Shape, InitFirst, DeleteLast, CreatesUndo, Active, At
<1>5. CASE Now(p).err = "drop"
  BY <1>1, <1>5 DEF Raise, Shape, InitFirst, DeleteLast, CreatesUndo, Active, At
<1>6. CASE Now(p).err = "rollback"
  <2> DEFINE undo == RemoveContainerSync(cmd[p].ct, "drop")
  <2>1. todo'[p] = undo /\ res'[p] = "undoing"
    BY <1>1, <1>6 DEF Raise
  <2>2. /\ undo = <<Do("stop", cmd[p].ct, "drop"), Do("delete", cmd[p].ct, "drop")>>
        /\ DOMAIN undo = 1..2 /\ Len(undo) = 2
        /\ undo[1].op = "stop" /\ undo[1].err = "drop"
        /\ undo[2].op = "delete" /\ undo[2].err = "drop" /\ undo[2].ct = cmd[p].ct
    BY DEF RemoveContainerSync, Do
  <2>3. Creating(p) /\ Creating(p)'
    BY <1>2, <1>6 DEF Shape, CreatesUndo, Creating
  <2>4. Head(undo) = undo[1]
    BY <2>2
  <2> HIDE DEF undo
  <2> QED
    BY <1>3, <1>6, <2>1, <2>2, <2>3, <2>4
    DEF Shape, InitFirst, DeleteLast, CreatesUndo, Active, At
<1>7. CASE Now(p).err = "skip"
  <2>1. Continue(p, <<>>)
    BY <1>7 DEF Raise
  <2>2. <<>> \in Seq(Follow(Now(p).err))
    OBVIOUS
  <2> QED  BY <1>3, <1>7, <2>1, <2>2, ContinueShape
<1> QED  BY <1>4, <1>5, <1>6, <1>7 DEF Raise

(* The delete of a rollback is its last call.                               *)
LEMMA DeleteEnds ==
  ASSUME OwnInv, NEW p \in Procs, Delete(p), cmd' = cmd
  PROVE  Shape(p)' /\ ~Active(p)'
<1>1. todo[p] \in Seq(Call) /\ todo \in [Procs -> Seq(Call)] /\ res \in [Procs -> Results]
  BY DEF OwnInv, TypeInv, TypeOK
<1>2. todo[p] # <<>> /\ Head(todo[p]).op = "delete"
  BY DEF Delete, At
<1>3. Len(todo[p]) = 1
  <2>1. 1 \in DOMAIN todo[p] /\ todo[p][1].op = "delete"
    BY <1>1, <1>2
  <2> QED  BY <2>1 DEF OwnInv, Shape, DeleteLast
<1>4. <<>> \o Tail(todo[p]) = <<>>
  <2> DEFINE tail == Tail(todo[p])
  <2>1. tail \in Seq(Call) /\ Len(tail) = 0
    BY <1>1, <1>2, <1>3
  <2> HIDE DEF tail
  <2>2. tail # <<>> => Len(tail) \in Nat \ {0}
    BY <2>1, EmptySeq
  <2>3. tail = <<>>
    BY <2>1, <2>2
  <2>4. <<>> \o tail = <<>>
    BY <2>3
  <2> QED  BY <2>4 DEF tail
<1>5. <<>> \in Seq(Follow(Now(p).err))
  OBVIOUS
<1>6. CASE Continue(p, <<>>)
  <2>1. ~Active(p)'
    BY <1>1, <1>4, <1>6 DEF Continue, Active
  <2> QED  BY <1>2, <1>5, <1>6, <2>1, ContinueShape
<1>7. CASE Raise(p)
  BY <1>2, <1>7, RaiseShape DEF At
<1> QED  BY <1>6, <1>7 DEF Delete, Answer, Refuse
(* A step of one invocation that keeps the containers keeps the invariant.  *)
LEMMA StaysOwned ==
  ASSUME OwnInv, NEW p \in Procs, cmd' = cmd,
         \A q \in Procs \ {p} : todo'[q] = todo[q] /\ res'[q] = res[q],
         \A q \in Procs : Creating(q) /\ Active(q) /\ ~At(q, "init") /\ q # p
            => Stays(cmd[q].ct),
         Shape(p)' /\ Owns(p)'
  PROVE  \A q \in Procs : Shape(q)' /\ Owns(q)'
<1> SUFFICES ASSUME NEW q \in Procs, q # p PROVE Shape(q)' /\ Owns(q)'
  OBVIOUS
<1>1. Shape(q) /\ Owns(q) /\ todo'[q] = todo[q] /\ res'[q] = res[q]
  BY DEF OwnInv
<1>2. Shape(q)'
  BY <1>1 DEF Shape, InitFirst, DeleteLast, CreatesUndo, Active, Creating
<1>3. Owns(q)'
  BY <1>1 DEF Owns, Stays, Mine, Active, Creating, At
<1> QED  BY <1>2, <1>3

(* A create that is under way was given the name of a container.            *)
LEMMA CreatingName ==
  ASSUME TypeInv, NEW p \in Procs, Creating(p)
  PROVE  cmd[p].ct \in Names
  BY DEF TypeInv, TypeOK, Creating, Command, NoCommand

LEMMA OthersSame ==
  ASSUME TypeInv, NEW p \in Procs, Moves(p)
  PROVE  \A q \in Procs \ {p} : todo'[q] = todo[q] /\ res'[q] = res[q]
  BY DEF TypeInv, TypeOK, Moves, Continue, Raise

(* A step that ends the current call, which is neither Init nor a delete    *)
(* unless it fails.                                                         *)
LEMMA MovesOwned ==
  ASSUME OwnInv, NEW p \in Procs, todo[p] # <<>>, cmd' = cmd, Moves(p),
         \A n \in Names : Stays(n), ~At(p, "init") \/ Raise(p)
  PROVE  \A q \in Procs : Shape(q)' /\ Owns(q)'
<1>1. /\ Shape(p)' /\ ~At(p, "init")'
      /\ Active(p)' => ~At(p, "init")
  BY ContinueShape, RaiseShape, AfterFollows DEF Moves
<1>2. Active(p)
  BY DEF OwnInv, Shape
<1>3. Owns(p)'
  <2>1. CASE Creating(p) /\ Active(p)' /\ ~At(p, "init")
    <3>1. Mine(p) /\ Stays(cmd[p].ct)
      BY <1>2, <2>1, CreatingName DEF OwnInv, Owns
    <3> QED  BY <3>1 DEF Owns, Stays, Mine
  <2> QED  BY <1>1, <2>1 DEF Owns, Creating
<1> QED  BY <1>1, <1>3, StaysOwned, OthersSame, CreatingName DEF OwnInv

--------------------------------------------------------------------------------
LEMMA InitOwned ==
  ASSUME OwnInv, NEW p \in Procs, InitContainer(p), cmd' = cmd
  PROVE  \A q \in Procs : Shape(q)' /\ Owns(q)'
<1> DEFINE t == Now(p)
<1>0. Types(p) /\ todo[p] # <<>> /\ At(p, "init") /\ todo[p] \in Seq(Call)
  BY InitContainerType DEF OwnInv, Types, InitContainer, TypeInv, TypeOK
<1>1. Creating(p) /\ t.err = "fail" /\ t.ct = cmd[p].ct
  <2>1. 1 \in DOMAIN todo[p] /\ todo[p][1].op = "init" /\ t = todo[p][1]
    BY <1>0 DEF At, Now
  <2> QED  BY <2>1 DEF OwnInv, Shape, InitFirst
<1>2. CASE Raise(p) /\ UNCHANGED ct
  <2>1. \A n \in Names : Stays(n)
    BY <1>2 DEF Stays
  <2> QED  BY <1>0, <1>2, <2>1, MovesOwned DEF Types
<1>3. CASE ~Present(t.ct) /\ Answer(p)
  <2>1. ct' = [ct EXCEPT ![t.ct] =
                 [NoContainer EXCEPT !.status = "Stopped", !.owner = p,
                    !.cfg.click = TRUE, !.cfg.updates = (t.val = "true")]]
    BY <1>3 DEF InitContainer
  <2>2. \A n \in Names : n # t.ct => Stays(n)
    BY <2>1 DEF OwnInv, TypeInv, TypeOK, LxdTypeOK, Stays
  <2>3. Stays(t.ct)
    BY <1>3 DEF Stays, Present
  <2>4. Mine(p)'
    BY <1>1, <2>1, CreatingName DEF Mine, NoContainer, OwnInv, TypeInv, TypeOK, LxdTypeOK
  <2>5. <<>> \in Seq(Follow(Now(p).err))
    OBVIOUS
  <2>6. Shape(p)'
    BY <1>0, <1>3, <2>5, ContinueShape, RaiseShape DEF Answer
  <2>7. Owns(p)'
    BY <2>4 DEF Owns
  <2> QED
    BY <1>0, <2>2, <2>3, <2>6, <2>7, StaysOwned, OthersSame, CreatingName
    DEF OwnInv, Types
<1> QED  BY <1>2, <1>3 DEF InitContainer, Refuse, server

LEMMA DeleteOwned ==
  ASSUME OwnInv, NEW p \in Procs, Delete(p), cmd' = cmd
  PROVE  \A q \in Procs : Shape(q)' /\ Owns(q)'
<1> DEFINE t == Now(p)
<1>0. Types(p) /\ todo[p] # <<>> /\ At(p, "delete") /\ todo[p] \in Seq(Call)
  BY SyncStepType DEF SyncStep, OwnInv, Types, Delete, TypeInv, TypeOK
<1>1. Creating(p) /\ Active(p) /\ t.ct = cmd[p].ct /\ ~At(p, "init")
  <2>1. 1 \in DOMAIN todo[p] /\ todo[p][1].op = "delete" /\ t = todo[p][1]
    BY <1>0 DEF At, Now
  <2> QED  BY <1>0, <2>1 DEF OwnInv, Shape, DeleteLast, At
<1>2. Mine(p)
  BY <1>1 DEF OwnInv, Owns
<1>3. Shape(p)' /\ Owns(p)'
  BY DeleteEnds DEF Owns
<1>4. \A q \in Procs : Creating(q) /\ Active(q) /\ ~At(q, "init") /\ q # p
            => Stays(cmd[q].ct)
  <2> SUFFICES ASSUME NEW q \in Procs, Creating(q), Active(q), ~At(q, "init"), q # p
               PROVE  Stays(cmd[q].ct)
    OBVIOUS
  <2>1. ct' = ct \/ ct' = [ct EXCEPT ![t.ct] = NoContainer]
    BY DEF Delete, Refuse, server
  <2>2. cmd[q].ct \in Names /\ ct \in [Names -> Container]
    BY CreatingName DEF OwnInv, TypeInv, TypeOK, LxdTypeOK
  <2>3. Mine(q)
    BY DEF OwnInv, Owns
  <2>4. cmd[q].ct # t.ct
    BY <1>1, <1>2, <2>3 DEF Mine
  <2> QED  BY <2>1, <2>2, <2>4 DEF Stays
<1> QED  BY <1>0, <1>3, <1>4, StaysOwned, OthersSame DEF OwnInv, Types
--------------------------------------------------------------------------------
LEMMA StepOwned ==
  ASSUME OwnInv, NEW p \in Procs, Step(p)
  PROVE  \A q \in Procs : Shape(q)' /\ Owns(q)'
<1>1. TypeInv /\ cmd' = cmd
  BY DEF OwnInv, Step
<1>2. CASE InitContainer(p)
  BY <1>1, <1>2, InitOwned
<1>3. CASE Delete(p)
  BY <1>1, <1>3, DeleteOwned
<1>4. CASE SyncStep(p) /\ ~Delete(p)
  <2>1. ~At(p, "delete") /\ ~At(p, "init")
    BY <1>4
    DEF SyncStep, At, BootContainerSync, Start, StopContainerSync, Stop,
        UpdateConfigSync, Ldconfig, AddDeviceSync, RemoveDeviceSync,
        SetContainerConfig, Put
  <2>2. Types(p)
    BY <1>1, <1>4, SyncStepType
  <2> QED  BY <1>1, <1>4, <2>1, <2>2, SyncStays, MovesOwned DEF Types
<1>5. CASE FixingStep(p)
  <2>1. ~At(p, "init")
    BY <1>1, <1>5, FixingStepType
    DEF FixingStep, At, Fix, Check, FixAccess, FixDevices, FixDRI, FixNvidia,
        WriteLDConf, UpdateTargets
  <2> QED  BY <1>1, <1>5, <2>1, FixingStepType, OtherStays, MovesOwned DEF Types
<1>6. CASE NetworkStep(p)
  <2>1. ~At(p, "init")
    BY <1>6 DEF NetworkStep, At, ListContainers, CreateBridgeNeeded,
       LxdBridgeConfigured, NetworkCreate, ProfileConfig, ProfileDevice, ProfilePut
  <2> QED  BY <1>1, <1>6, <2>1, NetworkStepType, OtherStays, MovesOwned DEF Types
<1>7. CASE KnownUser(p) \/ GroupAdd(p) \/ UserAdd(p)
  <2>1. ~At(p, "init")
    BY <1>7 DEF KnownUser, GroupAdd, UserAdd, At
  <2> QED  BY <1>1, <1>7, <2>1, RegisterStepType, OtherStays, MovesOwned DEF Types
<1> QED  BY <1>2, <1>3, <1>4, <1>5, <1>6, <1>7 DEF Step

LEMMA BreakOwned ==
  ASSUME OwnInv, NEW p \in Procs, Break(p)
  PROVE  \A q \in Procs : Shape(q)' /\ Owns(q)'
<1>1. TypeInv /\ cmd' = cmd /\ UNCHANGED ct
  BY DEF OwnInv, Break, Fault, Kill, server
<1>2. \A n \in Names : Stays(n)
  BY <1>1 DEF Stays
<1>3. CASE Fault(p)
  BY <1>1, <1>2, <1>3, MovesOwned DEF Fault, Moves
<1>4. CASE Kill(p)
  <2>1. todo'[p] = <<>> /\ ~Active(p)'
    BY <1>1, <1>4 DEF Kill, Active, TypeInv, TypeOK
  <2>2. Shape(p)' /\ Owns(p)'
    BY <2>1 DEF Shape, InitFirst, DeleteLast, CreatesUndo, Owns
  <2>3. \A q \in Procs \ {p} : todo'[q] = todo[q] /\ res'[q] = res[q]
    BY <1>1, <1>4 DEF Kill, TypeInv, TypeOK
  <2> QED  BY <1>1, <1>2, <2>2, <2>3, StaysOwned, CreatingName
<1> QED  BY <1>3, <1>4 DEF Break

(* A new invocation has the shape, and a create begins with its Init.       *)
LEMMA InvokeOwned ==
  ASSUME OwnInv, NoDestroy, NEW p \in Procs, Invoke(p)
  PROVE  \A q \in Procs : Shape(q)' /\ Owns(q)'
<1>1. PICK c \in Menu : /\ cmd' = [cmd EXCEPT ![p] = c]
                        /\ todo' = [todo EXCEPT ![p] = Script(c)]
  BY DEF Invoke
<1>2. c \in Command /\ c.kind # "destroy"
  BY TargetAssumption DEF NoDestroy
<1>3. /\ todo'[p] = Script(c) /\ cmd'[p] = c /\ Active(p)' /\ ct' = ct
      /\ \A q \in Procs \ {p} :
            todo'[q] = todo[q] /\ res'[q] = res[q] /\ cmd'[q] = cmd[q]
  BY <1>1 DEF Invoke, world, Active, OwnInv, TypeInv, TypeOK
<1>4. CASE c.kind # "create"
  <2>1. Script(c) \in Seq(Follow("fail"))
    BY <1>2, <1>4, ScriptFollows
  <2>2. \A i \in DOMAIN Script(c) : /\ Script(c)[i].op \notin {"init", "delete"}
                                    /\ Script(c)[i].err # "rollback"
    BY <2>1 DEF Follow
  <2>3. Shape(p)' /\ Owns(p)'
    BY <1>3, <1>4, <2>2
    DEF Shape, InitFirst, DeleteLast, CreatesUndo, Owns, Creating
  <2> QED
    BY <1>3, <2>3
    DEF OwnInv, Shape, InitFirst, DeleteLast, CreatesUndo, Owns, Creating, Active, At, Mine
<1>5. CASE c.kind = "create"
  <2> DEFINE init == DoVal("init", c.ct, c.flag, "fail")
             rest == AfterInit(c)
  <2>1. rest \in Seq(Follow("rollback"))
    BY <1>2, AfterInitType
  <2>2. Script(c) = <<init>> \o rest
    BY <1>5 DEF Script, Create
  <2>3. init.op = "init" /\ init.err = "fail" /\ init.ct = c.ct
    BY DEF DoVal, Do
  <2>4. \A i \in DOMAIN rest : rest[i].op \notin {"init", "delete"}
    BY <2>1 DEF Follow
  <2> HIDE DEF init, rest
  <2>5. /\ Script(c)[1] = init /\ Script(c) # <<>> /\ Head(Script(c)) = init
        /\ \A i \in DOMAIN Script(c) :
              i = 1 \/ (i - 1 \in DOMAIN rest /\ Script(c)[i] = rest[i - 1])
    BY <2>1, <2>2
  <2>6. Creating(p)' /\ At(p, "init")'
    BY <1>3, <1>5, <2>3, <2>5 DEF Creating, At
  <2>7. Shape(p)' /\ Owns(p)'
    BY <1>3, <2>3, <2>4, <2>5, <2>6
    DEF Shape, InitFirst, DeleteLast, CreatesUndo, Owns
  <2> QED
    BY <1>3, <2>7
    DEF OwnInv, Shape, InitFirst, DeleteLast, CreatesUndo, Owns, Creating, Active, At, Mine
<1> QED  BY <1>4, <1>5

LEMMA OwnInit ==
  ASSUME Init
  PROVE  OwnInv
<1>1. TypeInv
  BY InitType
<1>2. \A p \in Procs : todo[p] = <<>> /\ ~Active(p)
  BY DEF Init, Active
<1>3. \A p \in Procs : Shape(p) /\ Owns(p)
  BY <1>2 DEF Shape, InitFirst, DeleteLast, CreatesUndo, Owns
<1> QED  BY <1>1, <1>3 DEF OwnInv

LEMMA OwnNext ==
  ASSUME NoDestroy, OwnInv, [Next]_vars
  PROVE  OwnInv'
<1>0. TypeInv'
  BY NextType DEF OwnInv
<1>1. ASSUME NEW p \in Procs, Invoke(p) \/ Step(p) \/ Break(p)
      PROVE  \A q \in Procs : Shape(q)' /\ Owns(q)'
  <2>1. CASE Invoke(p)
    BY <2>1, InvokeOwned
  <2>2. CASE Step(p)
    BY <2>2, StepOwned
  <2>3. CASE Break(p)
    BY <2>3, BreakOwned
  <2> QED  BY <1>1, <2>1, <2>2, <2>3
<1>2. ASSUME UNCHANGED <<ct, cmd, todo, res>>
      PROVE  \A q \in Procs : Shape(q)' /\ Owns(q)'
  <2> TAKE q \in Procs
  <2>1. Shape(q) /\ Owns(q)
    BY DEF OwnInv
  <2>2. ct' = ct /\ cmd' = cmd /\ todo' = todo /\ res' = res
    BY <1>2
  <2>3. Shape(q)'
    BY <2>1, <2>2
    DEF Shape, InitFirst, DeleteLast, CreatesUndo, Creating, Active, At
  <2>4. Owns(q)'
    BY <2>1, <2>2 DEF Owns, Mine, Creating, Active, At
  <2> QED  BY <2>3, <2>4
<1>3. ASSUME Replug \/ UpgradeDriver \/ UNCHANGED vars
      PROVE  UNCHANGED <<ct, cmd, todo, res>>
  BY <1>3 DEF Replug, UpgradeDriver, ChangeHost, server, vars
<1>4. \A q \in Procs : Shape(q)' /\ Owns(q)'
  BY <1>1, <1>2, <1>3 DEF Next
<1> QED  BY <1>0, <1>4 DEF OwnInv

(* A create only ever works on, and rolls back, the container it made: from *)
(* the return of Init on, through every later call of create.go and through *)
(* RemoveContainerSync, the container under its name is its own, as long as *)
(* nobody destroys containers - whatever other commands run and whatever    *)
(* fails or is killed.                                                      *)
THEOREM CreateOwns ==
  ASSUME NoDestroy
  PROVE  Spec => []OwnTarget
<1>1. Init => OwnInv
  BY OwnInit
<1>2. OwnInv /\ [Next]_vars => OwnInv'
  BY OwnNext
<1>3. OwnInv => OwnTarget
  BY DEF OwnInv, Owns, Mine, OwnTarget
<1> QED  BY <1>1, <1>2, <1>3, PTL DEF Spec
================================================================================
