------------------------------- MODULE EditProofs -------------------------------
(****************************************************************************)
(* One command at a time, the requests of the programs amount to the edits  *)
(* of Targets: what each pending call relies on is still true when it is    *)
(* made.  An autosetup among them brings back what it stopped: the calls    *)
(* behind its listing are still there, or have done their work; so do       *)
(* autosetups that run at once, and next to other commands.                 *)
(****************************************************************************)
EXTENDS CallProofs

(* The homes and /tmp are there, and no device node or driver directory is  *)
(* one of them.                                                             *)
HomesThere ==
    /\ \A w \in Worlds : Users \cup {"tmp"} \subseteq w.host
    /\ (Users \cup {"tmp"}) \cap (Cards \cup NvNodes \cup Drivers) = {}

(* A device that may be unmounted: its host path is gone, or it is the      *)
(* directory of another driver.                                             *)
Stale(n, d) ==
    \/ ct[n].cfg.devs[d] \in Path \ host
    \/ d = "nv-bin" /\ ct[n].cfg.devs[d] \notin {"none", nv}

(* The edits a configuration that is about to be PUT may amount to.         *)
Mounts(c) ==
    \E d \in Dev, path \in host :
        /\ ct[c.ct].cfg.devs[d] = "none"
        /\ c.cfg = [ct[c.ct].cfg EXCEPT !.devs[d] = path]
Unmounts(c) ==
    \E d \in Dev :
        /\ Stale(c.ct, d)
        /\ c.cfg = [ct[c.ct].cfg EXCEPT !.devs[d] = "none"]
Sets(p, c) ==
    /\ cmd[p].kind = "set" /\ c.ct = cmd[p].ct
    /\ \E on \in BOOLEAN : c.cfg = [ct[c.ct].cfg EXCEPT !.updates = on]

Edits(p, c) == Mounts(c) \/ Unmounts(c) \/ Sets(p, c)

(* A removal that is about to be made.                                      *)
Removes(c) ==
    /\ c.arg \in Dev
    /\ Present(c.ct) => ct[c.ct].cfg.devs[c.arg] = "none" \/ Stale(c.ct, c.arg)

(* What a fixable still relies on of its snapshot, and the calls that may   *)
(* come before it: those about other containers, and removals.              *)
Looks(c) == IF c.op = "devices" THEN Checked(c.cfg) ELSE {"nv-bin"}
Fresh(c) ==
    Present(c.ct) =>
        \A d \in Looks(c) : ct[c.ct].cfg.devs[d] \in {c.cfg.devs[d], "none"}

Snapshots == {"devices", "nvidia"}
Repairing == {"devices", "nvidia", "rmdev", "adddev", "ldconf", "put"}
Before(s, c) ==
    /\ s.op \in Repairing
    /\ \/ s.ct # c.ct
       \/ s.op = "rmdev"
       \/ s.op = "put" /\ Unmounts(s)

(* What each call that is still to be made relies on.                       *)
Relies(p, c) ==
    /\ c.op = "adddev" => c.val \in host
    /\ c.op = "setflag" => cmd[p].kind = "set" /\ c.ct = cmd[p].ct
    /\ c.op = "rmdev" => Removes(c)
    /\ c.op = "put" => Edits(p, c)
    /\ c.op \in Snapshots => Fresh(c)

Pending(p) ==
    /\ \A c \in Calls(p) : Relies(p, c)
    /\ \A i \in DOMAIN todo[p] : todo[p][i].op \in {"rmdev", "put"} => i = 1
    /\ \A i, j \in DOMAIN todo[p] :
         todo[p][i].op \in Snapshots /\ j < i => Before(todo[p][j], todo[p][i])

(* The driver directory a process has cached is the one in use.             *)
Cached(p) ==
    /\ res[p] = "idle" => nvDir[p] = "none"
    /\ Active(p) => nvDir[p] = "none" \/ (nvDir[p] = nv /\ nv \in host)

Alone ==
    /\ \A p \in Procs : todo[p] # <<>> => Active(p)
    /\ \A p, q \in Procs : Active(p) /\ Active(q) => p = q

EditInv ==
    /\ TypeInv /\ Alone
    /\ Users \cup {"tmp"} \subseteq host
    /\ \A p \in Procs : Pending(p) /\ Cached(p)

--------------------------------------------------------------------------------
(* A listing names nothing twice.                                           *)
LEMMA ListedOnce ==
  ASSUME NEW S \in SUBSET Names
  PROVE  \A i, j \in DOMAIN Listed(S) : Listed(S)[i] = Listed(S)[j] => i = j
<1>1. \E f \in [1..Cardinality(S) -> S] : IsInjective(f)
  <2>1. IsFiniteSet(S)
    BY LxdAssumption, FS_Subset
  <2>2. ExistsBijection(1..Cardinality(S), S)
    BY <2>1, FS_CardinalityType
  <2> QED  BY <2>2 DEF ExistsBijection, Bijection, Injection, IsInjective
<1>2. IsInjective(Listed(S))
  BY <1>1 DEF Listed, SetToSeq
<1> QED  BY <1>2 DEF IsInjective

(* What may come after a call, by what the call is for.                     *)
Sensitive == {"adddev", "setflag", "rmdev", "put", "devices", "nvidia"}

LEMMA AfterPlain ==
  ASSUME NEW t \in Call, NEW c \in After(t),
         t.op \notin {"fix", "adddev", "rmdev", "setflag", "devices", "dri", "nvidia"}
  PROVE  c.op \notin Sensitive
  BY DEF After, Parts, Changes, Spreads, Repairs, Connects, Sensitive

LEMMA AfterNone ==
  ASSUME NEW t,
         t.op \in {"start", "unfreeze", "halt", "delete", "init", "put", "useradd",
                  "access", "ldconf", "ldconfig"}
  PROVE  After(t) = {}
  BY DEF After, Parts, Changes, Spreads, Repairs, Connects

LEMMA AfterLocal ==
  ASSUME NEW t \in Call, NEW c \in After(t), t.op \in Repairing
  PROVE  c.op \in Repairing /\ c.ct = t.ct
<1>1. CASE Changes(t, c)
  BY <1>1 DEF Changes, Repairing
<1>2. CASE Repairs(t, c)
  <2>1. \A d : [t EXCEPT !.cfg.devs[d] = "none"].op = t.op
    BY DEF Call
  <2> QED  BY <1>2, <2>1 DEF Repairs, Repairing
<1> QED  BY <1>1, <1>2 DEF After, Parts, Spreads, Connects, Repairing

--------------------------------------------------------------------------------
(* What a call is replaced by: calls that rely on what is true.             *)
Expansion(p, ts) ==
    /\ ts \in Seq(After(Now(p)))
    /\ \A i \in DOMAIN ts : Relies(p, ts[i])
    /\ \A i \in DOMAIN ts : ts[i].op \in {"rmdev", "put"} => i = 1
    /\ \A i, j \in DOMAIN ts :
         ts[i].op \in Snapshots /\ j < i => Before(ts[j], ts[i])

LEMMA NothingElse ==
  ASSUME NEW p PROVE Expansion(p, <<>>)
  BY DEF Expansion

LEMMA PlainExpansion ==
  ASSUME NEW p, Now(p) \in Call, NEW ts \in Seq(After(Now(p))),
         \A i \in DOMAIN ts : ts[i].op \notin Sensitive
  PROVE  Expansion(p, ts)
  BY DEF Expansion, Relies, Sensitive, Snapshots

(* The PUT of a configuration that was just read.                           *)
LEMMA EditExpansion ==
  ASSUME EditInv, NEW p \in Procs, Step(p), ~Raise(p),
         Now(p).op \in {"adddev", "rmdev", "setflag"}
  PROVE  \E ts : Continue(p, ts) /\ Expansion(p, ts)
<1> DEFINE t == Now(p)
           cfg == ct[t.ct].cfg
<1>1. /\ TypeInv /\ t \in Call /\ t \in Calls(p) /\ Relies(p, t) /\ todo[p] # <<>>
      /\ ct \in [Names -> Container] /\ t.ct \in Names
  BY StepMoves, NowIsCall DEF EditInv, Pending, TypeInv, TypeOK, LxdTypeOK, Call
<1>2. cfg \in Config
  BY <1>1 DEF Container
<1>3. PICK c : /\ Continue(p, <<c>>) /\ c = DoCfg("put", t.ct, Edited(t, cfg), t.err)
               /\ Present(t.ct) /\ Editable(t, cfg)
  <2>1. CASE t.op = "adddev"
    <3>1. AddDeviceSync(p)
      BY <2>1, StepOf
    <3> QED  BY <2>1, <3>1 DEF AddDeviceSync, Edit, Editable, Edited
  <2>2. CASE t.op = "rmdev"
    <3>1. RemoveDeviceSync(p)
      BY <2>2, StepOf
    <3> QED  BY <2>2, <3>1 DEF RemoveDeviceSync, Edit, Editable, Edited
  <2>3. CASE t.op = "setflag"
    <3>1. SetContainerConfig(p)
      BY <2>3, StepOf
    <3> QED  BY <2>3, <3>1 DEF SetContainerConfig, Edit, Editable, Edited
  <2> QED  BY <2>1, <2>2, <2>3
<1>4. c.op = "put" /\ c.ct = t.ct /\ c.cfg = Edited(t, cfg) /\ c.err = t.err
  BY <1>3 DEF DoCfg, Do
<1>5. Edits(p, c)
  <2>1. CASE t.op = "adddev"
    <3>1. c.cfg = [cfg EXCEPT !.devs[t.arg] = t.val] /\ cfg.devs[t.arg] = "none"
      BY <1>3, <1>4, <2>1 DEF Edited, Editable
    <3>2. t.arg \in Dev /\ t.val \in host
      BY <1>1, <2>1 DEF Relies, Call
    <3> QED  BY <1>4, <3>1, <3>2 DEF Edits, Mounts
  <2>2. CASE t.op = "rmdev"
    <3>1. c.cfg = [cfg EXCEPT !.devs[t.arg] = "none"] /\ cfg.devs[t.arg] # "none"
      BY <1>3, <1>4, <2>2 DEF Edited, Editable
    <3>2. t.arg \in Dev /\ Stale(t.ct, t.arg)
      BY <1>1, <1>3, <2>2, <3>1 DEF Relies, Removes
    <3> QED  BY <1>4, <3>1, <3>2 DEF Edits, Unmounts
  <2>3. CASE t.op = "setflag"
    <3>1. (t.val = "true") \in BOOLEAN /\ c.cfg = [cfg EXCEPT !.updates = (t.val = "true")]
      BY <1>4, <2>3 DEF Edited
    <3> QED  BY <1>1, <1>4, <2>3, <3>1 DEF Relies, Edits, Sets
  <2> QED  BY <2>1, <2>2, <2>3
<1>6. c \in After(t)
  <2>1. c \in Follow(t.err)
    <3>1. Edited(t, cfg) \in Config
      BY <1>1, <1>2 DEF Edited, Config, Call, Val, DevValue, Arg
    <3> QED  BY <1>1, <1>3, <3>1, DoCfgFollows DEF Call, PlainOps, Ops
  <2> QED  BY <1>3, <1>4, <2>1 DEF After, Changes
<1>7. Expansion(p, <<c>>)
  <2>1. <<c>> \in Seq(After(t))
    BY <1>6, OneCall
  <2> DEFINE ts == <<c>>
  <2>2. \A i \in DOMAIN ts : i = 1 /\ ts[i] = c
    OBVIOUS
  <2>3. Relies(p, c)
    BY <1>4, <1>5 DEF Relies, Snapshots
  <2> HIDE DEF ts
  <2>4. \A i, j \in DOMAIN ts : ~(j < i)
    BY <2>2
  <2> QED  BY <2>1, <2>2, <2>3, <2>4 DEF Expansion, ts
<1> QED  BY <1>3, <1>7

(* The runs of a fixable: one for each click target, on its configuration.  *)
LEMMA FixExpansion ==
  ASSUME EditInv, NEW p \in Procs, Step(p), Now(p).op = "fix"
  PROVE  \E ts : Continue(p, ts) /\ Expansion(p, ts)
<1> DEFINE t == Now(p)
           order == Listed(ClickTargets)
           f == [n \in ClickTargets |-> DoCfg(t.arg, n, ct[n].cfg, t.err)]
           ts == [i \in DOMAIN order |-> f[order[i]]]
<1>1. /\ TypeInv /\ t \in Call /\ Fix(p) /\ ct \in [Names -> Container]
      /\ ClickTargets \in SUBSET Names
  BY StepMoves, NowIsCall, StepOf
  DEF EditInv, TypeInv, TypeOK, LxdTypeOK, ClickTargets
<1>2. \A n \in ClickTargets :
          f[n].op = t.arg /\ f[n].ct = n /\ f[n].cfg = ct[n].cfg /\ f[n].err = t.err
  BY DEF DoCfg, Do
<1>3. t.arg \in Fixables
  BY <1>1 DEF Call
<1>4. \A n \in ClickTargets : f[n] \in After(t)
  <2>1. \A n \in ClickTargets : ct[n].cfg \in Config /\ n \in Names
    BY <1>1 DEF Container
  <2>2. t.arg \in PlainOps \ {"init", "delete"} /\ t.err \in OnError
    BY <1>1, <1>3 DEF Call, Fixables, PlainOps, Ops
  <2>3. \A n \in ClickTargets : f[n] \in Follow(t.err)
    BY <2>1, <2>2, DoCfgFollows
  <2> HIDE DEF f
  <2> QED  BY <1>2, <2>3 DEF After, Spreads
<1>5. Continue(p, ts)
  <2>1. ts = [i \in DOMAIN order |-> DoCfg(t.arg, order[i], ct[order[i]].cfg, t.err)]
    BY <1>1, ListedIn
  <2> HIDE DEF ts
  <2> QED  BY <1>1, <2>1 DEF Fix
<1>6. ts \in Seq(After(t))
  <2> HIDE DEF f
  <2> QED  BY <1>1, <1>4, TargetsType
<1>7. /\ DOMAIN ts = DOMAIN order
      /\ \A i \in DOMAIN ts : order[i] \in ClickTargets /\ ts[i] = f[order[i]]
  <2> HIDE DEF f
  <2> QED  BY <1>1, ListedIn
<1>8. \A i, j \in DOMAIN ts : ts[i].ct = ts[j].ct => i = j
  <2> HIDE DEF ts, f
  <2> QED  BY <1>1, <1>2, <1>7, ListedOnce
<1> HIDE DEF ts, f
<1>9. \A i \in DOMAIN ts :
          ts[i].op = t.arg /\ ts[i].ct \in Names /\ ts[i].cfg = ct[ts[i].ct].cfg
  BY <1>1, <1>2, <1>7
<1>10. \A i \in DOMAIN ts : Relies(p, ts[i])
  BY <1>3, <1>9 DEF Relies, Fixables, Fresh
<1>11. \A i, j \in DOMAIN ts :
           ts[i].op \in Snapshots /\ j < i => Before(ts[j], ts[i])
  <2> SUFFICES ASSUME NEW i \in DOMAIN ts, NEW j \in DOMAIN ts, ts[i].op \in Snapshots, j < i
               PROVE  Before(ts[j], ts[i])
    OBVIOUS
  <2>1. ts[j].op \in Snapshots
    BY <1>9
  <2>2. DOMAIN ts \subseteq Nat
    BY <1>6
  <2>3. ts[i].ct # ts[j].ct
    BY <1>8, <2>2
  <2> QED  BY <2>1, <2>3 DEF Before, Repairing, Snapshots
<1> QED  BY <1>3, <1>5, <1>6, <1>9, <1>10, <1>11 DEF Expansion, Fixables

(* One device of a snapshot: removed if it is missing, then the others.     *)
LEMMA DevicesExpansion ==
  ASSUME EditInv, NEW p \in Procs, Step(p), Now(p).op = "devices"
  PROVE  \E ts : Continue(p, ts) /\ Expansion(p, ts)
<1> DEFINE t == Now(p)
<1>1. /\ TypeInv /\ t \in Call /\ t \in Calls(p) /\ FixDevices(p) /\ Fresh(t)
      /\ ct \in [Names -> Container] /\ t.ct \in Names /\ t.cfg \in Config
      /\ t.err \in OnError
  BY StepMoves, NowIsCall, StepOf
  DEF EditInv, TypeInv, TypeOK, LxdTypeOK, Pending, Relies, Snapshots, Call
<1>2. CASE Continue(p, <<>>)
  BY <1>2, NothingElse
<1>3. ASSUME NEW d \in Dev, d \in Checked(t.cfg),
             Continue(p, IF t.cfg.devs[d] \in host
                         THEN <<[t EXCEPT !.cfg.devs[d] = "none"]>>
                         ELSE <<DoArg("rmdev", t.ct, d, t.err),
                                [t EXCEPT !.cfg.devs[d] = "none"]>>)
      PROVE  \E ts : Continue(p, ts) /\ Expansion(p, ts)
  <2> DEFINE rest == [t EXCEPT !.cfg.devs[d] = "none"]
             rm == DoArg("rmdev", t.ct, d, t.err)
  <2>1. /\ rest.op = "devices" /\ rest.ct = t.ct /\ rest.err = t.err
        /\ rest.cfg = [t.cfg EXCEPT !.devs[d] = "none"] /\ rest \in Call
    BY <1>1 DEF Call, Config, DevValue
  <2>2. /\ rm.op = "rmdev" /\ rm.ct = t.ct /\ rm.arg = d /\ rm.err = t.err
        /\ rm \in Follow(t.err)
    <3>1. rm \in Follow(t.err)
      BY <1>1, DoArgFollows DEF PlainOps, Ops, Arg
    <3> QED  BY <3>1 DEF DoArg, Do
  <2>3. rest \in After(t) /\ rm \in After(t)
    <3>1. rest \in Follow(t.err)
      BY <2>1 DEF Follow
    <3>2. rm \in Follow(t.err) /\ Repairs(t, rm)
      <4> HIDE DEF rm
      <4> QED  BY <1>3, <2>2 DEF Repairs
    <3>3. Repairs(t, rest)
      BY <1>3, <2>1 DEF Repairs
    <3> QED  BY <3>1, <3>2, <3>3 DEF After
  <2>4. Relies(p, rest)
    <3>1. \A e \in Looks(rest) : e \in Looks(t) /\ rest.cfg.devs[e] = t.cfg.devs[e]
      <4>1. /\ DOMAIN t.cfg.devs = Dev
            /\ rest.cfg.devs = [t.cfg.devs EXCEPT ![d] = "none"]
        BY <1>1, <2>1 DEF Config
      <4>2. "none" \notin Path
        BY LxdAssumption
      <4> HIDE DEF rest
      <4> QED  BY <2>1, <4>1, <4>2 DEF Looks, Checked
    <3>2. Fresh(rest)
      <4> HIDE DEF rest
      <4> QED  BY <1>1, <2>1, <3>1 DEF Fresh
    <3> HIDE DEF rest
    <3> QED  BY <2>1, <3>2 DEF Relies
  <2> HIDE DEF rest, rm
  <2>5. CASE t.cfg.devs[d] \in host
    <3> DEFINE ts == <<rest>>
    <3>1. \A i \in DOMAIN ts : i = 1 /\ ts[i] = rest
      OBVIOUS
    <3>2. ts \in Seq(After(t)) /\ Continue(p, ts)
      BY <1>3, <2>3, <2>5, OneCall DEF rest, rm
    <3> HIDE DEF ts
    <3>3. \A i, j \in DOMAIN ts : ~(j < i)
      BY <3>1
    <3> QED  BY <2>4, <3>1, <3>2, <3>3 DEF Expansion
  <2>6. CASE t.cfg.devs[d] \notin host
    <3> DEFINE ts == <<rm, rest>>
    <3>1. \A i \in DOMAIN ts : (i = 1 /\ ts[i] = rm) \/ (i = 2 /\ ts[i] = rest)
      OBVIOUS
    <3>2. ts \in Seq(After(t)) /\ Continue(p, ts)
      BY <1>3, <2>3, <2>6, TwoCalls DEF rest, rm
    <3>3. Removes(rm)
      BY <1>1, <1>3, <2>2, <2>6 DEF Removes, Stale, Fresh, Looks, Checked
    <3>4. Relies(p, rm)
      BY <2>2, <3>3 DEF Relies, Snapshots
    <3>5. Before(rm, rest)
      BY <2>2 DEF Before, Repairing
    <3> HIDE DEF ts
    <3>6. \A i, j \in DOMAIN ts : j < i => ts[j] = rm /\ ts[i] = rest
      BY <3>1
    <3>7. \A i \in DOMAIN ts : ts[i].op \in {"rmdev", "put"} => i = 1
      BY <2>1, <3>1
    <3> QED  BY <2>4, <3>1, <3>2, <3>4, <3>5, <3>6, <3>7 DEF Expansion
  <2> QED  BY <2>5, <2>6
<1> QED  BY <1>1, <1>2, <1>3 DEF FixDevices, Checked

(* The additions of a fixable: devices that are on the host.                *)
Additions(t) ==
    {c \in After(t) :
        c.op \in {"adddev", "ldconf"} /\ (c.op = "adddev" => c.val \in host)}

LEMMA AdditionRelies ==
  ASSUME NEW p, NEW t, NEW c \in Additions(t)
  PROVE  Relies(p, c) /\ c.op \notin {"rmdev", "put"} \cup Snapshots
<1>1. c.op \in {"adddev", "ldconf"} /\ (c.op = "adddev" => c.val \in host)
  BY DEF Additions
<1> QED  BY <1>1 DEF Relies, Snapshots

LEMMA AddNodesAdd ==
  ASSUME NEW t \in Call, t.op \in {"dri", "nvidia"}, NEW cfg,
         NEW nodes \in {Cards, NvNodes}
  PROVE  AddNodes(t, MissingNodes(cfg, nodes)) \in Seq(Additions(t))
<1> DEFINE S == MissingNodes(cfg, nodes)
           f == [x \in S |-> AddDevice(t.ct, x, x, t.err)]
           order == Listed(S)
<1>1. IsFiniteSet(S) /\ S \subseteq nodes \cap host
  BY MissingNodesFinite DEF MissingNodes
<1>2. \A x \in S : AddDevice(t.ct, x, x, t.err) \in Follow(t.err)
  BY <1>1, AddDeviceType DEF Follow, Dev, Path, Call
<1>3. \A x \in S : f[x] \in Additions(t)
  <2>1. \A x \in S :
            /\ f[x].op = "adddev" /\ f[x].val = x /\ f[x].arg = x
            /\ f[x].ct = t.ct /\ f[x].err = t.err /\ f[x] \in Follow(t.err)
    BY <1>2 DEF AddDevice, DoArg, Do
  <2> HIDE DEF f
  <2> QED  BY <1>1, <2>1 DEF Additions, After, Repairs
<1>4. [i \in DOMAIN order |-> f[order[i]]] \in Seq(Additions(t))
  <2> HIDE DEF f
  <2> QED  BY <1>1, <1>3, CallsFromList
<1>5. \A i \in DOMAIN order : order[i] \in S
  <2>1. order \in Seq(S)
    BY <1>1, ListedType
  <2> HIDE DEF order
  <2> QED  BY <2>1
<1>6. AddNodes(t, S) = [i \in DOMAIN order |-> f[order[i]]]
  BY <1>5 DEF AddNodes
<1> QED  BY <1>4, <1>6

(* A first call and then only additions.                                    *)
Then(t, ts) ==
    /\ ts \in Seq(After(t))
    /\ \A i \in DOMAIN ts : i = 1 \/ ts[i] \in Additions(t)

LEMMA ThenMore ==
  ASSUME NEW t, NEW s, Then(t, s), s # <<>>, NEW u \in Seq(Additions(t))
  PROVE  Then(t, s \o u) /\ s \o u # <<>> /\ (s \o u)[1] = s[1]
<1> DEFINE A == Additions(t)
           C == After(t)
<1>1. u \in Seq(C) /\ s \in Seq(C)
  BY DEF Then, Additions
<1>2. \A i \in DOMAIN u : u[i] \in A
  OBVIOUS
<1>3. \A i \in DOMAIN s : i = 1 \/ s[i] \in A
  BY DEF Then
<1> HIDE DEF A, C
<1> DEFINE r == s \o u
<1>4. /\ r \in Seq(C) /\ Len(r) = Len(s) + Len(u) /\ DOMAIN r = 1..Len(r)
      /\ Len(s) \in Nat /\ Len(u) \in Nat /\ Len(s) > 0 /\ r[1] = s[1]
      /\ \A i \in DOMAIN r : i <= Len(s) => i \in DOMAIN s /\ r[i] = s[i]
      /\ \A i \in DOMAIN r : i > Len(s) => i - Len(s) \in DOMAIN u /\ r[i] = u[i - Len(s)]
  BY <1>1
<1> HIDE DEF r
<1>5. \A i \in DOMAIN r : i = 1 \/ r[i] \in A
  BY <1>2, <1>3, <1>4
<1>6. r # <<>>
  <2>1. Len(<<>>) = 0
    OBVIOUS
  <2> QED  BY <1>4, <2>1
<1> QED  BY <1>4, <1>5, <1>6 DEF Then, r, A, C

LEMMA ThenExpansion ==
  ASSUME NEW p, NEW ts, Then(Now(p), ts),
         ts # <<>> => Relies(p, ts[1]) /\ ts[1].op \notin Snapshots
  PROVE  Expansion(p, ts)
<1>1. ts \in Seq(After(Now(p)))
  BY DEF Then
<1>2. \A i \in DOMAIN ts : i # 1 => ts[i] \in Additions(Now(p))
  BY DEF Then
<1>3. \A i \in DOMAIN ts : ts # <<>>
  OBVIOUS
<1>4. \A i \in DOMAIN ts : Relies(p, ts[i]) /\ ts[i].op \notin Snapshots
  BY <1>2, <1>3, AdditionRelies
<1>5. \A i \in DOMAIN ts : ts[i].op \in {"rmdev", "put"} => i = 1
  BY <1>2, AdditionRelies
<1> QED  BY <1>1, <1>4, <1>5 DEF Expansion

LEMMA AddsExpansion ==
  ASSUME NEW p, NEW ts \in Seq(Additions(Now(p)))
  PROVE  Expansion(p, ts)
<1>1. \A i \in DOMAIN ts : ts[i] \in Additions(Now(p))
  OBVIOUS
<1>2. ts \in Seq(After(Now(p)))
  BY DEF Additions
<1>3. ts # <<>> => 1 \in DOMAIN ts
  OBVIOUS
<1> QED  BY <1>1, <1>2, <1>3, ThenExpansion, AdditionRelies DEF Then

LEMMA DRIExpansion ==
  ASSUME EditInv, NEW p \in Procs, Step(p), Now(p).op = "dri"
  PROVE  \E ts : Continue(p, ts) /\ Expansion(p, ts)
<1>1. Now(p) \in Call /\ FixDRI(p)
  BY StepMoves, NowIsCall, StepOf DEF EditInv
<1> QED  BY <1>1, AddNodesAdd, AddsExpansion DEF FixDRI

(* The driver of a target: nv-bin replaced if it is another driver's.       *)
LEMMA NvidiaExpansion ==
  ASSUME EditInv, NEW p \in Procs, Step(p), Now(p).op = "nvidia"
  PROVE  \E ts : Continue(p, ts) /\ Expansion(p, ts)
<1> DEFINE t == Now(p)
           dir == NvidiaDir(p)
           has == t.cfg.devs["nv-bin"]
           rm == DoArg("rmdev", t.ct, "nv-bin", t.err)
           addone == AddDevice(t.ct, "nv-bin", dir, t.err)
           remove == IF has \in {"none", dir} THEN <<>> ELSE <<rm>>
           add == IF has = dir THEN <<>> ELSE <<addone>>
           conf == <<Do("ldconf", t.ct, t.err)>>
           nodes == AddNodes(t, MissingNodes(t.cfg, NvNodes))
<1>1. /\ TypeInv /\ t \in Call /\ t \in Calls(p) /\ FixNvidia(p) /\ Fresh(t)
      /\ t.ct \in Names /\ t.err \in OnError /\ "nv-bin" \in Dev
  BY StepMoves, NowIsCall, StepOf
  DEF EditInv, Pending, Relies, Snapshots, Call, Dev
<1>2. CASE dir = "none"
  BY <1>1, <1>2, NothingElse DEF FixNvidia
<1>3. CASE dir # "none"
  <2>1. dir = nv /\ dir \in host /\ dir \in Path
    <3>1. Active(p) /\ Cached(p)
      BY <1>1, StepMoves DEF EditInv, Alone
    <3>2. dir \in Path
      BY <1>1, <1>3, NvidiaDirType DEF Path
    <3> QED  BY <1>3, <3>1, <3>2 DEF Cached, NvidiaDir
  <2>2. addone \in Additions(t)
    <3>1. addone \in Follow(t.err)
      BY <1>1, <2>1, AddDeviceFollows
    <3>2. /\ addone.op = "adddev" /\ addone.arg = "nv-bin" /\ addone.val = dir
          /\ addone.ct = t.ct /\ addone.err = t.err
      BY DEF AddDevice, DoArg, Do
    <3> HIDE DEF addone
    <3> QED  BY <2>1, <3>1, <3>2 DEF Additions, After, Repairs
  <2>3. add \in Seq(Additions(t)) /\ conf \in Seq(Additions(t))
        /\ nodes \in Seq(Additions(t))
    <3>1. <<addone>> \in Seq(Additions(t)) /\ <<>> \in Seq(Additions(t))
      BY <2>2, OneCall
    <3>2. Do("ldconf", t.ct, t.err) \in Additions(t)
      <4>1. Do("ldconf", t.ct, t.err) \in Follow(t.err)
        BY <1>1, DoFollows DEF PlainOps, Ops
      <4> QED  BY <4>1 DEF Additions, After, Repairs, Do
    <3>3. conf \in Seq(Additions(t))
      BY <3>2, OneCall
    <3>4. nodes \in Seq(Additions(t))
      BY <1>1, AddNodesAdd
    <3> QED  BY <3>1, <3>3, <3>4
  <2>4. Continue(p, remove \o add \o conf \o nodes)
    BY <1>1, <1>3 DEF FixNvidia
  <2>5. CASE has \in {"none", dir}
    <3>1. remove \o add \in Seq(Additions(t))
      BY <2>3, <2>5
    <3> HIDE DEF remove, add, conf, nodes
    <3>2. remove \o add \o conf \in Seq(Additions(t))
      BY <2>3, <3>1, MoreCalls
    <3>3. remove \o add \o conf \o nodes \in Seq(Additions(t))
      BY <2>3, <3>2, MoreCalls
    <3> QED  BY <2>4, <3>3, AddsExpansion
  <2>6. CASE has \notin {"none", dir}
    <3>1. /\ rm.op = "rmdev" /\ rm.ct = t.ct /\ rm.arg = "nv-bin" /\ rm.err = t.err
          /\ rm \in Follow(t.err)
      <4>1. rm \in Follow(t.err)
        BY <1>1, DoArgFollows DEF PlainOps, Ops, Arg
      <4> QED  BY <4>1 DEF DoArg, Do
    <3> HIDE DEF rm
    <3>2. rm \in After(t)
      BY <3>1 DEF After, Repairs
    <3>3. Removes(rm)
      BY <1>1, <2>1, <2>6, <3>1 DEF Removes, Stale, Fresh, Looks
    <3>4. Relies(p, rm) /\ rm.op \notin Snapshots
      BY <3>1, <3>3 DEF Relies, Snapshots
    <3>5. Then(t, remove) /\ remove # <<>> /\ remove[1] = rm
      <4>1. remove = <<rm>>
        BY <2>6
      <4>2. <<rm>> \in Seq(After(t)) /\ <<rm>> # <<>> /\ <<rm>>[1] = rm
            /\ \A i \in DOMAIN <<rm>> : i = 1
        BY <3>2
      <4> HIDE DEF remove
      <4> QED  BY <4>1, <4>2 DEF Then
    <3> HIDE DEF remove, add, conf, nodes
    <3>6. Then(t, remove \o add) /\ remove \o add # <<>> /\ (remove \o add)[1] = rm
      BY <2>3, <3>5, ThenMore
    <3>7. /\ Then(t, remove \o add \o conf) /\ remove \o add \o conf # <<>>
          /\ (remove \o add \o conf)[1] = rm
      BY <2>3, <3>6, ThenMore
    <3>8. /\ Then(t, remove \o add \o conf \o nodes)
          /\ (remove \o add \o conf \o nodes)[1] = rm
      BY <2>3, <3>7, ThenMore
    <3> QED  BY <2>4, <3>4, <3>8, ThenExpansion
  <2> QED  BY <2>5, <2>6
<1> QED  BY <1>2, <1>3

(* A step fails, or its call is replaced by calls that rely on what is      *)
(* true, and only a call that is replaced by nothing changes a container.   *)
LEMMA StepExpands ==
  ASSUME EditInv, NEW p \in Procs, Step(p), ~Raise(p)
  PROVE  \E ts : Continue(p, ts) /\ Expansion(p, ts) /\ (ts # <<>> => UNCHANGED ct)
<1> DEFINE t == Now(p)
<1>1. /\ TypeInv /\ t \in Call /\ todo[p] # <<>> /\ Moves(p) /\ Effect(p)
  BY StepMoves, NowIsCall, StepEffect DEF EditInv
<1>2. \E ts : Continue(p, ts) /\ Expansion(p, ts)
  <2>1. CASE t.op \notin {"fix", "adddev", "rmdev", "setflag", "devices", "dri", "nvidia"}
    <3>1. PICK ts \in Seq(After(t)) : Continue(p, ts)
      BY <1>1 DEF Moves
    <3>2. \A i \in DOMAIN ts : ts[i].op \notin Sensitive
      BY <1>1, <2>1, AfterPlain
    <3> QED  BY <1>1, <3>1, <3>2, PlainExpansion
  <2> QED
    BY <2>1, EditExpansion, FixExpansion, DevicesExpansion, DRIExpansion,
       NvidiaExpansion
<1>3. PICK ts : Continue(p, ts) /\ Expansion(p, ts)
  BY <1>2
<1>4. ASSUME ct' # ct PROVE ts = <<>>
  <2>1. t.op \in {"start", "unfreeze", "halt", "delete", "init", "put", "useradd",
                 "access", "ldconf", "ldconfig"}
    BY <1>1, <1>4
    DEF Effect, Boots, Halts, Deletes, Makes, Puts, Registers, Opens, Loads
  <2>2. After(t) = {}
    BY <2>1, AfterNone
  <2>3. ts \in Seq({})
    BY <1>3, <2>2 DEF Expansion
  <2> QED  BY <2>3
<1> QED  BY <1>3, <1>4

(* A snapshot stays fresh through the steps that may come before its use.   *)
LEMMA FreshStays ==
  ASSUME TypeInv, NEW p \in Procs, Step(p),
         NEW c \in Call, c.op \in Snapshots, Fresh(c), Before(Now(p), c)
  PROVE  Fresh(c)'
<1> DEFINE t == Now(p)
<1>1. /\ Effect(p) /\ ct \in [Names -> Container] /\ c.ct \in Names /\ t.ct \in Names
      /\ t.op \in Repairing /\ t.cfg \in Config
  BY StepMoves, NowIsCall, StepEffect
  DEF TypeInv, TypeOK, LxdTypeOK, Call, Before
<1>2. CASE ct'[c.ct].cfg = ct[c.ct].cfg /\ ct'[c.ct].status = ct[c.ct].status
  BY <1>2 DEF Fresh, Present
<1>3. CASE UNCHANGED ct
  BY <1>2, <1>3
<1>4. CASE Loads(p)
  BY <1>1, <1>2, <1>4 DEF Loads, Container
<1>5. CASE Puts(p) /\ t.ct # c.ct
  BY <1>1, <1>2, <1>5 DEF Puts
<1>6. CASE Puts(p) /\ t.ct = c.ct
  <2>1. PICK d \in Dev : t.cfg = [ct[t.ct].cfg EXCEPT !.devs[d] = "none"]
    BY <1>6 DEF Before, Puts, Unmounts
  <2>2. ct'[c.ct].cfg = t.cfg /\ Present(c.ct)
    BY <1>1, <1>6 DEF Puts, Container
  <2>3. \A e \in Dev : t.cfg.devs[e] \in {ct[c.ct].cfg.devs[e], "none"}
    BY <1>1, <1>6, <2>1 DEF Container, Config
  <2>4. Looks(c) \subseteq Dev
    BY DEF Looks, Checked, Dev
  <2> QED  BY <2>2, <2>3, <2>4 DEF Fresh
<1> QED
  BY <1>1, <1>3, <1>4, <1>5, <1>6
  DEF Effect, Boots, Halts, Deletes, Makes, Registers, Opens, Repairing

(* What is left behind the current call still holds after a step.           *)
Later(p) == {todo[p][i] : i \in DOMAIN todo[p] \ {1}}

LEMMA LaterRelies ==
  ASSUME EditInv, NEW p \in Procs, todo[p] # <<>>, NEW c \in Later(p),
         host' = host, cmd' = cmd,
         c.op \in Snapshots => Fresh(c)'
  PROVE  /\ Relies(p, c)' /\ c.op \notin {"rmdev", "put"}
<1>1. Pending(p) /\ c \in Calls(p)
  BY DEF EditInv, Later, Calls
<1>2. Relies(p, c) /\ c.op \notin {"rmdev", "put"}
  BY <1>1 DEF Pending, Later
<1> QED  BY <1>2 DEF Relies

(* What may come before the use of a snapshot is replaced by what may, too. *)
LEMMA BeforeAfter ==
  ASSUME EditInv, NEW p \in Procs, todo[p] # <<>>,
         NEW s \in After(Now(p)), NEW c, Before(Now(p), c)
  PROVE  Before(s, c)
<1> DEFINE t == Now(p)
<1>1. t \in Call /\ t.op \in Repairing /\ Relies(p, t)
  BY NowIsCall DEF EditInv, Pending, Before
<1>2. s.op \in Repairing /\ s.ct = t.ct
  BY <1>1, AfterLocal
<1>3. CASE t.ct # c.ct
  BY <1>2, <1>3 DEF Before
<1>4. CASE t.op = "rmdev"
  <2>1. Changes(t, s)
    BY <1>4 DEF After, Parts, Spreads, Repairs, Connects
  <2>2. /\ s.op = "put" /\ Present(t.ct) /\ ct[t.ct].cfg.devs[t.arg] # "none"
        /\ s.cfg = [ct[t.ct].cfg EXCEPT !.devs[t.arg] = "none"]
    BY <1>4, <2>1 DEF Changes, Editable, Edited
  <2>3. t.arg \in Dev /\ Stale(t.ct, t.arg)
    BY <1>1, <1>4, <2>2 DEF Relies, Removes
  <2> QED  BY <1>2, <2>2, <2>3 DEF Before, Unmounts
<1>5. CASE t.op = "put"
  BY <1>5, AfterNone
<1> QED  BY <1>3, <1>4, <1>5 DEF Before

LEMMA ContinuePending ==
  ASSUME EditInv, NEW p \in Procs, todo[p] # <<>>,
         NEW ts, Continue(p, ts), Expansion(p, ts), ts # <<>> => UNCHANGED ct,
         host' = host, nv' = nv, cmd' = cmd,
         \A c \in Call :
            c.op \in Snapshots /\ Fresh(c) /\ Before(Now(p), c) => Fresh(c)'
  PROVE  Pending(p)'
<1> DEFINE l == Len(ts)
<1>1. /\ TypeInv /\ Pending(p) /\ ts \in Seq(After(Now(p))) /\ ts \in Seq(Call)
  BY DEF EditInv, Expansion, After, Follow
<1>2. /\ l \in Nat /\ Len(todo[p]) \in Nat \ {0}
      /\ Now(p) = todo[p][1] /\ 1 \in DOMAIN todo[p]
      /\ DOMAIN todo[p] = 1..Len(todo[p])
      /\ DOMAIN todo'[p] = 1..(l + Len(todo[p]) - 1)
      /\ \A i \in DOMAIN todo'[p] : i <= l => i \in DOMAIN ts /\ todo'[p][i] = ts[i]
      /\ \A i \in DOMAIN todo'[p] : i > l =>
              i - l + 1 \in DOMAIN todo[p] /\ todo'[p][i] = todo[p][i - l + 1]
  BY <1>1, Rest
<1>3. ASSUME NEW i \in DOMAIN ts
      PROVE  /\ Relies(p, ts[i])' /\ ts # <<>>
             /\ ts[i].op \in {"rmdev", "put"} => i = 1
  <2>1. ts # <<>> /\ ct' = ct
    OBVIOUS
  <2>2. Relies(p, ts[i]) /\ (ts[i].op \in {"rmdev", "put"} => i = 1)
    BY DEF Expansion
  <2>3. ASSUME NEW c, Relies(p, c) PROVE Relies(p, c)'
    BY <2>1, <2>3
    DEF Relies, Removes, Edits, Mounts, Unmounts, Sets, Stale, Fresh, Present
  <2> QED  BY <2>1, <2>2, <2>3
<1>4. ASSUME NEW k \in DOMAIN todo[p], k > 1, NEW c, c = todo[p][k]
      PROVE  Relies(p, c)' /\ c.op \notin {"rmdev", "put"}
  <2>1. c \in Later(p) /\ c \in Calls(p) /\ c \in Call
    BY <1>1, <1>4, NowIsCall DEF Later, Calls
  <2>2. c.op \in Snapshots => Fresh(c) /\ Before(Now(p), c)
    BY <1>1, <1>2, <1>4, <2>1 DEF Pending, Relies
  <2> QED  BY <2>1, <2>2, LaterRelies
<1>5. ASSUME NEW c, NEW i \in DOMAIN todo'[p], c = todo'[p][i]
      PROVE  Relies(p, c)' /\ (c.op \in {"rmdev", "put"} => i = 1)
  <2>1. CASE i <= l
    BY <1>2, <1>3, <1>5, <2>1
  <2>2. CASE i > l
    <3>1. i - l + 1 \in DOMAIN todo[p] /\ i - l + 1 > 1 /\ c = todo[p][i - l + 1]
      BY <1>2, <1>5, <2>2
    <3> QED  BY <1>4, <3>1
  <2> QED  BY <1>2, <2>1, <2>2
<1>6. ASSUME NEW s, NEW c, Before(s, c), s.op # "put" \/ ts # <<>>
      PROVE  Before(s, c)'
  BY <1>6 DEF Before, Unmounts, Stale
<1>7. ASSUME NEW i \in DOMAIN todo'[p], NEW j \in DOMAIN todo'[p], j < i,
             NEW s, NEW c, s = todo'[p][j], c = todo'[p][i], c.op \in Snapshots
      PROVE  Before(s, c)'
  <2>1. CASE i <= l
    <3>1. i \in DOMAIN ts /\ j \in DOMAIN ts /\ c = ts[i] /\ s = ts[j]
      BY <1>2, <1>7, <2>1
    <3>2. Before(s, c)
      BY <1>7, <3>1 DEF Expansion
    <3> QED  BY <1>3, <1>6, <3>1, <3>2
  <2>2. CASE i > l /\ j <= l
    <3>1. /\ i - l + 1 \in DOMAIN todo[p] /\ i - l + 1 > 1 /\ c = todo[p][i - l + 1]
          /\ j \in DOMAIN ts /\ s = ts[j]
      BY <1>2, <1>7, <2>2
    <3>2. Before(Now(p), c)
      <4>1. PICK k \in DOMAIN todo[p] : 1 < k /\ c = todo[p][k]
        BY <1>2, <3>1
      <4>2. Before(todo[p][1], todo[p][k])
        BY <1>1, <1>2, <1>7, <4>1 DEF Pending
      <4> QED  BY <1>2, <4>1, <4>2
    <3>3. s \in After(Now(p))
      BY <1>1, <3>1
    <3> QED  BY <1>3, <1>6, <3>1, <3>2, <3>3, BeforeAfter
  <2>3. CASE i > l /\ j > l
    <3>1. i \in Nat /\ j \in Nat /\ l \in Nat
      BY <1>2
    <3>2. j - l + 1 < i - l + 1 /\ j - l + 1 > 1
      BY <1>7, <2>3, <3>1
    <3>3. i - l + 1 \in DOMAIN todo[p] /\ c = todo[p][i - l + 1]
      BY <1>2, <1>7, <2>3
    <3>4. j - l + 1 \in DOMAIN todo[p] /\ s = todo[p][j - l + 1]
      BY <1>2, <1>7, <2>3
    <3>5. Before(s, c) /\ s.op # "put"
      BY <1>1, <1>4, <1>7, <3>1, <3>2, <3>3, <3>4 DEF Pending
    <3> QED  BY <1>6, <3>5
  <2> QED  BY <1>2, <2>1, <2>2, <2>3
<1> QED  BY <1>5, <1>7 DEF Pending, Calls

(* Calls that rely on nothing.                                              *)
LEMMA PlainPending ==
  ASSUME NEW p, \A c \in Calls(p)' : c.op \notin Sensitive
  PROVE  Pending(p)'
<1>1. \A i \in DOMAIN todo'[p] : todo'[p][i] \in Calls(p)'
  BY DEF Calls
<1>2. ASSUME NEW c \in Calls(p)' PROVE Relies(p, c)'
  BY DEF Relies, Sensitive, Snapshots
<1> QED  BY <1>1, <1>2 DEF Pending, Sensitive, Snapshots

LEMMA RaisePending ==
  ASSUME EditInv, NEW p \in Procs, todo[p] # <<>>, Raise(p),
         host' = host, nv' = nv, cmd' = cmd,
         \A c \in Call :
            c.op \in Snapshots /\ Fresh(c) /\ Before(Now(p), c) => Fresh(c)'
  PROVE  Pending(p)'
<1>1. TypeInv
  BY DEF EditInv
<1>2. CASE Now(p).err = "skip" /\ Continue(p, <<>>)
  BY <1>2, ContinuePending, NothingElse
<1>3. CASE todo'[p] = <<>>
  <2>1. Calls(p)' = {}
    BY <1>3 DEF Calls
  <2> QED  BY <2>1, PlainPending
<1>4. CASE Calls(p)' \subseteq Undo(p)
  <2>1. \A c \in Undo(p) : c.op \notin Sensitive
    BY DEF Undo, Do, Sensitive
  <2> QED  BY <1>4, <2>1, PlainPending
<1> QED  BY <1>1, <1>2, <1>3, <1>4, Raised

--------------------------------------------------------------------------------
(* Only the fixable of the driver caches its directory.                     *)
LEMMA StepCaches ==
  ASSUME TypeInv, NEW p \in Procs, Step(p)
  PROVE  \A q \in Procs :
            nvDir'[q] = nvDir[q] \/ (q = p /\ nvDir'[q] = NvidiaDir(p))
<1>1. nvDir \in [Procs -> Drivers \cup {"none"}]
  BY DEF TypeInv, TypeOK
<1>2. CASE SyncStep(p)
  BY <1>2
  DEF SyncStep, BootContainerSync, Start, StopContainerSync, Stop, Delete,
      UpdateConfigSync, Ldconfig, AddDeviceSync, RemoveDeviceSync, SetContainerConfig,
      Edit, Put
<1>3. CASE Check(p)
  BY <1>1, <1>3 DEF Check
<1>4. CASE FixNvidia(p)
  BY <1>1, <1>4 DEF FixNvidia
<1>5. CASE Fix(p) \/ FixAccess(p) \/ FixDevices(p) \/ FixDRI(p) \/ WriteLDConf(p)
           \/ UpdateTargets(p)
  BY <1>5 DEF Fix, FixAccess, FixDevices, FixDRI, WriteLDConf, UpdateTargets
<1>6. CASE NetworkStep(p)
  BY <1>6
  DEF NetworkStep, ListContainers, CreateBridgeNeeded, LxdBridgeConfigured,
      NetworkCreate, ProfileConfig, ProfileDevice, ProfilePut
<1>7. CASE InitContainer(p) \/ KnownUser(p) \/ GroupAdd(p) \/ UserAdd(p)
  BY <1>7 DEF InitContainer, KnownUser, GroupAdd, UserAdd
<1> QED  BY <1>2, <1>3, <1>4, <1>5, <1>6, <1>7 DEF Step, FixingStep

(* An invocation that moves stays active as long as it has calls to make.   *)
LEMMA MovesOn ==
  ASSUME TypeInv, NEW p \in Procs, todo[p] # <<>>, Moves(p), Active(p)
  PROVE  (todo'[p] # <<>> => Active(p)') /\ res'[p] # "idle"
<1>1. todo \in [Procs -> Seq(Call)] /\ res \in [Procs -> Results]
  BY DEF TypeInv, TypeOK
<1>2. ASSUME NEW ts, Continue(p, ts)
      PROVE  (todo'[p] # <<>> => Active(p)') /\ res'[p] # "idle"
  BY <1>1, <1>2 DEF Continue, Active
<1>3. CASE Raise(p)
  BY <1>1, <1>2, <1>3 DEF Raise, Active
<1> QED  BY <1>2, <1>3 DEF Moves

LEMMA StepEdits ==
  ASSUME EditInv, NEW p \in Procs, Step(p)
  PROVE  EditInv'
<1>1. /\ TypeInv /\ todo[p] # <<>> /\ Moves(p) /\ Active(p) /\ cmd' = cmd
      /\ host' = host /\ nv' = nv
      /\ \A q \in Procs \ {p} : todo'[q] = todo[q] /\ res'[q] = res[q]
      /\ \A q \in Procs \ {p} : ~Active(q) /\ todo[q] = <<>>
  BY StepMoves DEF EditInv, Alone, Step
<1>2. TypeInv'
  BY <1>1, NextType DEF Next
<1>3. (todo'[p] # <<>> => Active(p)') /\ res'[p] # "idle"
  BY <1>1, MovesOn
<1>4. Alone'
  BY <1>1, <1>3 DEF Alone, Active
<1>5. \A q \in Procs : Cached(q)'
  <2> SUFFICES ASSUME NEW q \in Procs PROVE Cached(q)'
    OBVIOUS
  <2>1. Cached(q)
    BY DEF EditInv
  <2>2. CASE q # p
    <3>1. nvDir'[q] = nvDir[q] /\ res'[q] = res[q]
      BY <1>1, <2>2, StepCaches
    <3> QED  BY <1>1, <2>1, <3>1 DEF Cached, Active
  <2>3. CASE q = p
    <3>1. nvDir'[p] = nvDir[p] \/ nvDir'[p] = NvidiaDir(p)
      BY <1>1, StepCaches
    <3>2. nvDir[p] = "none" \/ (nvDir[p] = nv /\ nv \in host)
      BY <1>1, <2>1, <2>3 DEF Cached
    <3>3. nvDir'[p] = "none" \/ (nvDir'[p] = nv /\ nv \in host)
      BY <3>1, <3>2 DEF NvidiaDir
    <3> QED  BY <1>1, <1>3, <2>3, <3>3 DEF Cached
  <2> QED  BY <2>2, <2>3
<1>6. \A q \in Procs \ {p} : Pending(q)'
  <2>1. \A q \in Procs \ {p} : Calls(q)' = {}
    BY <1>1 DEF Calls
  <2> QED  BY <2>1, PlainPending
<1>7. Pending(p)'
  <2>1. \A c \in Call :
            c.op \in Snapshots /\ Fresh(c) /\ Before(Now(p), c) => Fresh(c)'
    BY <1>1, FreshStays
  <2>2. CASE Raise(p)
    BY <1>1, <2>1, <2>2, RaisePending
  <2>3. ASSUME NEW ts, Continue(p, ts), Expansion(p, ts), ts # <<>> => UNCHANGED ct
        PROVE  Pending(p)'
    BY <1>1, <2>1, <2>3, ContinuePending
  <2>4. CASE ~Raise(p)
    BY <2>3, <2>4, StepExpands
  <2> QED  BY <2>2, <2>4
<1> QED  BY <1>1, <1>2, <1>4, <1>5, <1>6, <1>7 DEF EditInv

LEMMA BreakEdits ==
  ASSUME EditInv, NEW p \in Procs, Break(p)
  PROVE  EditInv'
<1>1. /\ TypeInv /\ cmd' = cmd /\ host' = host /\ nv' = nv /\ nvDir' = nvDir /\ ct' = ct
      /\ \A q \in Procs \ {p} : todo'[q] = todo[q] /\ res'[q] = res[q]
      /\ \/ todo[p] # <<>> /\ Raise(p)
         \/ todo'[p] = <<>> /\ Calls(p)' = {} /\ res'[p] = "killed" /\ Active(p)
  BY BrokenOff DEF EditInv, Break, Fault, Kill
<1>2. /\ Active(p) /\ \A q \in Procs \ {p} : ~Active(q) /\ todo[q] = <<>>
  BY <1>1 DEF EditInv, Alone
<1>3. TypeInv'
  BY <1>1, NextType DEF Next
<1>4. (todo'[p] # <<>> => Active(p)') /\ res'[p] # "idle"
  BY <1>1, <1>2, MovesOn DEF Moves
<1>5. Alone'
  BY <1>1, <1>2, <1>4 DEF Alone, Active
<1>6. \A q \in Procs : Cached(q)'
  BY <1>1, <1>2, <1>4 DEF EditInv, Cached, Active
<1>7. \A q \in Procs \ {p} : Pending(q)'
  <2>1. \A q \in Procs \ {p} : Calls(q)' = {}
    BY <1>1, <1>2 DEF Calls
  <2> QED  BY <2>1, PlainPending
<1>8. Pending(p)'
  <2>1. \A c : Fresh(c) => Fresh(c)'
    BY <1>1 DEF Fresh, Present
  <2> QED  BY <1>1, <2>1, RaisePending, PlainPending
<1> QED  BY <1>1, <1>3, <1>5, <1>6, <1>7, <1>8 DEF EditInv

LEMMA InvokeEdits ==
  ASSUME Exclusive, EditInv, NEW p \in Procs, Invoke(p)
  PROVE  EditInv'
<1>1. PICK c \in Menu :
           /\ c \in Command /\ cmd'[p] = c /\ res'[p] = "running"
           /\ \A k \in Calls(p)' : Asks(c, k)
           /\ res[p] = "idle" /\ ct' = ct
           /\ \A q \in Procs \ {p} :
                todo'[q] = todo[q] /\ res'[q] = res[q] /\ cmd'[q] = cmd[q]
  BY Invoked DEF EditInv
<1>2. /\ host' = host /\ nv' = nv /\ nvDir' = nvDir
      /\ \A q \in Procs : ~Active(q) /\ todo[q] = <<>>
  BY DEF Invoke, world, Quiet, EditInv, Alone
<1>3. TypeInv'
  BY NextType DEF EditInv, Next
<1>4. Alone'
  BY <1>1, <1>2 DEF Alone, Active
<1>5. \A q \in Procs : Cached(q)'
  BY <1>1, <1>2 DEF EditInv, Cached, Active
<1>6. \A q \in Procs \ {p} : Pending(q)'
  <2>1. \A q \in Procs \ {p} : Calls(q)' = {}
    BY <1>1, <1>2 DEF Calls
  <2> QED  BY <2>1, PlainPending
<1>7. Pending(p)'
  <2>1. ASSUME NEW k \in Calls(p)'
        PROVE  Relies(p, k)' /\ k.op \notin {"rmdev", "put"} \cup Snapshots
    <3>1. Asks(c, k)
      BY <1>1
    <3>2. k.op \notin {"rmdev", "put"} \cup Snapshots
      BY <3>1 DEF Asks, Snapshots
    <3>3. k.op = "setflag" => c.kind = "set" /\ k.ct = c.ct
      BY <3>1 DEF Asks
    <3>4. k.op = "adddev" => k.val \in host
      BY <1>1, <3>1 DEF Asks, Command, EditInv
    <3> QED  BY <1>1, <1>2, <3>2, <3>3, <3>4 DEF Relies
  <2>2. \A i \in DOMAIN todo'[p] : todo'[p][i] \in Calls(p)'
    BY DEF Calls
  <2> QED  BY <2>1, <2>2 DEF Pending
<1> QED  BY <1>2, <1>3, <1>4, <1>5, <1>6, <1>7 DEF EditInv

(* A change of the host, while no command runs.                             *)
LEMMA HostEdits ==
  ASSUME Exclusive, HomesThere, EditInv, Replug \/ UpgradeDriver
  PROVE  EditInv'
<1>1. /\ UNCHANGED <<ct, cmd, todo, res, nvDir>>
      /\ \A q \in Procs : ~Active(q) /\ todo[q] = <<>>
  BY DEF Replug, UpgradeDriver, ChangeHost, server, Quiet, EditInv, Alone
<1>2. TypeInv'
  BY NextType DEF EditInv, Next
<1>3. Users \cup {"tmp"} \subseteq host'
  <2>1. CASE Replug
    BY <2>1 DEF Replug, EditInv, HomesThere
  <2>2. CASE UpgradeDriver
    <3>1. nv \in Drivers
      BY <2>2 DEF UpgradeDriver, EditInv, TypeInv, TypeOK, LxdTypeOK
    <3> QED  BY <2>2, <3>1 DEF UpgradeDriver, EditInv, HomesThere
  <2> QED  BY <2>1, <2>2
<1>4. \A q \in Procs : Pending(q)'
  <2>1. \A q \in Procs : Calls(q)' = {}
    BY <1>1 DEF Calls
  <2> QED  BY <2>1, PlainPending
<1>5. Alone' /\ \A q \in Procs : Cached(q)'
  BY <1>1 DEF EditInv, Alone, Cached, Active
<1> QED  BY <1>2, <1>3, <1>4, <1>5 DEF EditInv

LEMMA EditInit ==
  ASSUME HomesThere, Init
  PROVE  EditInv
<1>1. TypeInv
  BY InitType
<1>2. \A p \in Procs : todo[p] = <<>> /\ res[p] = "idle" /\ nvDir[p] = "none"
  BY DEF Init
<1>3. Users \cup {"tmp"} \subseteq host
  BY DEF Init, HomesThere
<1>4. \A p \in Procs : Pending(p)
  BY <1>2 DEF Pending, Calls
<1> QED  BY <1>1, <1>2, <1>3, <1>4 DEF EditInv, Alone, Cached, Active

LEMMA EditNext ==
  ASSUME Exclusive, HomesThere, EditInv, [Next]_vars
  PROVE  EditInv'
<1>1. CASE UNCHANGED vars
  <2>1. TypeInv'
    BY NextType DEF EditInv
  <2>2. UNCHANGED <<ct, host, nv, cmd, todo, res, nvDir>>
    BY <1>1 DEF vars
  <2>3. Alone' /\ \A p \in Procs : Cached(p)'
    BY <2>2 DEF EditInv, Alone, Cached, Active
  <2>4. ASSUME NEW p, NEW c PROVE Relies(p, c) <=> Relies(p, c)'
    BY <2>2 DEF Relies, Removes, Edits, Mounts, Unmounts, Sets, Stale, Fresh, Present
  <2>5. ASSUME NEW s, NEW c PROVE Before(s, c) <=> Before(s, c)'
    BY <2>2 DEF Before, Unmounts, Stale
  <2>6. \A p \in Procs : Pending(p)'
    BY <2>2, <2>4, <2>5 DEF EditInv, Pending, Calls
  <2> QED  BY <2>1, <2>2, <2>3, <2>6 DEF EditInv
<1> QED  BY <1>1, StepEdits, BreakEdits, InvokeEdits, HostEdits DEF Next
--------------------------------------------------------------------------------
(* A PUT that is made is one of the edits.                                  *)
LEMMA PutEdits ==
  ASSUME EditInv, NEW p \in Procs, Step(p), Puts(p)
  PROVE  /\ Now(p) \in Call /\ Edits(p, Now(p)) /\ Active(p)
         /\ Now(p).ct \in Names /\ Present(Now(p).ct)
         /\ ct[Now(p).ct] \in Container /\ ct[Now(p).ct].cfg \in Config
         /\ ct'[Now(p).ct] = [ct[Now(p).ct] EXCEPT !.cfg = Now(p).cfg]
         /\ \A n \in Names \ {Now(p).ct} : ct'[n] = ct[n]
<1>1. /\ TypeInv /\ todo[p] # <<>> /\ Now(p) \in Calls(p) /\ Now(p) \in Call
  BY StepMoves, NowIsCall DEF EditInv
<1>2. /\ Edits(p, Now(p)) /\ Active(p)
  BY <1>1 DEF EditInv, Pending, Relies, Puts, Alone
<1>3. Now(p).ct \in Names /\ ct \in [Names -> Container]
  BY <1>1 DEF Call, TypeInv, TypeOK, LxdTypeOK
<1>4. ct[Now(p).ct] \in Container /\ ct[Now(p).ct].cfg \in Config
  BY <1>3 DEF Container
<1> QED  BY <1>1, <1>2, <1>3, <1>4 DEF Puts

(* No other effect changes the configuration of a container that stays.     *)
LEMMA OthersKeepConfig ==
  ASSUME TypeInv, NEW p \in Procs, Now(p).ct \in Names, Effect(p), ~Puts(p),
         NEW n \in Names, Present(n), Present(n)'
  PROVE  ct'[n].cfg = ct[n].cfg
<1> DEFINE t == Now(p)
<1>1. /\ ct \in [Names -> Container] /\ ct[n] \in Container
      /\ NoContainer.status = "Absent"
  BY DEF TypeInv, TypeOK, LxdTypeOK, NoContainer
<1>2. CASE UNCHANGED ct
  BY <1>2
<1>3. CASE Boots(p) \/ Registers(p) \/ Opens(p) \/ Loads(p)
  BY <1>1, <1>3 DEF Boots, Registers, Opens, Loads, Container
<1>4. CASE Halts(p)
  BY <1>1, <1>4 DEF Halts, AfterStop, Present, Container
<1>5. CASE Deletes(p)
  BY <1>1, <1>5 DEF Deletes, Present
<1>6. CASE Makes(p)
  BY <1>1, <1>6 DEF Makes, Present
<1> QED  BY <1>2, <1>3, <1>4, <1>5, <1>6 DEF Effect

(* With one command at a time, the automatic-updates flag of a container    *)
(* only changes while a set of that container runs: every other PUT, of a   *)
(* mount, an unmount or a repair, carries the flag the container has.       *)
THEOREM FlagMoves ==
  ASSUME Exclusive, HomesThere
  PROVE  Spec => OnlySetMovesFlag
<1>1. Init => EditInv
  BY EditInit
<1>2. EditInv /\ [Next]_vars => EditInv'
  BY EditNext
<1>3. EditInv /\ [Next]_vars =>
        \A n \in Names :
          /\ Present(n) /\ Present(n)' /\ ct'[n].owner = ct[n].owner
          /\ ct'[n].cfg.updates # ct[n].cfg.updates
          => \E p \in Procs : /\ cmd[p].kind = "set" /\ cmd[p].ct = n
                              /\ Active(p)
  <2> SUFFICES ASSUME EditInv, [Next]_vars, NEW n \in Names, Present(n), Present(n)',
                      ct'[n].cfg.updates # ct[n].cfg.updates
               PROVE  \E p \in Procs :
                         cmd[p].kind = "set" /\ cmd[p].ct = n /\ Active(p)
    OBVIOUS
  <2>1. TypeInv
    BY DEF EditInv
  <2>2. ASSUME NEW p \in Procs, Invoke(p) \/ Break(p) PROVE ct' = ct
    BY <2>1, <2>2, Invoked, BrokenOff
  <2>3. PICK p \in Procs : Step(p)
    BY <2>2, NextCases
  <2>4. Effect(p) /\ Now(p).ct \in Names
    <3>1. todo[p] # <<>>
      BY <2>1, <2>3, StepMoves
    <3>2. Now(p) \in Call
      BY <2>1, <3>1, NowIsCall
    <3> QED  BY <2>1, <2>3, <3>2, StepEffect DEF Call
  <2>5. Puts(p)
    BY <2>1, <2>4, OthersKeepConfig
  <2> DEFINE c == Now(p)
  <2>6. /\ Edits(p, c) /\ Active(p) /\ c.ct = n
        /\ ct[n].cfg \in Config /\ ct[n] \in Container
        /\ ct'[n] = [ct[n] EXCEPT !.cfg = c.cfg]
    BY <2>3, <2>5, PutEdits
  <2>7. c.cfg.updates # ct[n].cfg.updates
    BY <2>6 DEF Container
  <2>8. ~Mounts(c) /\ ~Unmounts(c)
    BY <2>6, <2>7 DEF Mounts, Unmounts, Config
  <2> QED  BY <2>6, <2>8 DEF Edits, Sets
<1> QED  BY <1>1, <1>2, <1>3, PTL DEF Spec, OnlySetMovesFlag
--------------------------------------------------------------------------------
(* The configurations as Targets sees them.                                 *)
Conf == [n \in Names |-> IF Present(n) THEN ct[n].cfg ELSE [click |-> FALSE]]

(* A step that touches one container changes at most its configuration.     *)
LEMMA ConfChanges ==
  ASSUME NEW n \in Names, \A m \in Names \ {n} : ct'[m] = ct[m]
  PROVE  /\ \A v : Conf'[n] = v => Conf' = [Conf EXCEPT ![n] = v]
         /\ Conf'[n] = Conf[n] => Conf' = Conf
<1>1. \A m \in Names \ {n} : Conf'[m] = Conf[m]
  BY DEF Conf, Present
<1>2. /\ Conf = [m \in Names |-> Conf[m]]
      /\ Conf' = [m \in Names |-> Conf'[m]]
  BY DEF Conf
<1> HIDE DEF Conf
<1> QED  BY <1>1, <1>2

(* A container that is there is not taken for one that is not.              *)
LEMMA ConfTells ==
  ASSUME TypeInv, NEW n \in Names
  PROVE  /\ Present(n) => Conf[n] = ct[n].cfg /\ Conf[n] # [click |-> FALSE]
         /\ ~Present(n) => Conf[n] = [click |-> FALSE]
<1>1. ct[n].cfg \in Config
  BY DEF TypeInv, TypeOK, LxdTypeOK, Container
<1>2. ct[n].cfg # [click |-> FALSE]
  <2>1. DOMAIN ct[n].cfg = {"click", "updates", "devs"}
    BY <1>1 DEF Config
  <2>2. DOMAIN [click |-> FALSE] = {"click"}
    OBVIOUS
  <2>3. {"click", "updates", "devs"} # {"click"}
    OBVIOUS
  <2> QED  BY <2>1, <2>2, <2>3
<1> QED  BY <1>2 DEF Conf

(* Each effect of a step is an edit of Targets, or changes nothing there.   *)
EditOne(n) ==
    \/ Promise!Make(n) \/ Promise!Remove(n) \/ Promise!Flag(n)
    \/ \E d \in Dev : Promise!Mount(n, d) \/ Promise!Unmount(n, d)

LEMMA PromiseConf ==
  ASSUME NEW n
  PROVE  /\ Promise!Make(n) <=>
              /\ ~(Conf[n] # [click |-> FALSE])
              /\ \E b \in BOOLEAN :
                   Conf' = [Conf EXCEPT ![n] = [click |-> TRUE, updates |-> b,
                                                devs |-> NoDevs]]
         /\ Promise!Remove(n) <=>
              /\ Conf[n] # [click |-> FALSE]
              /\ Conf' = [Conf EXCEPT ![n] = [click |-> FALSE]]
         /\ Promise!Flag(n) <=>
              /\ Conf[n] # [click |-> FALSE]
              /\ Conf' = [Conf EXCEPT ![n].updates = ~@]
         /\ \A d : Promise!Mount(n, d) <=>
              /\ Conf[n] # [click |-> FALSE] /\ Conf[n].devs[d] = "none"
              /\ \E path \in host : Conf' = [Conf EXCEPT ![n].devs[d] = path]
         /\ \A d : Promise!Unmount(n, d) <=>
              /\ Conf[n] # [click |-> FALSE]
              /\ \/ Conf[n].devs[d] \in Path \ host
                 \/ d = "nv-bin" /\ Conf[n].devs[d] \notin {"none", nv}
              /\ Conf' = [Conf EXCEPT ![n].devs[d] = "none"]
  BY DEF Promise!Make, Promise!Remove, Promise!Flag, Promise!Mount, Promise!Unmount,
         Promise!Exists, Promise!NoTarget, Conf, NoDevs
LEMMA MakeEdits ==
  ASSUME TypeInv, TypeInv', NEW p \in Procs, Now(p).ct \in Names, Makes(p)
  PROVE  \E n \in Names : EditOne(n)
<1> DEFINE b == (Now(p).val = "true")
<1>0. PICK n \in Names : n = Now(p).ct
  OBVIOUS
<1>1. /\ ct \in [Names -> Container] /\ ~Present(n) /\ b \in BOOLEAN
      /\ ct'[n].status = "Stopped"
      /\ ct'[n].cfg = [NoConfig EXCEPT !.click = TRUE, !.updates = b]
      /\ \A m \in Names \ {n} : ct'[m] = ct[m]
  BY <1>0 DEF Makes, TypeInv, TypeOK, LxdTypeOK, NoContainer
<1>2. ct'[n].cfg = [click |-> TRUE, updates |-> b, devs |-> NoDevs]
  BY <1>1 DEF NoConfig
<1> HIDE DEF b
<1>3. Conf'[n] = [click |-> TRUE, updates |-> b, devs |-> NoDevs]
  BY <1>1, <1>2 DEF Conf, Present
<1>4. Conf' = [Conf EXCEPT ![n] = [click |-> TRUE, updates |-> b, devs |-> NoDevs]]
  BY <1>1, <1>3, ConfChanges
<1>5. Conf[n] = [click |-> FALSE]
  BY <1>1, ConfTells
<1>6. Promise!Make(n)
  <2>1. \E on \in BOOLEAN :
           Conf' = [Conf EXCEPT ![n] = [click |-> TRUE, updates |-> on, devs |-> NoDevs]]
    BY <1>1, <1>4, Zenon
  <2> QED  BY <1>5, <2>1, PromiseConf
<1> QED  BY <1>6 DEF EditOne

LEMMA GoneEdits ==
  ASSUME TypeInv, NEW n \in Names, Present(n), ~Present(n)',
         \A m \in Names \ {n} : ct'[m] = ct[m]
  PROVE  EditOne(n)
<1>1. Conf'[n] = [click |-> FALSE]
  BY DEF Conf
<1>2. Conf' = [Conf EXCEPT ![n] = [click |-> FALSE]]
  BY <1>1, ConfChanges
<1>3. Promise!Remove(n)
  BY <1>2, ConfTells, PromiseConf
<1> QED  BY <1>3 DEF EditOne

LEMMA PutIsEdit ==
  ASSUME EditInv, NEW p \in Procs, Step(p), Puts(p)
  PROVE  (\E n \in Names : EditOne(n)) \/ Conf' = Conf
<1> DEFINE c == Now(p)
           cfg == ct[c.ct].cfg
<1>0. PICK n \in Names : n = c.ct
  BY PutEdits
<1>1. /\ TypeInv /\ Edits(p, c) /\ n \in Names /\ Present(n) /\ cfg \in Config
      /\ ct[n] \in Container /\ ct'[n] = [ct[n] EXCEPT !.cfg = c.cfg]
      /\ \A m \in Names \ {n} : ct'[m] = ct[m]
  BY <1>0, PutEdits DEF EditInv
<1>2. ct'[n].cfg = c.cfg /\ ct'[n].status = ct[n].status
  BY <1>1 DEF Container
<1>3. Conf'[n] = c.cfg /\ Conf[n] = cfg /\ Conf[n] # [click |-> FALSE]
  BY <1>0, <1>1, <1>2, ConfTells DEF Conf, Present
<1>4. Conf' = [Conf EXCEPT ![n] = c.cfg] /\ (c.cfg = cfg => Conf' = Conf)
  BY <1>1, <1>3, ConfChanges
<1>d. n \in DOMAIN Conf
  BY <1>1 DEF Conf
<1>5. CASE Mounts(c)
  <2>1. PICK d \in Dev, path \in host :
           cfg.devs[d] = "none" /\ c.cfg = [cfg EXCEPT !.devs[d] = path]
    BY <1>0, <1>5 DEF Mounts
  <2>2. Conf' = [Conf EXCEPT ![n].devs[d] = path]
    BY <1>3, <1>4, <1>d, <2>1
  <2>3. Promise!Mount(n, d)
    BY <1>3, <2>1, <2>2, PromiseConf
  <2> QED  BY <2>3 DEF EditOne
<1>6. CASE Unmounts(c)
  <2>1. PICK d \in Dev : Stale(n, d) /\ c.cfg = [cfg EXCEPT !.devs[d] = "none"]
    BY <1>0, <1>6 DEF Unmounts
  <2>2. Conf' = [Conf EXCEPT ![n].devs[d] = "none"]
    BY <1>3, <1>4, <1>d, <2>1
  <2>3. Promise!Unmount(n, d)
    BY <1>0, <1>3, <2>1, <2>2, PromiseConf DEF Stale
  <2> QED  BY <2>3 DEF EditOne
<1>7. CASE Sets(p, c)
  <2>1. PICK on \in BOOLEAN : c.cfg = [cfg EXCEPT !.updates = on]
    BY <1>0, <1>7 DEF Sets
  <2>2. CASE on = cfg.updates
    <3>1. c.cfg = cfg
      BY <1>1, <2>1, <2>2 DEF Config
    <3> QED  BY <1>4, <3>1
  <2>3. CASE on = ~cfg.updates
    <3>1. c.cfg = [Conf[n] EXCEPT !.updates = ~Conf[n].updates]
      BY <1>3, <2>1, <2>3, Zenon
    <3>2. Conf' = [Conf EXCEPT ![n].updates = ~@]
      BY <1>4, <3>1, Zenon
    <3>3. Promise!Flag(n)
      BY <1>3, <3>2, PromiseConf
    <3> QED  BY <3>3 DEF EditOne
  <2>4. on = cfg.updates \/ on = ~cfg.updates
    <3>1. cfg.updates \in BOOLEAN
      BY <1>1 DEF Config
    <3> QED  BY <3>1
  <2> QED  BY <2>2, <2>3, <2>4
<1> QED  BY <1>1, <1>5, <1>6, <1>7 DEF Edits

LEMMA StepIsEdit ==
  ASSUME EditInv, TypeInv', NEW p \in Procs, Step(p)
  PROVE  (\E n \in Names : EditOne(n)) \/ Conf' = Conf
<1>0. TypeInv /\ Effect(p) /\ Now(p).ct \in Names
  <2>1. TypeInv /\ todo[p] # <<>>
    BY StepMoves DEF EditInv
  <2> QED  BY <2>1, NowIsCall, StepEffect DEF Call
<1>1. PICK n \in Names : n = Now(p).ct
  BY <1>0
<1>2. \A m \in Names \ {n} : ct'[m] = ct[m]
  BY <1>0, <1>1 DEF Effect, Boots, Halts, Deletes, Makes, Puts, Registers, Opens, Loads,
              TypeInv, TypeOK, LxdTypeOK
<1>3. CASE Makes(p)
  BY <1>0, <1>1, <1>3, MakeEdits
<1>4. CASE Puts(p)
  BY <1>0, <1>1, <1>4, PutIsEdit
<1>5. CASE Present(n) /\ ~Present(n)'
  BY <1>0, <1>2, <1>5, GoneEdits
<1>6. CASE ~Puts(p) /\ Present(n) /\ Present(n)'
  <2>1. Conf'[n] = Conf[n]
    BY <1>0, <1>1, <1>6, OthersKeepConfig DEF Conf
  <2> QED  BY <1>2, <2>1, ConfChanges
<1>7. CASE ~Makes(p) /\ ~Present(n)
  <2>1. ~Present(n)'
    <3>1. ct \in [Names -> Container]
      BY <1>0 DEF TypeInv, TypeOK, LxdTypeOK
    <3>2. Boots(p) \/ Halts(p) \/ Deletes(p) => FALSE
      BY <1>1, <1>7 DEF Boots, Halts, Deletes, Present
    <3> QED  BY <1>0, <1>1, <1>7, <3>1, <3>2 DEF Effect, Puts, Registers, Opens, Loads, Present
  <2>2. Conf'[n] = Conf[n]
    BY <1>0, <1>1, <1>7, <2>1 DEF Conf
  <2> QED  BY <1>2, <2>2, ConfChanges
<1> QED  BY <1>0, <1>1, <1>3, <1>4, <1>5, <1>6, <1>7

(* With one command at a time, the commands implement Targets: a step maps  *)
(* to one whole edit of one container, or to none.  The GET and the PUT of  *)
(* a device change are never separated by a change that the PUT would undo, *)
(* no device that is still there on the host is unmounted, none is mounted  *)
(* over another, and a driver directory only for one that is in use no      *)
(* longer.                                                                  *)
THEOREM EditsImplemented ==
  ASSUME Exclusive, HomesThere
  PROVE  Spec => EditsAreWhole
<1>1. Init => EditInv
  BY EditInit
<1>2. EditInv /\ [Next]_vars => EditInv'
  BY EditNext
<1>3. EditInv /\ EditInv' /\ [Next]_vars =>
        \/ Promise!Edits \/ Promise!HostChanges
        \/ UNCHANGED <<[n \in Names |-> IF Present(n) THEN ct[n].cfg
                                                      ELSE [click |-> FALSE]], host, nv>>
  <2> SUFFICES ASSUME EditInv, EditInv', [Next]_vars
               PROVE  \/ Promise!Edits \/ Promise!HostChanges
                      \/ UNCHANGED <<Conf, host, nv>>
    BY DEF Conf
  <2>1. TypeInv /\ TypeInv'
    BY DEF EditInv
  <2>2. ASSUME NEW p \in Procs, Step(p)
        PROVE  Promise!Edits \/ UNCHANGED <<Conf, host, nv>>
    <3>1. host' = host /\ nv' = nv
      BY <2>2 DEF Step
    <3>2. (\E n \in Names : EditOne(n)) \/ Conf' = Conf
      BY <2>1, <2>2, StepIsEdit
    <3>3. ASSUME NEW n \in Names, EditOne(n) PROVE Promise!Edits
      BY <3>1, <3>3, Zenon DEF EditOne, Promise!Edits
    <3> QED  BY <3>1, <3>2, <3>3
  <2>3. ASSUME NEW p \in Procs, Invoke(p) \/ Break(p)
        PROVE  UNCHANGED <<Conf, host, nv>>
    <3>1. ct' = ct
      BY <2>1, <2>3, Invoked, BrokenOff
    <3>2. host' = host /\ nv' = nv
      BY <2>3 DEF Invoke, Break, world
    <3> QED  BY <3>1, <3>2 DEF Conf, Present
  <2>4. CASE Replug \/ UpgradeDriver
    <3>1. Conf' = Conf
      BY <2>4 DEF Replug, UpgradeDriver, ChangeHost, server, Conf, Present
    <3>2. nv' \in Drivers \cup {"none"}
      BY <2>1 DEF TypeInv, TypeOK, LxdTypeOK
    <3>3. \/ \E x \in Cards \cup NvNodes : host' = (host \ {x}) \cup ({x} \ host)
          \/ \E d \in Drivers : host' = (host \ {nv}) \cup {d}
      <4>1. CASE Replug
        <5>1. PICK x \in Cards \cup NvNodes :
                 host' = IF x \in host THEN host \ {x} ELSE host \cup {x}
          BY <4>1 DEF Replug
        <5>2. host' = (host \ {x}) \cup ({x} \ host)
          BY <5>1
        <5> QED  BY <5>2
      <4>2. CASE UpgradeDriver
        BY <4>2 DEF UpgradeDriver
      <4> QED  BY <2>4, <4>1, <4>2
    <3> QED  BY <3>1, <3>2, <3>3 DEF Promise!HostChanges, Conf
  <2>5. CASE UNCHANGED vars
    BY <2>5 DEF vars, Conf, Present
  <2> QED  BY <2>2, <2>3, <2>4, <2>5 DEF Next
<1> QED  BY <1>1, <1>2, <1>3, PTL DEF Spec, EditsAreWhole, Promise!Spec

--------------------------------------------------------------------------------
(* autosetup: a container is as it should be, or its boot is still to come. *)
Restarted(n) == ct[n].status # "Frozen" /\ (ct[n].status = "Stopped" => ~Startable(n))

Halting == {"stop", "halt"}
Booting == {"boot", "start", "unfreeze"}
Bridging == {"bridge", "netcreate"}
SetupOps == Halting \cup Booting \cup Bridging \cup {"profile"} \cup NicOps

Due(p, n) == \E c \in Calls(p) : c.op \in Booting /\ c.ct = n

(* What a call of an autosetup is, and what it knows of its container.      *)
SetupCall(c) ==
    /\ c.op \in SetupOps /\ c.err \in {"fail", "skip"}
    /\ c.op \in Bridging => c.err = "fail"
    /\ c.op = "start" => ct[c.ct].status = "Stopped"
    /\ c.op = "unfreeze" => ct[c.ct].status = "Frozen"

(* Behind its listing: a container that is still to be stopped is started   *)
(* again later, the bridge is there or will be, and every container that    *)
(* was listed is up again or will be.                                       *)
StopsFirst(p) ==
    \A i \in DOMAIN todo[p] : todo[p][i].op \in Halting =>
        \E j \in DOMAIN todo[p] :
            j > i /\ todo[p][j].op = "boot" /\ todo[p][j].ct = todo[p][i].ct
StartsNow(p) == \A i \in DOMAIN todo[p] : todo[p][i].op \in {"start", "unfreeze"} => i = 1

Restores(p) ==
    /\ \A c \in Calls(p) : SetupCall(c)
    /\ StopsFirst(p) /\ StartsNow(p)
    /\ BridgeConfigured \/ \E c \in Calls(p) : c.op \in Bridging
    /\ \A n \in halted[p] : Restarted(n) \/ Due(p, n)

Lists(p) == Len(todo[p]) = 1 /\ Now(p).op = "list"

SetupInv ==
    /\ TypeInv /\ Alone
    /\ \A p \in Procs : cmd[p].kind = "autosetup" /\ Active(p) => Lists(p) \/ Restores(p)

--------------------------------------------------------------------------------
(* The actions behind the calls of an autosetup; only its listing changes   *)
(* what is to be started again.                                             *)
LEMMA StepOfSetup ==
  ASSUME NEW p, Step(p)
  PROVE  /\ Now(p).op = "boot" => BootContainerSync(p)
         /\ Now(p).op \in {"start", "unfreeze"} => Start(p)
         /\ Now(p).op = "list" => ListContainers(p)
         /\ Now(p).op = "profile" => ProfileConfig(p)
         /\ Now(p).op \in {"nicdel", "nicadd"} => ProfileDevice(p)
         /\ Now(p).op = "profput" => ProfilePut(p)
         /\ Now(p).op # "list" => halted' = halted
         /\ host' = host
<1> DEFINE Of(A, ops) == A => Now(p).op \in ops
<1> USE DEF At, Now, server
<1>1. CASE SyncStep(p)
  <2>1. /\ Of(StopContainerSync(p), {"stop"}) /\ Of(Stop(p), {"halt"})
        /\ Of(Delete(p), {"delete"}) /\ Of(UpdateConfigSync(p), {"update"})
        /\ Of(Ldconfig(p), {"ldconfig"})
        /\ Of(BootContainerSync(p), {"boot"}) /\ Of(Start(p), {"start", "unfreeze"})
    BY DEF BootContainerSync, Start, StopContainerSync, Stop, Delete, UpdateConfigSync,
           Ldconfig
  <2>2. /\ Of(AddDeviceSync(p), {"adddev"}) /\ Of(RemoveDeviceSync(p), {"rmdev"})
        /\ Of(SetContainerConfig(p), {"setflag"}) /\ Of(Put(p), {"put"})
    BY DEF AddDeviceSync, RemoveDeviceSync, SetContainerConfig, Put
  <2>3. halted' = halted
    BY <1>1
    DEF SyncStep, BootContainerSync, Start, StopContainerSync, Stop, Delete,
        UpdateConfigSync, Ldconfig, AddDeviceSync, RemoveDeviceSync, SetContainerConfig,
        Edit, Put
  <2> QED  BY <1>1, <2>1, <2>2, <2>3 DEF SyncStep, Step
<1>2. CASE FixingStep(p)
  <2>1. /\ Of(Fix(p), {"fix"}) /\ Of(Check(p), {"check"}) /\ Of(FixAccess(p), {"access"})
        /\ Of(FixDevices(p), {"devices"}) /\ Of(FixDRI(p), {"dri"})
        /\ Of(FixNvidia(p), {"nvidia"}) /\ Of(WriteLDConf(p), {"ldconf"})
        /\ Of(UpdateTargets(p), {"targets"})
    BY DEF Fix, Check, FixAccess, FixDevices, FixDRI, FixNvidia, WriteLDConf,
           UpdateTargets
  <2>2. halted' = halted
    BY <1>2
    DEF FixingStep, Fix, Check, FixAccess, FixDevices, FixDRI, FixNvidia, WriteLDConf,
        UpdateTargets
  <2> QED  BY <1>2, <2>1, <2>2 DEF FixingStep, Step
<1>3. CASE NetworkStep(p)
  <2>1. /\ Of(CreateBridgeNeeded(p), {"bridge"}) /\ Of(LxdBridgeConfigured(p), {"hasbridge"})
        /\ Of(NetworkCreate(p), {"netcreate"}) /\ Of(ProfileConfig(p), {"profile"})
        /\ Of(ProfileDevice(p), {"nicdel", "nicadd"}) /\ Of(ProfilePut(p), {"profput"})
        /\ Of(ListContainers(p), {"list"})
    BY DEF CreateBridgeNeeded, LxdBridgeConfigured, NetworkCreate, ProfileConfig,
           ProfileDevice, ProfilePut, ListContainers
  <2>2. halted' = halted \/ ListContainers(p)
    BY <1>3
    DEF NetworkStep, CreateBridgeNeeded, LxdBridgeConfigured, NetworkCreate,
        ProfileConfig, ProfileDevice, ProfilePut
  <2> QED  BY <1>3, <2>1, <2>2 DEF NetworkStep, Step
<1>4. CASE InitContainer(p) \/ KnownUser(p) \/ GroupAdd(p) \/ UserAdd(p)
  BY <1>4 DEF InitContainer, KnownUser, GroupAdd, UserAdd, Step
<1> QED  BY <1>1, <1>2, <1>3, <1>4 DEF Step

(* The calls behind the current one stay what they are.                     *)
LEMMA BehindStays ==
  ASSUME TypeInv, NEW p \in Procs, todo[p] # <<>>, NEW ts \in Seq(Call), Continue(p, ts)
  PROVE  \A c \in Later(p) : c \in Calls(p)'
<1>1. /\ Len(ts) \in Nat /\ Len(todo[p]) \in Nat \ {0}
      /\ DOMAIN todo[p] = 1..Len(todo[p])
      /\ DOMAIN todo'[p] = 1..(Len(ts) + Len(todo[p]) - 1)
      /\ \A i \in DOMAIN todo'[p] : i > Len(ts) =>
           i - Len(ts) + 1 \in DOMAIN todo[p] /\ todo'[p][i] = todo[p][i - Len(ts) + 1]
  BY Rest
<1>2. ASSUME NEW i \in DOMAIN todo[p] \ {1} PROVE todo[p][i] \in Calls(p)'
  <2> DEFINE k == i + Len(ts) - 1
  <2>1. k \in DOMAIN todo'[p] /\ k > Len(ts) /\ k - Len(ts) + 1 = i
    BY <1>1, <1>2
  <2> QED  BY <1>1, <2>1 DEF Calls
<1> QED  BY <1>2 DEF Later

--------------------------------------------------------------------------------
(* What a call of an autosetup is replaced by, ...                          *)
SetupNext(t, c, i) ==
    /\ c.err \in {"fail", "skip"}
    /\ \/ t.op = "stop" /\ c.op = "halt" /\ c.ct = t.ct
       \/ /\ t.op = "boot" /\ c.ct = t.ct /\ i = 1
          /\ \/ c.op = "start" /\ ct[c.ct].status = "Stopped"
             \/ c.op = "unfreeze" /\ ct[c.ct].status = "Frozen"
       \/ t.op = "bridge" /\ c.op = "netcreate" /\ c.err = "fail"
       \/ t.op = "bridge" /\ c.op = "profile"
       \/ t.op \in {"profile", "nicdel", "nicadd"} /\ c.op \in NicOps

(* ... and what it has achieved: the bridge or its container is there, or   *)
(* one of the calls that follow will see to it.                             *)
SetupMove(p) ==
    \E ts \in Seq(Call) :
        /\ Continue(p, ts)
        /\ \A i \in DOMAIN ts : SetupNext(Now(p), ts[i], i)
        /\ ts # <<>> => UNCHANGED ct
        /\ Now(p).op \in Bridging =>
              BridgeConfigured' \/ \E i \in DOMAIN ts : ts[i].op \in Bridging
        /\ Now(p).op \in Booting =>
              \/ \A n \in {Now(p).ct} : Restarted(n)'
              \/ \E i \in DOMAIN ts : ts[i].op \in Booting /\ ts[i].ct = Now(p).ct

LEMMA NoMore ==
  ASSUME NEW p, Continue(p, <<>>),
         Now(p).op \in Bridging => BridgeConfigured',
         Now(p).op \in Booting => \A n \in {Now(p).ct} : Restarted(n)'
  PROVE  SetupMove(p)
<1>1. <<>> \in Seq(Call) /\ DOMAIN <<>> = {}
  OBVIOUS
<1> QED  BY <1>1 DEF SetupMove

LEMMA OneMore ==
  ASSUME NEW p, NEW c \in Call, Continue(p, <<c>>), SetupNext(Now(p), c, 1), UNCHANGED ct,
         Now(p).op \in Bridging => c.op \in Bridging,
         Now(p).op \in Booting => c.op \in Booting /\ c.ct = Now(p).ct
  PROVE  SetupMove(p)
<1>1. PICK ts : ts = <<c>>
  OBVIOUS
<1>2. ts \in Seq(Call) /\ DOMAIN ts = {1} /\ ts[1] = c
  BY <1>1
<1> QED  BY <1>1, <1>2 DEF SetupMove

LEMMA TwoMore ==
  ASSUME NEW p, NEW ts \in Seq(Call), Len(ts) = 2, Continue(p, ts), UNCHANGED ct,
         SetupNext(Now(p), ts[1], 1), SetupNext(Now(p), ts[2], 2),
         Now(p).op \in Bridging => ts[1].op \in Bridging, Now(p).op \notin Booting
  PROVE  SetupMove(p)
<1>1. DOMAIN ts = {1, 2}
  OBVIOUS
<1> QED  BY <1>1 DEF SetupMove

(* Without faults a failed call ends an autosetup, or is a refused start.   *)
LEMMA SetupRaise ==
  ASSUME TypeInv, NEW p \in Procs, Raise(p), SetupCall(Now(p)),
         Now(p).op \in Booting => \A n \in {Now(p).ct} : Restarted(n)'
  PROVE  res'[p] = "error" \/ SetupMove(p)
<1>1. CASE Now(p).err = "fail"
  BY <1>1 DEF Raise, TypeInv, TypeOK
<1>2. CASE Now(p).err = "skip"
  BY <1>2, NoMore DEF Raise, SetupCall
<1> QED  BY <1>1, <1>2 DEF SetupCall

LEMMA StopMoves ==
  ASSUME TypeInv, NEW p \in Procs, Step(p), ~Faulty(p), SetupCall(Now(p)),
         Now(p).op \in Halting
  PROVE  res'[p] = "error" \/ SetupMove(p)
<1> DEFINE t == Now(p)
<1>0. /\ todo[p] # <<>> /\ t \in Call /\ ~Faulty(p)
      /\ t.op \notin Bridging /\ t.op \notin Booting
  BY StepOf, NowIsCall DEF Halting, Bridging, Booting
<1>1. CASE Raise(p)
  BY <1>0, <1>1, SetupRaise
<1>2. CASE Continue(p, <<>>)
  BY <1>0, <1>2, NoMore
<1>3. CASE t.op = "stop" /\ ~Raise(p) /\ ~Continue(p, <<>>)
  <2>1. Continue(p, <<Do("halt", t.ct, t.err)>>) /\ UNCHANGED ct
    BY <1>3, StepOf DEF StopContainerSync, server
  <2>2. /\ Do("halt", t.ct, t.err) \in Call
        /\ Do("halt", t.ct, t.err).op = "halt"
        /\ Do("halt", t.ct, t.err).ct = t.ct
        /\ Do("halt", t.ct, t.err).err = t.err
    BY <1>0, DoType DEF PlainOps, Ops, Call, Do
  <2>3. SetupNext(t, Do("halt", t.ct, t.err), 1)
    BY <1>3, <2>2 DEF SetupNext, SetupCall
  <2> QED  BY <1>0, <2>1, <2>2, <2>3, OneMore
<1>4. CASE t.op = "halt"
  BY <1>0, <1>1, <1>2, <1>4, StepOf DEF Stop, Answer, Refuse
<1> QED  BY <1>1, <1>2, <1>3, <1>4 DEF Halting

LEMMA BootMoves ==
  ASSUME TypeInv, NEW p \in Procs, Step(p), ~Faulty(p), SetupCall(Now(p)),
         Now(p).op \in Booting
  PROVE  res'[p] = "error" \/ SetupMove(p)
<1> DEFINE t == Now(p)
<1>0. /\ todo[p] # <<>> /\ t \in Call /\ t.ct \in Names /\ ~Faulty(p)
      /\ t.op \notin Bridging /\ ct \in [Names -> Container] /\ ct[t.ct] \in Container
  BY StepOf, NowIsCall DEF TypeInv, TypeOK, LxdTypeOK, Call, Bridging, Booting
<1>1. CASE t.op = "boot"
  <2> DEFINE s == ct[t.ct].status
  <2>1. BootContainerSync(p) /\ UNCHANGED ct
    BY <1>1, StepOfSetup DEF BootContainerSync, server
  <2>2. CASE s \in {"Absent", "Running"}
    <3>1. \A n \in {t.ct} : Restarted(n)'
      BY <2>1, <2>2 DEF Restarted
    <3>2. Raise(p) \/ Continue(p, <<>>)
      BY <2>1, <2>2 DEF BootContainerSync
    <3> QED  BY <1>0, <3>1, <3>2, SetupRaise, NoMore
  <2>3. ASSUME NEW op \in {"start", "unfreeze"}, Continue(p, <<Do(op, t.ct, t.err)>>),
               op = "start" => s = "Stopped", op = "unfreeze" => s = "Frozen"
        PROVE  SetupMove(p)
    <3>1. /\ Do(op, t.ct, t.err) \in Call
          /\ Do(op, t.ct, t.err).op = op
          /\ Do(op, t.ct, t.err).ct = t.ct
          /\ Do(op, t.ct, t.err).err = t.err
      BY <1>0, DoType DEF PlainOps, Ops, Call, Do
    <3>2. SetupNext(t, Do(op, t.ct, t.err), 1)
      BY <1>1, <2>3, <3>1 DEF SetupNext, SetupCall
    <3> QED  BY <1>0, <2>1, <2>3, <3>1, <3>2, OneMore DEF Booting
  <2>4. CASE s = "Stopped"
    BY <2>1, <2>3, <2>4 DEF BootContainerSync
  <2>5. CASE s = "Frozen"
    BY <2>1, <2>3, <2>5 DEF BootContainerSync
  <2> QED  BY <1>0, <2>2, <2>4, <2>5 DEF Container
<1>2. CASE t.op \in {"start", "unfreeze"}
  <2>1. Start(p) /\ host' = host
    BY <1>2, StepOfSetup
  <2>2. CASE ct' = [ct EXCEPT ![t.ct].status = "Running"] /\ Answer(p)
    <3>1. ct'[t.ct].status = "Running"
      BY <1>0, <2>2 DEF Container
    <3>2. \A n \in {t.ct} : Restarted(n)'
      BY <3>1 DEF Restarted
    <3> QED  BY <1>0, <2>2, <3>2, NoMore DEF Answer
  <2>3. CASE Refuse(p) /\ (t.op = "start" => ~Startable(t.ct)) /\ (t.op = "unfreeze" => ct[t.ct].status # "Frozen")
    <3>1. t.op = "start" /\ ct[t.ct].status = "Stopped" /\ ct' = ct /\ Raise(p)
      BY <1>2, <2>3 DEF SetupCall, Refuse, server
    <3>2. \A n \in {t.ct} : Restarted(n)'
      BY <2>1, <2>3, <3>1 DEF Restarted, Startable
    <3> QED  BY <3>1, <3>2, SetupRaise
  <2> QED
    BY <1>2, <2>1, <2>2, <2>3 DEF Start, At, Now
<1> QED  BY <1>1, <1>2 DEF Booting

LEMMA NetMoves ==
  ASSUME TypeInv, NEW p \in Procs, Step(p), ~Faulty(p), SetupCall(Now(p)),
         Now(p).op \in Bridging \cup {"profile"} \cup NicOps
  PROVE  res'[p] = "error" \/ SetupMove(p)
<1> DEFINE t == Now(p)
<1>0. /\ todo[p] # <<>> /\ t \in Call /\ t.ct \in Names /\ ~Faulty(p)
      /\ t.op \notin Booting /\ {"fail", "skip"} \subseteq OnError /\ t.err \in OnError
      /\ net \in Net
  BY StepOf, NowIsCall
  DEF TypeInv, TypeOK, LxdTypeOK, Call, Bridging, Booting, NicOps, OnError
<1>r. CASE Raise(p)
  BY <1>0, <1>r, SetupRaise
<1>1. CASE t.op = "bridge"
  <2>1. CreateBridgeNeeded(p) /\ UNCHANGED <<ct, net>>
    BY <1>1, StepOf DEF CreateBridgeNeeded, server
  <2>2. CASE Continue(p, <<>>) /\ BridgeConfigured
    <3>1. BridgeConfigured'
      BY <2>1, <2>2 DEF BridgeConfigured
    <3> QED  BY <1>0, <2>2, <3>1, NoMore
  <2>3. CASE Continue(p, <<Do("netcreate", t.ct, "fail"), Do("profile", t.ct, "fail")>>)
    <3>1. Do("netcreate", t.ct, "fail") \in Call /\ Do("profile", t.ct, "fail") \in Call
      BY <1>0, DoType DEF PlainOps, Ops
    <3>2. /\ Do("netcreate", t.ct, "fail").op = "netcreate"
          /\ Do("netcreate", t.ct, "fail").err = "fail"
          /\ Do("profile", t.ct, "fail").op = "profile"
          /\ Do("profile", t.ct, "fail").err = "fail"
      BY DEF Do
    <3>3. /\ SetupNext(t, Do("netcreate", t.ct, "fail"), 1)
          /\ SetupNext(t, Do("profile", t.ct, "fail"), 2)
      BY <1>1, <3>2 DEF SetupNext
    <3>4. PICK ts : ts = <<Do("netcreate", t.ct, "fail"), Do("profile", t.ct, "fail")>>
      OBVIOUS
    <3>5. /\ ts \in Seq(Call) /\ Len(ts) = 2 /\ ts[1] = Do("netcreate", t.ct, "fail")
          /\ ts[2] = Do("profile", t.ct, "fail")
      BY <3>1, <3>4
    <3> QED  BY <1>0, <2>1, <2>3, <3>2, <3>3, <3>4, <3>5, TwoMore DEF Bridging
  <2> QED  BY <1>0, <2>1, <2>2, <2>3 DEF CreateBridgeNeeded
<1>2. CASE t.op = "netcreate" /\ ~Raise(p)
  <2>1. Continue(p, <<>>) /\ net' = [net EXCEPT !.bridges = @ \cup {"sdkbr0"}]
    BY <1>0, <1>2, StepOf DEF NetworkCreate, Answer, Refuse
  <2>2. BridgeConfigured'
    BY <1>0, <2>1 DEF BridgeConfigured, Net
  <2> QED  BY <1>0, <2>1, <2>2, NoMore
<1>3. CASE t.op = "profile"
  <2> DEFINE add == DoVal("nicadd", t.ct, "sdkbr0", "fail")
             del == Do("nicdel", t.ct, "fail")
  <2>1. ProfileConfig(p)
    BY <1>3, StepOfSetup
  <2>2. add \in Call /\ del \in Call
    BY <1>0, DoType, DoValType DEF PlainOps, Ops, NicOps, Bridge, Val
  <2>3. add.op = "nicadd" /\ add.err = "fail" /\ del.op = "nicdel" /\ del.err = "fail"
    BY DEF DoVal, Do
  <2>4. SetupNext(t, add, 1) /\ SetupNext(t, add, 2) /\ SetupNext(t, del, 1)
    BY <1>3, <2>3 DEF SetupNext, NicOps
  <2>5. UNCHANGED ct /\ t.op \notin Bridging /\ t.op \notin Booting
    BY <1>3, <2>1 DEF ProfileConfig, server, Bridging, Booting
  <2>6. CASE Continue(p, <<add>>)
    BY <2>2, <2>4, <2>5, <2>6, OneMore
  <2>7. CASE Continue(p, <<del>> \o <<add>>)
    <3> HIDE DEF del, add
    <3>1. PICK ts : ts = <<del>> \o <<add>>
      OBVIOUS
    <3>2. ts \in Seq(Call) /\ Len(ts) = 2 /\ ts[1] = del /\ ts[2] = add
      <4>1. PICK s, r : s = <<del>> /\ r = <<add>>
        OBVIOUS
      <4>2. /\ s \in Seq(Call) /\ Len(s) = 1 /\ s[1] = del
            /\ r \in Seq(Call) /\ Len(r) = 1 /\ r[1] = add
        BY <2>2, <4>1
      <4>3. ts = s \o r
        BY <3>1, <4>1
      <4>4. /\ s \o r \in Seq(Call) /\ Len(s \o r) = Len(s) + Len(r)
            /\ \A i \in 1..Len(s) + Len(r) :
                 (s \o r)[i] = IF i <= Len(s) THEN s[i] ELSE r[i - Len(s)]
        BY <4>2, ConcatProperties, Zenon
      <4> QED  BY <4>2, <4>3, <4>4
    <3> QED  BY <2>4, <2>5, <2>7, <3>1, <3>2, TwoMore
  <2> QED  BY <2>1, <2>6, <2>7 DEF ProfileConfig
<1>4. CASE t.op \in {"nicdel", "nicadd"} /\ ~Raise(p)
  <2> DEFINE put == DoVal("profput", t.ct, t.val, t.err)
  <2>1. ProfileDevice(p)
    BY <1>4, StepOfSetup
  <2>2. Continue(p, <<put>>) /\ UNCHANGED ct
    BY <1>4, <2>1 DEF ProfileDevice, server
  <2>3. put \in Call
    <3>1. t.val \in Val /\ t.val \in Bridge \cup {"none"}
      BY <1>0, <1>4 DEF Call, NicOps
    <3> QED  BY <1>0, <3>1, DoValType DEF PlainOps, Ops
  <2>4. put.op = "profput" /\ put.err = t.err
    BY DEF DoVal, Do
  <2>5. SetupNext(t, put, 1)
    BY <1>4, <2>4 DEF SetupNext, NicOps, SetupCall
  <2> QED  BY <1>4, <2>2, <2>3, <2>5, OneMore DEF Bridging, Booting
<1>5. CASE t.op = "profput"
  <2>1. ProfilePut(p)
    BY <1>5, StepOfSetup
  <2> QED  BY <1>0, <1>5, <2>1, NoMore DEF ProfilePut, Answer, Bridging, Booting
<1> QED  BY <1>r, <1>1, <1>2, <1>3, <1>4, <1>5 DEF Bridging, NicOps

LEMMA SetupMoves ==
  ASSUME TypeInv, NEW p \in Procs, Step(p), ~Faulty(p), SetupCall(Now(p))
  PROVE  res'[p] = "error" \/ SetupMove(p)
  BY StopMoves, BootMoves, NetMoves DEF SetupCall, SetupOps

--------------------------------------------------------------------------------
(* The requests of an autosetup on containers and bridges.                  *)
LEMMA SetupEffect ==
  ASSUME TypeInv, NEW p \in Procs, Step(p), SetupCall(Now(p)), Now(p).ct \in Names
  PROVE  /\ \A n \in Names \ {Now(p).ct} : ct'[n] = ct[n]
         /\ ct' # ct => Now(p).op \in {"halt", "start", "unfreeze"}
         /\ BridgeConfigured => BridgeConfigured'
<1>1. ct \in [Names -> Container] /\ net \in Net
  BY DEF TypeInv, TypeOK, LxdTypeOK
<1>2. Effect(p) /\ (UNCHANGED net \/ Bridges(p) \/ Attaches(p))
  BY StepEffect
<1>3. Now(p).op \in {"stop", "halt", "boot", "start", "unfreeze", "bridge", "netcreate",
                     "profile"} \cup NicOps
  BY DEF SetupCall, SetupOps, Halting, Booting, Bridging
<1>4. UNCHANGED ct \/ Boots(p) \/ Halts(p)
  BY <1>2, <1>3 DEF Effect, Boots, Halts, Deletes, Makes, Puts, Registers, Opens, Loads, NicOps
<1>5. /\ \A n \in Names \ {Now(p).ct} : ct'[n] = ct[n]
      /\ ct' # ct => Now(p).op \in {"halt", "start", "unfreeze"}
  BY <1>1, <1>4 DEF Boots, Halts
<1>6. BridgeConfigured => BridgeConfigured'
  BY <1>1, <1>2 DEF Bridges, Attaches, BridgeConfigured, Net
<1> QED  BY <1>5, <1>6

(* Every step of an autosetup, from its listing on, keeps what it is to     *)
(* restore, to the end.                                                     *)
LEMMA RestoresNext ==
  ASSUME TypeInv, MaxFaults = 0, NEW p \in Procs, Step(p), Restores(p)
  PROVE  res'[p] = "error" \/ Restores(p)'
<1> DEFINE t == Now(p)
<1>1. /\ todo[p] # <<>> /\ t \in Calls(p) /\ t \in Call /\ t = todo[p][1]
      /\ 1 \in DOMAIN todo[p] /\ SetupCall(t) /\ t.ct \in Names
  BY StepOf, NowIsCall DEF Restores, Call
<1>2. CASE res'[p] = "error"
  BY <1>2
<1>3. CASE SetupMove(p)
  <2>1. PICK ts \in Seq(Call) :
        /\ Continue(p, ts)
        /\ \A i \in DOMAIN ts : SetupNext(Now(p), ts[i], i)
        /\ ts # <<>> => UNCHANGED ct
        /\ Now(p).op \in Bridging =>
              BridgeConfigured' \/ \E i \in DOMAIN ts : ts[i].op \in Bridging
        /\ Now(p).op \in Booting =>
              \/ \A n \in {Now(p).ct} : Restarted(n)'
              \/ \E i \in DOMAIN ts : ts[i].op \in Booting /\ ts[i].ct = Now(p).ct
    BY <1>3 DEF SetupMove
  <2> DEFINE l == Len(ts)
  <2>2. /\ l \in Nat /\ Len(todo[p]) \in Nat \ {0}
        /\ DOMAIN todo[p] = 1..Len(todo[p]) /\ DOMAIN ts = 1..l
        /\ DOMAIN todo'[p] = 1..(l + Len(todo[p]) - 1)
        /\ \A i \in DOMAIN todo'[p] : i <= l => i \in DOMAIN ts /\ todo'[p][i] = ts[i]
        /\ \A i \in DOMAIN todo'[p] : i > l =>
             i - l + 1 \in DOMAIN todo[p] /\ todo'[p][i] = todo[p][i - l + 1]
    BY <1>1, <2>1, Rest
  <2>3. \A c \in Later(p) : c \in Calls(p)'
    BY <1>1, <2>1, BehindStays
  <2>4. \A i \in DOMAIN ts : ts[i] \in Calls(p)'
    <3> SUFFICES ASSUME NEW i \in DOMAIN ts PROVE ts[i] \in Calls(p)'
      OBVIOUS
    <3>1. i \in DOMAIN todo'[p] /\ i <= l
      BY <2>2
    <3> QED  BY <2>2, <3>1 DEF Calls
  <2>5. \A c \in Calls(p) : c = t \/ c \in Later(p)
    BY <1>1 DEF Calls, Later
  <2>6. /\ \A n \in Names \ {t.ct} : ct'[n] = ct[n]
        /\ ct' # ct => t.op \in {"halt", "start", "unfreeze"}
        /\ BridgeConfigured => BridgeConfigured'
        /\ host' = host
    BY <1>1, SetupEffect, StepOfSetup
  <2>7. \A c \in Calls(p)' : SetupCall(c)'
    <3>1. ASSUME NEW c, SetupCall(c), c.op \notin {"start", "unfreeze"}
          PROVE  SetupCall(c)'
      BY <3>1 DEF SetupCall
    <3>2. ASSUME NEW i \in DOMAIN ts, NEW c, c = ts[i] PROVE SetupCall(c)'
      <4>1. SetupNext(t, c, i) /\ ct' = ct
        BY <2>1, <3>2
      <4> QED
        BY <4>1 DEF SetupNext, SetupCall, SetupOps, Halting, Booting, Bridging, NicOps
    <3>3. ASSUME NEW i \in DOMAIN todo[p] \ {1} PROVE SetupCall(todo[p][i]) /\ todo[p][i].op \notin {"start", "unfreeze"}
      BY <3>3 DEF Restores, Calls, StartsNow
    <3>4. ASSUME NEW i \in DOMAIN todo'[p], NEW c, c = todo'[p][i] PROVE SetupCall(c)'
      <4>1. CASE i <= l
        BY <2>2, <3>2, <3>4, <4>1
      <4>2. CASE i > l
        <5>1. i - l + 1 \in DOMAIN todo[p] \ {1} /\ c = todo[p][i - l + 1]
          BY <2>2, <3>4, <4>2
        <5> QED  BY <3>1, <3>3, <5>1
      <4> QED  BY <2>2, <4>1, <4>2
    <3> QED  BY <3>4 DEF Calls
  <2>8. StopsFirst(p)'
    <3> SUFFICES ASSUME NEW i \in DOMAIN todo'[p], todo'[p][i].op \in Halting
                 PROVE  \E j \in DOMAIN todo'[p] :
                            /\ j > i /\ todo'[p][j].op = "boot"
                            /\ todo'[p][j].ct = todo'[p][i].ct
      BY DEF StopsFirst
    <3>1. ASSUME NEW k \in DOMAIN todo[p], todo[p][k].op \in Halting,
                 todo[p][k].ct = todo'[p][i].ct, i < k + l
          PROVE  \E j \in DOMAIN todo'[p] :
                            /\ j > i /\ todo'[p][j].op = "boot"
                            /\ todo'[p][j].ct = todo'[p][i].ct
      <4>1. PICK m \in DOMAIN todo[p] :
                   m > k /\ todo[p][m].op = "boot" /\ todo[p][m].ct = todo[p][k].ct
        BY <3>1 DEF Restores, StopsFirst
      <4>2. PICK a, b, d \in Nat : /\ a = Len(todo[p]) /\ m = b /\ d = i
                                   /\ k \in 1..a /\ b \in 1..a /\ b > k /\ d < k + l
        <5>1. m \in Nat /\ i \in Nat /\ Len(todo[p]) \in Nat
          BY <2>2
        <5> QED  BY <2>2, <3>1, <4>1, <5>1
      <4>3. /\ b + l - 1 \in 1..(l + a - 1) /\ b + l - 1 > l /\ b + l - 1 > d
            /\ (b + l - 1) - l + 1 = b
        <5> HIDE DEF l
        <5>1. l \in Nat
          BY <2>2
        <5> QED  BY <4>2, <5>1
      <4>4. /\ m + l - 1 \in DOMAIN todo'[p] /\ m + l - 1 > l /\ m + l - 1 > i
            /\ (m + l - 1) - l + 1 = m
        BY <2>2, <4>2, <4>3
      <4> QED  BY <2>2, <3>1, <4>1, <4>4
    <3>2. CASE i <= l
      <4>1. i \in DOMAIN ts /\ todo'[p][i] = ts[i] /\ SetupNext(t, ts[i], i)
        BY <2>1, <2>2, <3>2
      <4>2. t.op = "stop" /\ ts[i].ct = t.ct
        BY <4>1 DEF SetupNext, Halting, NicOps
      <4>3. i < 1 + l
        BY <2>2, <3>2
      <4> QED  BY <1>1, <3>1, <4>1, <4>2, <4>3 DEF Halting
    <3>3. CASE i > l
      <4>1. i - l + 1 \in DOMAIN todo[p] /\ todo'[p][i] = todo[p][i - l + 1] /\ i < (i - l + 1) + l
        BY <2>2, <3>3
      <4> QED  BY <3>1, <4>1
    <3> QED  BY <2>2, <3>2, <3>3
  <2>9. StartsNow(p)'
    <3> SUFFICES ASSUME NEW i \in DOMAIN todo'[p], todo'[p][i].op \in {"start", "unfreeze"}
                 PROVE  i = 1
      BY DEF StartsNow
    <3>1. CASE i <= l
      <4>1. SetupNext(t, todo'[p][i], i)
        BY <2>1, <2>2, <3>1
      <4> QED  BY <4>1 DEF SetupNext, NicOps
    <3>2. CASE i > l
      <4>1. i - l + 1 \in DOMAIN todo[p] /\ todo'[p][i] = todo[p][i - l + 1] /\ i - l + 1 # 1
        BY <2>2, <3>2
      <4> QED  BY <4>1 DEF Restores, StartsNow
    <3> QED  BY <2>2, <3>1, <3>2
  <2>10. BridgeConfigured' \/ \E c \in Calls(p)' : c.op \in Bridging
    <3>1. CASE BridgeConfigured
      BY <2>6, <3>1
    <3>2. CASE t.op \in Bridging
      BY <2>1, <2>4, <3>2
    <3>3. CASE \E c \in Later(p) : c.op \in Bridging
      BY <2>3, <3>3
    <3> QED  BY <2>5, <3>1, <3>2, <3>3 DEF Restores
  <2>11. ASSUME NEW n \in halted'[p] PROVE Restarted(n)' \/ Due(p, n)'
    <3>1. n \in halted[p] /\ n \in Names
      <4>1. t.op # "list"
        BY <1>1 DEF SetupCall, SetupOps, Halting, Booting, Bridging, NicOps
      <4>2. halted' = halted
        BY <4>1, StepOfSetup
      <4> QED  BY <4>2 DEF TypeInv, TypeOK
    <3>2. CASE \E c \in Later(p) : c.op \in Booting /\ c.ct = n
      BY <2>3, <3>2 DEF Due
    <3>3. CASE t.op \in Booting /\ t.ct = n
      <4>1. CASE \A m \in {Now(p).ct} : Restarted(m)'
        BY <3>3, <4>1
      <4>2. CASE \E i \in DOMAIN ts : ts[i].op \in Booting /\ ts[i].ct = Now(p).ct
        BY <2>4, <3>3, <4>2 DEF Due
      <4> QED  BY <2>1, <3>3, <4>1, <4>2
    <3>4. CASE Restarted(n) /\ ct'[n] = ct[n]
      BY <2>6, <3>4 DEF Restarted, Startable
    <3>5. CASE n = t.ct /\ t.op = "halt"
      <4>1. PICK j \in DOMAIN todo[p] : j > 1 /\ todo[p][j].op = "boot" /\ todo[p][j].ct = n
        BY <1>1, <3>5 DEF Restores, StopsFirst, Halting
      <4>2. todo[p][j] \in Later(p)
        BY <1>1, <4>1 DEF Later
      <4> QED  BY <3>2, <4>1, <4>2 DEF Booting
    <3>6. Restarted(n) \/ Due(p, n)
      BY <3>1 DEF Restores
    <3> QED
      BY <2>5, <2>6, <3>1, <3>2, <3>3, <3>4, <3>5, <3>6 DEF Due, Booting
  <2> QED  BY <2>7, <2>8, <2>9, <2>10, <2>11 DEF Restores
<1> QED  BY <1>1, <1>2, <1>3, SetupMoves DEF Faulty, TypeInv, TypeOK

--------------------------------------------------------------------------------
(* A listing leaves nothing out.                                            *)
LEMMA ListedAll ==
  ASSUME NEW S, IsFiniteSet(S)
  PROVE  \A x \in S : \E i \in DOMAIN Listed(S) : Listed(S)[i] = x
<1> DEFINE k == Cardinality(S)
<1>1. k \in Nat
  BY FS_CardinalityType
<1>2. \E f \in [1..k -> S] : IsInjective(f)
  <2>1. ExistsBijection(1..k, S)
    BY <1>1, FS_CardinalityType
  <2> QED  BY <2>1 DEF ExistsBijection, Bijection, Injection, IsInjective
<1>3. Listed(S) \in [1..k -> S] /\ IsInjective(Listed(S))
  BY <1>2 DEF Listed, SetToSeq
<1>4. Listed(S) \in Injection(1..k, S)
  BY <1>3 DEF Injection, IsInjective
<1>5. Cardinality(1..k) = k
  <2>1. Cardinality(1..k) = IF 1 > k THEN 0 ELSE k - 1 + 1
    BY <1>1, FS_Interval
  <2> QED  BY <1>1, <2>1
<1>6. Listed(S) \in Surjection(1..k, S)
  BY <1>1, <1>4, <1>5, FS_Injection
<1> QED  BY <1>3, <1>6 DEF Surjection

(* After its listing an autosetup is to stop, and to start again, every     *)
(* container that it found up.                                              *)
LEMMA ListRestores ==
  ASSUME TypeInv, NEW p \in Procs, Step(p), Lists(p)
  PROVE  Restores(p)'
<1> DEFINE t == Now(p)
           up == {n \in Names : ct[n].status \in {"Running", "Frozen"}}
           order == Listed(up)
           stops == [i \in DOMAIN order |-> Do("stop", order[i], "fail")]
           boots == [i \in DOMAIN order |-> Do("boot", order[i], "skip")]
           bridge == <<Do("bridge", t.ct, "fail")>>
<1>1. /\ todo[p] # <<>> /\ t \in Call /\ t.ct \in Names /\ Len(todo[p]) = 1
      /\ ListContainers(p)
  BY StepOf, StepOfSetup, NowIsCall DEF Lists, Call
<1>2. /\ halted' = [halted EXCEPT ![p] = up]
      /\ Continue(p, stops \o bridge \o boots)
  BY <1>1 DEF ListContainers
<1>3. /\ order \in Seq(up) /\ \A n \in up : \E i \in DOMAIN order : order[i] = n
      /\ \A i \in DOMAIN order : order[i] \in up
  <2>1. up \in SUBSET Names
    OBVIOUS
  <2>2. IsFiniteSet(up)
    BY <2>1, LxdAssumption, FS_Subset
  <2> HIDE DEF up
  <2> QED  BY <2>1, <2>2, ListedAll, ListedIn, ListedType
<1>4. halted'[p] = up
  BY <1>2 DEF TypeInv, TypeOK
<1> HIDE DEF order
<1>5. PICK k \in Nat : k = Len(order) /\ DOMAIN order = 1..k
  BY <1>3
<1>6. /\ \A n \in Names : /\ Do("stop", n, "fail") \in Call /\ Do("boot", n, "skip") \in Call
                           /\ Do("bridge", n, "fail") \in Call
  BY DoType DEF PlainOps, Ops, OnError
<1>7. stops \in Seq(Call) /\ boots \in Seq(Call) /\ Len(stops) = k /\ Len(boots) = k
  <2>1. stops \in [1..k -> Call] /\ boots \in [1..k -> Call]
    BY <1>3, <1>5, <1>6
  <2> QED  BY <1>5, <2>1
<1>8. PICK rest : rest = stops \o bridge \o boots
  OBVIOUS
<1>9. /\ rest \in Seq(Call) /\ Len(rest) = k + 1 + k
      /\ \A i \in 1..k : rest[i] = Do("stop", order[i], "fail")
      /\ rest[k + 1] = Do("bridge", t.ct, "fail")
      /\ \A i \in 1..k : rest[k + 1 + i] = Do("boot", order[i], "skip")
  <2>1. PICK b, s, r : b = bridge /\ s = stops /\ r = boots
    OBVIOUS
  <2>2. /\ b \in Seq(Call) /\ Len(b) = 1 /\ b[1] = Do("bridge", t.ct, "fail")
        /\ s \in Seq(Call) /\ Len(s) = k /\ \A i \in 1..k : s[i] = Do("stop", order[i], "fail")
        /\ r \in Seq(Call) /\ Len(r) = k /\ \A i \in 1..k : r[i] = Do("boot", order[i], "skip")
    BY <1>1, <1>5, <1>6, <1>7, <2>1
  <2>3. /\ s \o b \in Seq(Call) /\ Len(s \o b) = k + 1
        /\ \A i \in 1..k + 1 : (s \o b)[i] = IF i <= k THEN s[i] ELSE b[i - k]
    <3>1. /\ s \o b \in Seq(Call) /\ Len(s \o b) = Len(s) + Len(b)
          /\ \A i \in 1..Len(s) + Len(b) :
               (s \o b)[i] = IF i <= Len(s) THEN s[i] ELSE b[i - Len(s)]
      BY <2>2, ConcatProperties, Zenon
    <3> QED  BY <2>2, <3>1
  <2>4. PICK sb \in Seq(Call) : sb = s \o b
    BY <2>3
  <2>5. /\ sb \o r \in Seq(Call) /\ Len(sb \o r) = Len(sb) + Len(r)
        /\ \A i \in 1..Len(sb) + Len(r) :
             (sb \o r)[i] = IF i <= Len(sb) THEN sb[i] ELSE r[i - Len(sb)]
    BY <2>2, <2>4, ConcatProperties, Zenon
  <2>6. rest = sb \o r /\ Len(sb) = k + 1
    BY <1>8, <2>1, <2>3, <2>4
  <2>7. rest \in Seq(Call) /\ Len(rest) = k + 1 + k
    BY <2>2, <2>5, <2>6
  <2>8. ASSUME NEW i \in 1..k PROVE rest[i] = s[i]
    BY <1>5, <2>2, <2>3, <2>4, <2>5, <2>6, <2>8
  <2>9. rest[k + 1] = b[1]
    BY <1>5, <2>2, <2>3, <2>4, <2>5, <2>6
  <2>10. ASSUME NEW i \in 1..k PROVE rest[k + 1 + i] = r[i]
    BY <1>5, <2>2, <2>5, <2>6, <2>10
  <2> QED  BY <2>2, <2>7, <2>8, <2>9, <2>10
<1>10. todo'[p] = rest
  <2>1. Tail(todo[p]) = <<>>
    <3>1. todo[p] \in Seq(Call)
      BY DEF TypeInv, TypeOK
    <3>2. Tail(todo[p]) \in Seq(Call) /\ Len(Tail(todo[p])) = 0
      BY <1>1, <3>1, HeadTailProperties
    <3> QED  BY <3>2, EmptySeq
  <2>2. todo'[p] = rest \o Tail(todo[p])
    BY <1>2, <1>8 DEF Continue, TypeInv, TypeOK
  <2>3. rest \o <<>> = rest
    BY <1>9, ConcatEmptySeq
  <2> QED  BY <2>1, <2>2, <2>3
<1>11. DOMAIN todo'[p] = 1..(k + 1 + k)
  BY <1>9, <1>10
<1>12. ASSUME NEW i \in 1..(k + 1 + k)
       PROVE  \/ i \in 1..k /\ rest[i] = Do("stop", order[i], "fail")
              \/ i = k + 1 /\ rest[i] = Do("bridge", t.ct, "fail")
              \/ \E j \in 1..k : i = k + 1 + j /\ rest[i] = Do("boot", order[j], "skip")
  <2>1. CASE i > k + 1
    <3>1. i - (k + 1) \in 1..k /\ i = k + 1 + (i - (k + 1))
      BY <1>5, <2>1
    <3> QED  BY <1>9, <3>1
  <2> QED  BY <1>5, <1>9, <2>1
<1>d. /\ \A n : /\ Do("stop", n, "fail").op = "stop" /\ Do("stop", n, "fail").ct = n
                 /\ Do("stop", n, "fail").err = "fail"
      /\ \A n : /\ Do("boot", n, "skip").op = "boot" /\ Do("boot", n, "skip").ct = n
                 /\ Do("boot", n, "skip").err = "skip"
      /\ \A n : Do("bridge", n, "fail").op = "bridge" /\ Do("bridge", n, "fail").err = "fail"
  BY DEF Do
<1>13. \A c \in Calls(p)' : SetupCall(c)'
  <2>1. ASSUME NEW n, NEW c,
               c \in {Do("stop", n, "fail"), Do("bridge", n, "fail"), Do("boot", n, "skip")}
        PROVE  SetupCall(c)'
    BY <1>d, <2>1 DEF SetupCall, SetupOps, Halting, Booting, Bridging
  <2>2. ASSUME NEW i \in 1..(k + 1 + k), NEW c, c = rest[i] PROVE SetupCall(c)'
    BY <1>12, <2>1, <2>2
  <2> QED  BY <1>10, <1>11, <2>2 DEF Calls
<1>14. StopsFirst(p)'
  <2> SUFFICES ASSUME NEW i \in 1..(k + 1 + k), rest[i].op \in Halting
               PROVE  \E j \in 1..(k + 1 + k) :
                          j > i /\ rest[j].op = "boot" /\ rest[j].ct = rest[i].ct
    BY <1>10, <1>11 DEF StopsFirst
  <2>1. i \in 1..k /\ rest[i].ct = order[i]
    BY <1>d, <1>12 DEF Halting
  <2>2. k + 1 + i \in 1..(k + 1 + k) /\ k + 1 + i > i
    BY <1>5, <2>1
  <2>3. rest[k + 1 + i].op = "boot" /\ rest[k + 1 + i].ct = order[i]
    BY <1>d, <1>9, <2>1
  <2> QED  BY <2>1, <2>2, <2>3
<1>15. StartsNow(p)'
  <2>1. ASSUME NEW i \in 1..(k + 1 + k) PROVE rest[i].op \notin {"start", "unfreeze"}
    BY <1>d, <1>12
  <2> QED  BY <1>10, <1>11, <2>1 DEF StartsNow
<1>16. \E c \in Calls(p)' : c.op \in Bridging
  <2>1. rest[k + 1] \in Calls(p)'
    BY <1>5, <1>10, <1>11 DEF Calls
  <2> QED  BY <1>d, <1>9, <2>1 DEF Bridging
<1>17. ASSUME NEW n \in halted'[p] PROVE Due(p, n)'
  <2>1. PICK i \in 1..k : order[i] = n
    BY <1>3, <1>4, <1>5, <1>17
  <2>2. rest[k + 1 + i] \in Calls(p)'
    <3>1. k + 1 + i \in 1..(k + 1 + k)
      BY <1>5
    <3> QED  BY <1>10, <1>11, <3>1 DEF Calls
  <2>3. rest[k + 1 + i].op \in Booting /\ rest[k + 1 + i].ct = n
    BY <1>d, <1>9, <2>1 DEF Booting
  <2> QED  BY <2>2, <2>3 DEF Due
<1> QED  BY <1>13, <1>14, <1>15, <1>16, <1>17 DEF Restores
--------------------------------------------------------------------------------
(* A command is what it was for the others, and alone, after every step.    *)
LEMMA StepAlone ==
  ASSUME SetupInv, NEW p \in Procs, Step(p)
  PROVE  /\ Alone' /\ cmd' = cmd /\ Moves(p) /\ todo[p] # <<>> /\ Active(p)
         /\ \A q \in Procs \ {p} : ~Active(q)'
<1>1. /\ TypeInv /\ todo[p] # <<>> /\ Moves(p) /\ Active(p) /\ cmd' = cmd
      /\ \A q \in Procs \ {p} : todo'[q] = todo[q] /\ res'[q] = res[q]
      /\ \A q \in Procs \ {p} : ~Active(q) /\ todo[q] = <<>>
  BY StepMoves DEF SetupInv, Alone, Step
<1>2. (todo'[p] # <<>> => Active(p)') /\ res'[p] # "idle"
  BY <1>1, MovesOn
<1> QED  BY <1>1, <1>2 DEF Alone, Active

(* An autosetup that has not failed is at its listing, or restores.         *)
LEMMA StepSets ==
  ASSUME SetupInv, MaxFaults = 0, NEW p \in Procs, Step(p), cmd[p].kind = "autosetup"
  PROVE  res'[p] = "error" \/ Restores(p)'
<1>1. Lists(p) \/ Restores(p)
  BY StepAlone DEF SetupInv
<1> QED  BY <1>1, ListRestores, RestoresNext DEF SetupInv

LEMMA InvokeSets ==
  ASSUME Exclusive, SetupInv, NEW p \in Procs, Invoke(p)
  PROVE  SetupInv'
<1>1. PICK c \in Menu :
           /\ c \in Command /\ cmd'[p] = c /\ res'[p] = "running"
           /\ \A q \in Procs \ {p} :
                todo'[q] = todo[q] /\ res'[q] = res[q] /\ cmd'[q] = cmd[q]
           /\ todo'[p] = Script(c)
  <2>1. PICK c \in Menu : /\ cmd' = [cmd EXCEPT ![p] = c]
                          /\ todo' = [todo EXCEPT ![p] = Script(c)]
                          /\ res' = [res EXCEPT ![p] = "running"]
    BY DEF Invoke
  <2> QED  BY <2>1, TargetAssumption DEF SetupInv, TypeInv, TypeOK
<1>2. \A q \in Procs : ~Active(q) /\ todo[q] = <<>>
  BY DEF Invoke, Quiet, SetupInv, Alone
<1>3. TypeInv'
  BY NextType DEF SetupInv, Next
<1>4. Alone'
  BY <1>1, <1>2 DEF Alone, Active
<1>5. ASSUME cmd'[p].kind = "autosetup" PROVE Lists(p)'
  <2>1. todo'[p] = <<Do("list", c.ct, "fail")>>
    BY <1>1, <1>5 DEF Script
  <2>2. Do("list", c.ct, "fail").op = "list"
    BY DEF Do
  <2> QED  BY <2>1, <2>2 DEF Lists, Now
<1> QED  BY <1>1, <1>2, <1>3, <1>4, <1>5 DEF SetupInv, Active

LEMMA SetupInvNext ==
  ASSUME Exclusive, MaxFaults = 0, SetupInv, [Next]_vars
  PROVE  SetupInv'
<1>1. TypeInv'
  BY NextType DEF SetupInv
<1>2. ASSUME NEW p \in Procs, Step(p) PROVE SetupInv'
  <2>1. cmd[p].kind = "autosetup" /\ Active(p)' => Restores(p)'
    BY <1>2, StepSets DEF Active
  <2> QED  BY <1>1, <1>2, <2>1, StepAlone DEF SetupInv
<1>3. ASSUME NEW p \in Procs, Break(p) PROVE FALSE
  BY <1>3 DEF SetupInv, TypeInv, TypeOK, Break, Fault, Kill, Faulty
<1>4. CASE Replug \/ UpgradeDriver
  <2>1. UNCHANGED <<todo, res, cmd>> /\ \A q \in Procs : ~Active(q)
    BY <1>4 DEF Replug, UpgradeDriver, ChangeHost, Quiet
  <2> QED  BY <1>1, <2>1 DEF SetupInv, Alone, Active
<1>5. CASE UNCHANGED vars
  <2>1. UNCHANGED <<ct, net, cmd, todo, res, halted, host>>
    BY <1>5 DEF vars
  <2>2. ASSUME NEW p \in Procs PROVE Restores(p)' <=> Restores(p)
    BY <2>1 DEF Restores, Calls, SetupCall, StopsFirst, StartsNow, Due, Restarted,
                Startable, BridgeConfigured
  <2> QED  BY <1>1, <2>1, <2>2 DEF SetupInv, Alone, Active, Lists, Now
<1> QED  BY <1>2, <1>3, <1>4, <1>5, InvokeSets DEF Next

(* One command at a time and no request failing for an outside reason, an   *)
(* autosetup that succeeds leaves a bridge, and every container it stopped  *)
(* up again, unless LXD refuses to start it or it was ephemeral.            *)
THEOREM AutosetupHeals ==
  ASSUME Exclusive, MaxFaults = 0
  PROVE  Spec => AutosetupRestores
<1>1. Init => SetupInv
  <2> SUFFICES ASSUME Init PROVE SetupInv
    OBVIOUS
  <2>1. \A p \in Procs : todo[p] = <<>> /\ res[p] = "idle"
    BY DEF Init
  <2> QED  BY <2>1, InitType DEF SetupInv, Alone, Active
<1>2. SetupInv /\ [Next]_vars => SetupInv'
  BY SetupInvNext
<1>3. SetupInv /\ [Next]_vars =>
        \A p \in Procs : Finishes(p, "autosetup") =>
          /\ BridgeConfigured'
          /\ \A n \in halted'[p] : /\ ct'[n].status # "Frozen"
                                   /\ ct'[n].status = "Stopped" => ~Startable(n)'
  <2> SUFFICES ASSUME SetupInv, [Next]_vars, NEW p \in Procs, Finishes(p, "autosetup")
               PROVE  BridgeConfigured' /\ \A n \in halted'[p] : Restarted(n)'
    BY DEF Restarted
  <2>1. cmd[p].kind = "autosetup" /\ res[p] # "ok" /\ res'[p] = "ok"
    BY DEF Finishes, Active
  <2>2. Step(p)
    <3>1. ASSUME NEW q \in Procs, Invoke(q) PROVE FALSE
      <4>1. res' = [res EXCEPT ![q] = "running"]
        BY <3>1 DEF Invoke
      <4> QED  BY <2>1, <4>1 DEF SetupInv, TypeInv, TypeOK
    <3>2. ASSUME NEW q \in Procs, Break(q) PROVE FALSE
      BY <3>2 DEF SetupInv, TypeInv, TypeOK, Break, Fault, Kill, Faulty
    <3>3. ASSUME Replug \/ UpgradeDriver \/ UNCHANGED vars PROVE FALSE
      BY <2>1, <3>3 DEF Replug, UpgradeDriver, ChangeHost, vars
    <3>4. PICK q \in Procs : Step(q)
      BY <3>1, <3>2, <3>3 DEF Next
    <3>5. \A r \in Procs \ {q} : res'[r] = res[r]
      BY <3>4, StepMoves DEF SetupInv
    <3> QED  BY <2>1, <3>4, <3>5
  <2>3. Restores(p)'
    BY <2>1, <2>2, StepSets
  <2>4. todo'[p] = <<>>
    <3>1. Moves(p) /\ todo[p] # <<>> /\ Active(p)
      BY <2>2, StepAlone
    <3>2. res \in [Procs -> Results] /\ todo \in [Procs -> Seq(Call)]
      BY DEF SetupInv, TypeInv, TypeOK
    <3>3. ASSUME NEW ts, Continue(p, ts) PROVE todo'[p] = <<>>
      BY <2>1, <3>1, <3>2, <3>3 DEF Continue, Active
    <3> QED  BY <2>1, <3>1, <3>2, <3>3 DEF Moves, Raise, Active
  <2>5. Calls(p)' = {}
    BY <2>4 DEF Calls
  <2> QED  BY <2>3, <2>5 DEF Restores, Due
<1> QED  BY <1>1, <1>2, <1>3, PTL DEF Spec, AutosetupRestores

--------------------------------------------------------------------------------
(* Commands at once: as long as nothing failed for a reason from outside,   *)
(* nothing is made or repaired and no autosetup has ended with an error, a  *)
(* container that some autosetup stopped is up again, or somebody owes it.  *)
Clean ==
    /\ faults = 0 /\ hostChanges = 0
    /\ \A p \in Procs :
         /\ cmd[p].kind \notin {"create", "autofix"}
         /\ cmd[p].kind = "autosetup" => res[p] \in {"idle", "running", "ok"}

(* A configuration with a device that LXD would miss on the host.           *)
Bad(cfg) == \E d \in Dev : cfg.devs[d] \in Path \ host

MildOps ==
    SetupOps \cup {"list", "delete", "adddev", "setflag", "put", "whoami", "lookup",
                   "groupadd", "useradd", "check", "hasbridge"}

(* A call of p that no container gains or loses such a device by.           *)
Mild(p, c) ==
    /\ c.op \in MildOps /\ c.err \in {"fail", "skip"}
    /\ c.op \in Bridging => c.err = "fail"
    /\ c.op = "list" => cmd[p].kind = "autosetup" /\ Len(todo[p]) = 1
    /\ c.op = "adddev" => c.val \in host
    /\ c.op = "put" /\ Present(c.ct) => (Bad(c.cfg) <=> Bad(ct[c.ct].cfg))

(* A container that is still to be stopped is started again later by the    *)
(* same autosetup, or deleted by the next call of a destroy.                *)
Followed(p) ==
    \A i \in DOMAIN todo[p] : todo[p][i].op \in Halting =>
        \E j \in DOMAIN todo[p] :
            /\ j > i /\ todo[p][j].ct = todo[p][i].ct
            /\ \/ cmd[p].kind = "autosetup" /\ todo[p][j].op = "boot"
               \/ i = 1 /\ j = 2 /\ todo[p][j].op = "delete"

(* p will still see to it that n is up, or gone.                            *)
Owes(p, n) ==
    \/ cmd[p].kind = "autosetup" /\ \E c \in Calls(p) : c.op = "boot" /\ c.ct = n
    \/ /\ todo[p] # <<>> /\ Now(p).ct = n
       /\ \/ Now(p).op \in {"start", "delete"} /\ ct[n].status = "Stopped"
          \/ Now(p).op = "unfreeze" /\ ct[n].status = "Frozen"

RestoreInv ==
    /\ TypeInv
    /\ \A p \in Procs : /\ todo[p] # <<>> => Active(p)
                        /\ res[p] = "idle" => cmd[p] = NoCommand
    /\ Clean =>
         /\ Users \cup {"tmp"} \subseteq host
         /\ \A p \in Procs : Followed(p) /\ \A c \in Calls(p) : Mild(p, c)
         /\ \A p \in Procs : \A n \in halted[p] :
              Restarted(n) \/ \E q \in Procs : Owes(q, n)

(* A step takes nobody back to where nothing had gone wrong.                *)
LEMMA StepFaults ==
  ASSUME NEW p, Step(p)
  PROVE  (faults' = faults \/ Faulty(p)) /\ hostChanges' = hostChanges
<1>1. CASE SyncStep(p)
  BY <1>1
  DEF SyncStep, BootContainerSync, Start, StopContainerSync, Stop, Delete,
      UpdateConfigSync, Ldconfig, AddDeviceSync, RemoveDeviceSync, SetContainerConfig,
      Edit, Put, Answer, Refuse, Step
<1>2. CASE FixingStep(p)
  BY <1>2
  DEF FixingStep, Fix, Check, FixAccess, FixDevices, FixDRI, FixNvidia, WriteLDConf,
      UpdateTargets, Refuse, Step
<1>3. CASE NetworkStep(p)
  BY <1>3
  DEF NetworkStep, CreateBridgeNeeded, LxdBridgeConfigured, NetworkCreate, ProfileConfig,
      ProfileDevice, ProfilePut, ListContainers, Answer, Refuse, Step
<1>4. CASE InitContainer(p) \/ KnownUser(p) \/ GroupAdd(p) \/ UserAdd(p)
  BY <1>4 DEF InitContainer, KnownUser, GroupAdd, UserAdd, Answer, Refuse, Step
<1> QED  BY <1>1, <1>2, <1>3, <1>4 DEF Step

LEMMA CleanBefore ==
  ASSUME RestoreInv, NEW p \in Procs, Step(p), Clean'
  PROVE  /\ Clean /\ ~Faulty(p) /\ Active(p) /\ todo[p] # <<>> /\ Moves(p)
         /\ host' = host /\ cmd' = cmd
         /\ cmd[p].kind = "autosetup" => res'[p] # "error"
         /\ \A q \in Procs \ {p} : todo'[q] = todo[q] /\ res'[q] = res[q]
<1>1. /\ todo[p] # <<>> /\ Moves(p) /\ Active(p) /\ cmd' = cmd /\ host' = host
      /\ \A q \in Procs \ {p} : todo'[q] = todo[q] /\ res'[q] = res[q]
  BY StepMoves, StepOfSetup DEF RestoreInv
<1>2. faults = 0 /\ hostChanges = 0 /\ ~Faulty(p)
  BY StepFaults DEF RestoreInv, TypeInv, TypeOK, Faulty, Clean
<1>3. ASSUME cmd[p].kind = "autosetup"
      PROVE  res[p] \in {"idle", "running", "ok"} /\ res'[p] # "error"
  <2>1. res'[p] \in {"idle", "running", "ok"}
    BY <1>1, <1>3 DEF Clean
  <2>2. res \in [Procs -> Results] /\ res[p] \in {"running", "undoing"}
    BY <1>1 DEF RestoreInv, TypeInv, TypeOK, Active
  <2>3. ASSUME res[p] = "undoing", NEW ts, Continue(p, ts) PROVE FALSE
    BY <2>1, <2>2, <2>3 DEF Continue
  <2>4. ASSUME res[p] = "undoing", Raise(p) PROVE FALSE
    BY <2>1, <2>2, <2>3, <2>4 DEF Raise
  <2> QED  BY <1>1, <2>1, <2>2, <2>3, <2>4 DEF Moves
<1>4. Clean
  BY <1>1, <1>2, <1>3 DEF Clean
<1> QED  BY <1>1, <1>2, <1>3, <1>4

--------------------------------------------------------------------------------
(* What such a step does to a container: none is made, none gains or loses  *)
(* a device that is missing on the host, and only a halt leaves one down.   *)
Downs(p, n) ==
    /\ Now(p).op = "halt" /\ n = Now(p).ct
    /\ ct'[n].status = "Stopped" /\ ct'[n].status # ct[n].status
Spared(p) ==
    /\ \A c : Bad(c)' <=> Bad(c)
    /\ \A n \in Names :
         /\ Present(n)' => Present(n) /\ (Bad(ct'[n].cfg) <=> Bad(ct[n].cfg))
         /\ \/ ct'[n].status = ct[n].status \/ ct'[n].status \in {"Absent", "Running"}
            \/ Downs(p, n)

LEMMA StepSpared ==
  ASSUME TypeInv, NEW p \in Procs, Step(p), todo[p] # <<>>, Mild(p, Now(p))
  PROVE  Spared(p)
<1> DEFINE t == Now(p)
<1>1. /\ ct \in [Names -> Container] /\ t \in Call /\ t.ct \in Names /\ host' = host
      /\ \A n \in Names : ct[n].status \in {"Absent", "Stopped", "Running", "Frozen"}
  BY NowIsCall, StepOf, StepOfSetup DEF TypeInv, TypeOK, LxdTypeOK, Call, Container
<1>2. Effect(p)
  BY StepEffect
<1>3. t.op \notin {"init", "access", "ldconf", "ldconfig"}
  BY DEF Mild, MildOps, SetupOps, Halting, Booting, Bridging, NicOps
<1>4. \A c : Bad(c)' <=> Bad(c)
  BY <1>1 DEF Bad
<1>5. ASSUME NEW n \in Names
      PROVE  /\ Present(n)' => Present(n) /\ (Bad(ct'[n].cfg) <=> Bad(ct[n].cfg))
             /\ \/ ct'[n].status = ct[n].status \/ ct'[n].status \in {"Absent", "Running"}
                \/ Downs(p, n)
  <2>1. CASE ct'[n] = ct[n]
    BY <2>1 DEF Present
  <2>2. CASE Boots(p) /\ n = t.ct
    <3>1. ct'[n].cfg = ct[n].cfg /\ ct'[n].status = "Running" /\ Present(n)
      BY <1>1, <2>2 DEF Boots, Container, Present
    <3> QED  BY <3>1
  <2>3. CASE Halts(p) /\ n = t.ct
    <3>1. ct'[n] = AfterStop(ct[n]) /\ Present(n) /\ t.op = "halt"
      BY <1>1, <2>3 DEF Halts, Present
    <3>2. \/ ct'[n].status = "Absent"
          \/ ct'[n].status = "Stopped" /\ ct'[n].cfg = ct[n].cfg
      BY <1>1, <3>1 DEF AfterStop, NoContainer, Container
    <3> QED  BY <2>3, <3>1, <3>2 DEF Present, Downs
  <2>4. CASE Deletes(p) /\ n = t.ct
    <3>1. ct'[n].status = "Absent"
      BY <1>1, <2>4 DEF Deletes, NoContainer
    <3> QED  BY <3>1 DEF Present
  <2>5. CASE Puts(p) /\ n = t.ct
    <3>1. /\ Present(n) /\ ct'[n].cfg = t.cfg /\ ct'[n].status = ct[n].status
          /\ t.op = "put"
      BY <1>1, <2>5 DEF Puts, Container
    <3>2. Bad(t.cfg) <=> Bad(ct[n].cfg)
      BY <2>5, <3>1 DEF Mild
    <3> QED  BY <3>1, <3>2
  <2>6. CASE Registers(p) /\ n = t.ct
    <3>1. ct'[n].cfg = ct[n].cfg /\ ct'[n].status = ct[n].status
      BY <1>1, <2>6 DEF Registers, Container
    <3> QED  BY <3>1 DEF Present
  <2>7. \/ UNCHANGED ct \/ Boots(p) \/ Halts(p) \/ Deletes(p) \/ Puts(p) \/ Registers(p)
    BY <1>2, <1>3 DEF Effect, Makes, Opens, Loads
  <2>8. n # t.ct => ct'[n] = ct[n]
    BY <1>1, <2>7 DEF Boots, Halts, Deletes, Puts, Registers
  <2> QED  BY <2>1, <2>2, <2>3, <2>4, <2>5, <2>6, <2>7, <2>8
<1> HIDE DEF t
<1> QED  BY <1>4, <1>5 DEF Spared

(* A call stays mild, and a container up, under the steps of the others.    *)
LEMMA MildStays ==
  ASSUME NEW p, Spared(p), host' = host, cmd' = cmd, NEW q, NEW c, Mild(q, c),
         c.op = "list" => todo'[q] = todo[q], c.op = "put" => c.ct \in Names
  PROVE  Mild(q, c)'
  BY DEF Mild, Spared

LEMMA RestartedIf ==
  ASSUME NEW n
  PROVE  Restarted(n) <=> /\ ct[n].status # "Frozen"
                          /\ ct[n].status = "Stopped" => Bad(ct[n].cfg)
  BY DEF Restarted, Startable, Bad

LEMMA RestartedAfter ==
  ASSUME NEW n, host' = host
  PROVE  Restarted(n)' <=> /\ ct'[n].status # "Frozen"
                           /\ ct'[n].status = "Stopped" => Bad(ct'[n].cfg)
  BY DEF Restarted, Startable, Bad

LEMMA StaysUp ==
  ASSUME NEW p, Spared(p), host' = host, NEW n \in Names, Restarted(n),
         ~Downs(p, n)
  PROVE  Restarted(n)'
<1>1. CASE ct'[n].status = ct[n].status
  BY <1>1, RestartedIf, RestartedAfter DEF Spared, Present
<1>2. CASE ct'[n].status \in {"Absent", "Running"}
  BY <1>2, RestartedAfter
<1> QED  BY <1>1, <1>2 DEF Spared, Downs

LEMMA OthersOwe ==
  ASSUME NEW p \in Procs, Spared(p), host' = host, cmd' = cmd, NEW n \in Names,
         NEW q \in Procs, todo'[q] = todo[q], Owes(q, n),
         ~Downs(p, n)
  PROVE  Owes(q, n)' \/ Restarted(n)'
<1>1. CASE ct'[n].status = ct[n].status
  BY <1>1 DEF Owes, Calls, Now
<1>2. CASE ct'[n].status \in {"Absent", "Running"}
  BY <1>2, RestartedAfter
<1> QED  BY <1>1, <1>2 DEF Spared, Downs

--------------------------------------------------------------------------------
(* What a call is replaced by is mild again; what is to be halted was to be *)
(* stopped.                                                                 *)
MildMove(p) ==
    \E ts \in Seq(Call) :
        /\ Continue(p, ts)
        /\ \A i \in DOMAIN ts :
             /\ Mild(p, ts[i])'
             /\ ts[i].op \in Halting =>
                  i = 1 /\ Len(ts) = 1 /\ Now(p).op = "stop" /\ ts[i].ct = Now(p).ct

LEMMA MildEnd ==
  ASSUME NEW p, Continue(p, <<>>)
  PROVE  MildMove(p)
<1>1. <<>> \in Seq(Call) /\ DOMAIN <<>> = {}
  OBVIOUS
<1> QED  BY <1>1 DEF MildMove

(* The PUT of a device that is there, or of a flag, changes nothing about   *)
(* the devices that are missing.                                            *)
LEMMA PutIsMild ==
  ASSUME TypeInv, NEW t \in Call, NEW c, Changes(t, c), t.op # "rmdev",
         t.op = "adddev" => t.val \in host
  PROVE  Bad(c.cfg) <=> Bad(ct[t.ct].cfg)
<1>1. /\ ct[t.ct].cfg \in Config /\ c.cfg = Edited(t, ct[t.ct].cfg)
      /\ t.op \in {"adddev", "setflag"} /\ Editable(t, ct[t.ct].cfg)
  BY DEF TypeInv, TypeOK, LxdTypeOK, Call, Container, Changes
<1>2. PICK cfg \in Config : cfg = ct[t.ct].cfg
  BY <1>1
<1>3. CASE t.op = "setflag"
  <2>1. c.cfg = [cfg EXCEPT !.updates = (t.val = "true")]
    BY <1>1, <1>2, <1>3 DEF Edited
  <2>2. c.cfg.devs = cfg.devs
    BY <2>1 DEF Config
  <2> QED  BY <1>2, <2>2 DEF Bad
<1>4. CASE t.op = "adddev"
  <2>1. /\ c.cfg = [cfg EXCEPT !.devs[t.arg] = t.val] /\ t.arg \in Dev /\ t.val \in host
        /\ cfg.devs[t.arg] = "none"
    BY <1>1, <1>2, <1>4 DEF Edited, Editable, Call
  <2>2. /\ c.cfg.devs[t.arg] = t.val
        /\ \A d \in Dev \ {t.arg} : c.cfg.devs[d] = cfg.devs[d]
    BY <2>1 DEF Config
  <2>3. "none" \notin Path
    BY LxdAssumption
  <2> QED  BY <1>2, <2>1, <2>2, <2>3 DEF Bad
<1> QED  BY <1>1, <1>3, <1>4

LEMMA AfterMild ==
  ASSUME TypeInv, NEW p \in Procs, NEW t \in Call, Mild(p, t), Spared(p), host' = host,
         NEW c \in After(t), t.op \notin {"list", "stop"} \cup Bridging \cup {"profile"} \cup NicOps
  PROVE  Mild(p, c)' /\ c.op \notin Halting
<1>1. t.op \in {"boot", "start", "unfreeze", "halt", "delete", "adddev", "setflag", "put",
                "whoami", "lookup", "groupadd", "useradd", "check", "hasbridge"}
  BY DEF Mild, MildOps, SetupOps, Halting, Booting, Bridging
<1>2. c \in Call /\ t.ct \in Names
  BY DEF After, Follow, Call
<1>3. CASE Parts(t, c)
  <2>1. c.op \in {"start", "unfreeze"} /\ c.err \in {"fail", "skip"}
    BY <1>1, <1>3 DEF Parts, Mild
  <2> QED  BY <2>1 DEF Mild, MildOps, SetupOps, Halting, Booting, Bridging
<1>4. CASE Changes(t, c)
  <2>1. c.op = "put" /\ c.ct = t.ct /\ c.err \in {"fail", "skip"}
    BY <1>4 DEF Changes, Mild
  <2>2. Bad(c.cfg) <=> Bad(ct[t.ct].cfg)
    BY <1>1, <1>4, PutIsMild DEF Mild
  <2>3. Present(t.ct)' => (Bad(c.cfg)' <=> Bad(ct'[t.ct].cfg))
    BY <1>2, <2>2 DEF Spared
  <2>4. (Present(c.ct) => (Bad(c.cfg) <=> Bad(ct[c.ct].cfg)))'
    BY <2>1, <2>3, host' = host DEF Bad
  <2> QED  BY <2>1, <2>4 DEF Mild, MildOps, Halting, Bridging
<1> QED
  BY <1>1, <1>3, <1>4 DEF After, Spreads, Repairs, Connects

LEMMA StepMildMove ==
  ASSUME TypeInv, NEW p \in Procs, Step(p), Active(p), ~Faulty(p), Mild(p, Now(p)),
         Spared(p), Now(p).op # "list"
  PROVE  (Raise(p) /\ res'[p] = "error" /\ todo'[p] = <<>>) \/ MildMove(p)
<1> DEFINE t == Now(p)
<1>1. /\ todo[p] # <<>> /\ Moves(p) /\ t \in Call /\ t.ct \in Names /\ host' = host
      /\ res \in [Procs -> Results] /\ todo \in [Procs -> Seq(Call)] /\ t.err \in OnError
  BY StepMoves, StepOfSetup, NowIsCall DEF Call, TypeInv, TypeOK
<1>2. CASE Raise(p)
  <2>1. CASE t.err = "fail"
    BY <1>1, <1>2, <2>1 DEF Raise
  <2>2. CASE t.err = "skip"
    BY <1>2, <2>2, MildEnd DEF Raise
  <2> QED  BY <2>1, <2>2 DEF Mild
<1>3. CASE t.op = "stop" /\ ~Raise(p)
  <2> DEFINE h == Do("halt", t.ct, t.err)
  <2>1. Continue(p, <<>>) \/ Continue(p, <<h>>)
    BY <1>3, StepOf DEF StopContainerSync
  <2>2. ASSUME Continue(p, <<h>>) PROVE MildMove(p)
    <3>1. h \in Call /\ h.op = "halt" /\ h.ct = t.ct /\ h.err = t.err
      BY <1>1, DoType DEF PlainOps, Ops, Do
    <3>2. PICK k \in Call : k = h
      BY <3>1
    <3>3. Mild(p, k)'
      BY <3>1, <3>2 DEF Mild, MildOps, SetupOps, Halting, Bridging
    <3>4. PICK ts : ts = <<k>>
      OBVIOUS
    <3>5. ts \in Seq(Call) /\ DOMAIN ts = {1} /\ ts[1] = k /\ Len(ts) = 1
      BY <3>4
    <3> QED  BY <1>3, <2>2, <3>1, <3>2, <3>3, <3>4, <3>5 DEF MildMove
  <2> QED  BY <2>1, <2>2, MildEnd
<1>4. CASE t.op \in Bridging \cup {"profile"} \cup NicOps
  <2>1. SetupCall(t)
    BY <1>4 DEF SetupCall, SetupOps, Mild, Bridging, NicOps
  <2>2. res'[p] = "error" \/ SetupMove(p)
    BY <1>1, <1>4, <2>1, NetMoves
  <2>3. ASSUME SetupMove(p) PROVE MildMove(p)
    <3>1. PICK ts \in Seq(Call) :
              Continue(p, ts) /\ \A i \in DOMAIN ts : SetupNext(t, ts[i], i)
      BY <2>3 DEF SetupMove
    <3>2. ASSUME NEW i \in DOMAIN ts, NEW c, c = ts[i]
          PROVE  Mild(p, c)' /\ c.op \notin Halting
      <4>1. /\ c.err \in {"fail", "skip"} /\ c.op \in {"netcreate", "profile"} \cup NicOps
            /\ c.op = "netcreate" => c.err = "fail"
        BY <1>4, <3>1, <3>2 DEF SetupNext, Bridging, NicOps
      <4> QED  BY <4>1 DEF Mild, MildOps, SetupOps, Halting, Bridging, NicOps
    <3> QED  BY <3>1, <3>2 DEF MildMove
  <2>4. CASE res'[p] = "error" /\ ~Raise(p)
    <3>1. PICK ts \in Seq(After(t)) : Continue(p, ts)
      BY <1>1, <2>4 DEF Moves
    <3>2. res[p] = "error"
      BY <1>1, <2>4, <3>1 DEF Continue
    <3> QED  BY <3>2 DEF Active
  <2> QED  BY <1>2, <2>2, <2>3, <2>4
<1>5. CASE ~Raise(p) /\ t.op \notin {"list", "stop"} \cup Bridging \cup {"profile"} \cup NicOps
  <2>1. PICK ts \in Seq(After(t)) : Continue(p, ts)
    BY <1>1, <1>5 DEF Moves
  <2>2. ts \in Seq(Call) /\ \A i \in DOMAIN ts : ts[i] \in After(t)
    BY DEF After, Follow
  <2>3. ASSUME NEW i \in DOMAIN ts, NEW c, c = ts[i]
        PROVE  Mild(p, c)' /\ c.op \notin Halting
    BY <1>1, <1>5, <2>2, <2>3, AfterMild
  <2> QED  BY <2>1, <2>2, <2>3 DEF MildMove
<1> QED  BY <1>2, <1>3, <1>4, <1>5

LEMMA MovesMild ==
  ASSUME TypeInv, NEW p \in Procs, todo[p] # <<>>, MildMove(p), Spared(p), host' = host,
         cmd' = cmd, \A c \in Calls(p) : Mild(p, c), Now(p).op # "list"
  PROVE  \A c \in Calls(p)' : Mild(p, c)'
<1>1. PICK ts \in Seq(Call) : Continue(p, ts) /\ \A i \in DOMAIN ts : Mild(p, ts[i])'
  BY DEF MildMove
<1> DEFINE l == Len(ts)
<1>2. /\ l \in Nat /\ Len(todo[p]) \in Nat \ {0} /\ Now(p) = todo[p][1]
      /\ DOMAIN todo[p] = 1..Len(todo[p]) /\ 1 \in DOMAIN todo[p]
      /\ \A i \in DOMAIN todo'[p] : i <= l => i \in DOMAIN ts /\ todo'[p][i] = ts[i]
      /\ \A i \in DOMAIN todo'[p] : i > l =>
           i - l + 1 \in DOMAIN todo[p] /\ todo'[p][i] = todo[p][i - l + 1]
      /\ DOMAIN todo'[p] = 1..(l + Len(todo[p]) - 1)
  BY <1>1, Rest
<1>3. ASSUME NEW k \in DOMAIN todo[p], NEW c, c = todo[p][k] PROVE Mild(p, c)'
  <2>1. c \in Calls(p) /\ c \in Call /\ c.ct \in Names /\ Mild(p, c)
    <3>1. c \in Calls(p)
      BY <1>3 DEF Calls
    <3> QED  BY <3>1, CallsType DEF Call
  <2>2. c.op # "list"
    <3>1. CASE Len(todo[p]) = 1
      BY <1>2, <1>3, <3>1
    <3> QED  BY <2>1, <3>1 DEF Mild
  <2> QED  BY <2>1, <2>2, MildStays
<1>4. ASSUME NEW i \in DOMAIN todo'[p], NEW c, c = todo'[p][i] PROVE Mild(p, c)'
  <2>1. CASE i <= l
    BY <1>1, <1>2, <1>4, <2>1
  <2>2. CASE i > l
    BY <1>2, <1>3, <1>4, <2>2
  <2> QED  BY <1>2, <2>1, <2>2
<1> QED  BY <1>4 DEF Calls

LEMMA MovesFollowed ==
  ASSUME TypeInv, NEW p \in Procs, todo[p] # <<>>, MildMove(p), cmd' = cmd, Followed(p)
  PROVE  Followed(p)'
<1>1. PICK ts \in Seq(Call) :
        /\ Continue(p, ts)
        /\ \A i \in DOMAIN ts : ts[i].op \in Halting =>
              i = 1 /\ Len(ts) = 1 /\ Now(p).op = "stop" /\ ts[i].ct = Now(p).ct
  BY DEF MildMove
<1> DEFINE l == Len(ts)
<1>2. /\ l \in Nat /\ Len(todo[p]) \in Nat \ {0} /\ Now(p) = todo[p][1]
      /\ DOMAIN todo[p] = 1..Len(todo[p]) /\ 1 \in DOMAIN todo[p]
      /\ DOMAIN todo'[p] = 1..(l + Len(todo[p]) - 1)
      /\ \A i \in DOMAIN todo'[p] : i <= l => i \in DOMAIN ts /\ todo'[p][i] = ts[i]
      /\ \A i \in DOMAIN todo'[p] : i > l =>
           i - l + 1 \in DOMAIN todo[p] /\ todo'[p][i] = todo[p][i - l + 1]
  BY <1>1, Rest
<1>3. PICK m \in Nat \ {0} : m = Len(todo[p])
  BY <1>2
<1>4. ASSUME NEW j \in 2..m
      PROVE  j + l - 1 \in DOMAIN todo'[p] /\ todo'[p][j + l - 1] = todo[p][j]
  <2>1. j + l - 1 \in 1..(l + m - 1) /\ j + l - 1 > l /\ j + l - 1 - l + 1 = j
    <3> HIDE DEF l
    <3>1. l \in Nat
      BY <1>2
    <3> QED  BY <1>3, <1>4, <3>1
  <2> QED  BY <1>2, <1>3, <2>1
<1> SUFFICES ASSUME NEW i \in DOMAIN todo'[p], todo'[p][i].op \in Halting
             PROVE  \E j \in DOMAIN todo'[p] :
                      /\ j > i /\ todo'[p][j].ct = todo'[p][i].ct
                      /\ \/ cmd[p].kind = "autosetup" /\ todo'[p][j].op = "boot"
                         \/ i = 1 /\ j = 2 /\ todo'[p][j].op = "delete"
  BY DEF Followed
<1>5. CASE i <= l
  <2>1. /\ i = 1 /\ l = 1 /\ todo[p][1].op = "stop" /\ todo'[p][i].ct = todo[p][1].ct
    BY <1>1, <1>2, <1>5
  <2>2. PICK j \in 1..m :
          /\ j > 1 /\ todo[p][j].ct = todo[p][1].ct
          /\ \/ cmd[p].kind = "autosetup" /\ todo[p][j].op = "boot"
             \/ j = 2 /\ todo[p][j].op = "delete"
    BY <1>2, <1>3, <2>1 DEF Followed, Halting
  <2>3. j \in DOMAIN todo'[p] /\ todo'[p][j] = todo[p][j]
    <3>1. j \in 2..m /\ j + l - 1 = j
      BY <1>3, <2>1, <2>2
    <3> QED  BY <1>4, <3>1
  <2> QED  BY <2>1, <2>2, <2>3
<1>6. CASE i > l
  <2>1. PICK k \in 2..m : k = i - l + 1 /\ todo'[p][i] = todo[p][k]
    BY <1>2, <1>3, <1>6
  <2>2. PICK j \in 1..m :
          /\ j > k /\ todo[p][j].ct = todo[p][k].ct
          /\ cmd[p].kind = "autosetup" /\ todo[p][j].op = "boot"
    <3>1. k \in DOMAIN todo[p] /\ k # 1 /\ todo[p][k].op \in Halting
      BY <1>2, <1>3, <2>1
    <3> QED  BY <1>2, <1>3, <3>1 DEF Followed
  <2>3. j \in 2..m /\ j + l - 1 > i
    BY <1>2, <1>3, <2>1, <2>2
  <2> QED  BY <1>4, <2>1, <2>2, <2>3
<1> QED  BY <1>2, <1>5, <1>6

--------------------------------------------------------------------------------
(* What p owes it does, or still owes.                                      *)
LEMMA NextUp ==
  ASSUME TypeInv, NEW p \in Procs, todo[p] # <<>>, NEW c \in Call, Continue(p, <<c>>)
  PROVE  todo'[p] # <<>> /\ Now(p)' = c
<1>1. PICK ts : ts = <<c>>
  OBVIOUS
<1>2. ts \in Seq(Call) /\ Len(ts) = 1 /\ ts[1] = c
  BY <1>1
<1>3. /\ Len(todo[p]) \in Nat \ {0} /\ DOMAIN todo'[p] = 1..(Len(ts) + Len(todo[p]) - 1)
      /\ \A i \in DOMAIN todo'[p] : i <= Len(ts) => i \in DOMAIN ts /\ todo'[p][i] = ts[i]
  BY <1>1, <1>2, Rest
<1>4. 1 \in DOMAIN todo'[p] /\ todo'[p][1] = c
  BY <1>2, <1>3
<1> QED  BY <1>4 DEF Now

LEMMA KeepsWord ==
  ASSUME TypeInv, NEW p \in Procs, Step(p), todo[p] # <<>>, ~Faulty(p), NEW n \in Names,
         cmd' = cmd, host' = host, Owes(p, n),
         cmd[p].kind = "autosetup" => MildMove(p)
  PROVE  Owes(p, n)' \/ Restarted(n)'
<1> DEFINE t == Now(p)
<1>1. /\ t \in Calls(p) /\ t \in Call /\ t = todo[p][1] /\ t.ct \in Names
      /\ ct \in [Names -> Container] /\ ct[n] \in Container /\ t.err \in OnError
  BY NowIsCall DEF TypeInv, TypeOK, LxdTypeOK, Call
<1>2. CASE t.ct = n /\ t.op = "delete" /\ ct[n].status = "Stopped"
  <2>1. ct'[n] = NoContainer
    BY <1>1, <1>2, StepOf DEF Delete
  <2> QED  BY <2>1, RestartedAfter DEF NoContainer
<1>3. CASE \/ t.ct = n /\ t.op = "start" /\ ct[n].status = "Stopped"
           \/ t.ct = n /\ t.op = "unfreeze" /\ ct[n].status = "Frozen"
  <2>1. Start(p)
    BY <1>3, StepOfSetup
  <2>2. \/ ct' = [ct EXCEPT ![n].status = "Running"]
        \/ t.op = "start" /\ ~Startable(n) /\ UNCHANGED ct
    BY <1>3, <2>1 DEF Start, At, Now, Refuse, server
  <2>3. CASE ct' = [ct EXCEPT ![n].status = "Running"]
    <3>1. ct'[n].status = "Running"
      BY <1>1, <2>3 DEF Container
    <3> QED  BY <3>1, RestartedAfter
  <2>4. CASE t.op = "start" /\ ~Startable(n) /\ UNCHANGED ct
    <3>1. Restarted(n)
      BY <1>3, <2>4 DEF Restarted
    <3> QED  BY <2>4, <3>1, RestartedIf, RestartedAfter
  <2> QED  BY <2>2, <2>3, <2>4
<1>4. CASE cmd[p].kind = "autosetup" /\ \E c \in Calls(p) : c.op = "boot" /\ c.ct = n
  <2>1. PICK c \in Calls(p) : c.op = "boot" /\ c.ct = n
    BY <1>4
  <2>2. CASE c \in Later(p)
    <3>1. PICK ts \in Seq(Call) : Continue(p, ts)
      BY <1>4 DEF MildMove
    <3>2. c \in Calls(p)'
      BY <2>2, <3>1, BehindStays
    <3> QED  BY <1>4, <2>1, <3>2 DEF Owes
  <2>3. CASE c = t
    <3>1. BootContainerSync(p) /\ ct' = ct
      BY <2>1, <2>3, StepOfSetup DEF BootContainerSync, server
    <3>2. CASE ct[n].status \in {"Absent", "Running"}
      BY <3>1, <3>2, RestartedAfter
    <3>3. ASSUME NEW op \in {"start", "unfreeze"}, Continue(p, <<Do(op, n, t.err)>>),
                 op = "start" => ct[n].status = "Stopped",
                 op = "unfreeze" => ct[n].status = "Frozen"
          PROVE  Owes(p, n)'
      <4>1. PICK k \in Call : k = Do(op, n, t.err) /\ k.op = op /\ k.ct = n
        <5>1. Do(op, n, t.err) \in Call
          BY <1>1, DoType DEF PlainOps, Ops
        <5>2. Do(op, n, t.err).op = op /\ Do(op, n, t.err).ct = n
          BY DEF Do
        <5> QED  BY <5>1, <5>2
      <4>2. todo'[p] # <<>> /\ Now(p)' = k
        BY <3>3, <4>1, NextUp
      <4> QED  BY <3>1, <3>3, <4>1, <4>2 DEF Owes
    <3>4. CASE ct[n].status = "Stopped"
      BY <2>1, <2>3, <3>1, <3>3, <3>4 DEF BootContainerSync
    <3>5. CASE ct[n].status = "Frozen"
      BY <2>1, <2>3, <3>1, <3>3, <3>5 DEF BootContainerSync
    <3> QED  BY <1>1, <3>2, <3>4, <3>5 DEF Container
  <2>4. c = t \/ c \in Later(p)
    BY <1>1 DEF Calls, Later
  <2> QED  BY <2>2, <2>3, <2>4
<1> QED  BY <1>2, <1>3, <1>4 DEF Owes

(* Whoever has halted a container owes it from then on.                     *)
LEMMA HalterOwes ==
  ASSUME TypeInv, NEW p \in Procs, Step(p), todo[p] # <<>>, ~Faulty(p), Followed(p),
         cmd' = cmd, Now(p).op = "halt", NEW n \in Names, n = Now(p).ct,
         ct'[n].status = "Stopped", ct'[n].status # ct[n].status,
         cmd[p].kind = "autosetup" => MildMove(p)
  PROVE  Owes(p, n)'
<1>1. /\ 1 \in DOMAIN todo[p] /\ Now(p) = todo[p][1] /\ todo[p] \in Seq(Call)
      /\ Len(todo[p]) \in Nat \ {0}
  BY DEF TypeInv, TypeOK, Now
<1>2. PICK j \in DOMAIN todo[p] :
        /\ j > 1 /\ todo[p][j].ct = n
        /\ \/ cmd[p].kind = "autosetup" /\ todo[p][j].op = "boot"
           \/ j = 2 /\ todo[p][j].op = "delete"
  BY <1>1 DEF Followed, Halting
<1>3. CASE cmd[p].kind = "autosetup" /\ todo[p][j].op = "boot"
  <2>1. PICK ts \in Seq(Call) : Continue(p, ts)
    BY <1>3 DEF MildMove
  <2>2. todo[p][j] \in Calls(p)'
    BY <1>1, <1>2, <2>1, BehindStays DEF Later
  <2> QED  BY <1>2, <1>3, <2>2 DEF Owes
<1>4. CASE j = 2 /\ todo[p][j].op = "delete"
  <2>1. Continue(p, <<>>)
    BY StepOf DEF Stop, Answer, Refuse, server
  <2>2. PICK ts : ts = <<>>
    OBVIOUS
  <2>3. ts \in Seq(Call) /\ Len(ts) = 0
    BY <2>2
  <2>4. /\ DOMAIN todo'[p] = 1..(Len(ts) + Len(todo[p]) - 1)
        /\ \A i \in DOMAIN todo'[p] : i > Len(ts) =>
             i - Len(ts) + 1 \in DOMAIN todo[p] /\ todo'[p][i] = todo[p][i - Len(ts) + 1]
    BY <1>1, <2>1, <2>2, <2>3, Rest
  <2>5. 1 \in DOMAIN todo'[p] /\ todo'[p][1] = todo[p][2]
    BY <1>1, <1>2, <1>4, <2>3, <2>4
  <2>6. todo'[p] # <<>> /\ Now(p)' = todo[p][2]
    BY <2>5 DEF Now
  <2> QED  BY <1>2, <1>4, <2>6 DEF Owes
<1> QED  BY <1>2, <1>3, <1>4

(* A listing makes its autosetup owe every container that it found up.      *)
LEMMA ListOwes ==
  ASSUME TypeInv, NEW p \in Procs, Step(p), Now(p).op = "list", cmd' = cmd,
         Len(todo[p]) = 1, cmd[p].kind = "autosetup"
  PROVE  /\ Followed(p)' /\ \A c \in Calls(p)' : Mild(p, c)'
         /\ \A n \in halted'[p] : Restarted(n)' \/ Owes(p, n)'
         /\ \A q \in Procs \ {p} : halted'[q] = halted[q]
<1>1. Restores(p)'
  BY ListRestores DEF Lists
<1>2. Followed(p)'
  BY <1>1 DEF Restores, StopsFirst, Followed
<1>3. ASSUME NEW c, SetupCall(c)' PROVE Mild(p, c)'
  BY <1>3 DEF SetupCall, Mild, MildOps, SetupOps, Halting, Booting, Bridging, NicOps
<1>4. /\ todo[p] # <<>> /\ Moves(p) /\ Now(p) = todo[p][1] /\ DOMAIN todo[p] = {1}
      /\ ListContainers(p)
  BY StepMoves, StepOfSetup DEF TypeInv, TypeOK, Now
<1>5. \A c \in Calls(p)' : c.op # "start" /\ c.op # "unfreeze"
  <2>1. Calls(p)' \subseteq Calls(p) \cup After(Now(p))
                 \cup {c \in Undo(p) : Now(p).err = "rollback"}
    BY <1>4, MovesCalls
  <2>2. \A c \in Calls(p) : c.op = "list"
    BY <1>4 DEF Calls
  <2>3. \A c \in After(Now(p)) : c.op \in {"stop", "boot", "bridge"}
    BY DEF After, Parts, Changes, Spreads, Repairs, Connects
  <2>4. \A c \in Undo(p) : c.op \in {"stop", "delete"}
    BY DEF Undo, Do
  <2> QED  BY <2>1, <2>2, <2>3, <2>4
<1>6. ASSUME NEW n, Due(p, n)' PROVE Owes(p, n)'
  BY <1>5, <1>6 DEF Due, Owes, Booting
<1>7. \A q \in Procs \ {p} : halted'[q] = halted[q]
  BY <1>4 DEF ListContainers, TypeInv, TypeOK
<1> QED  BY <1>1, <1>2, <1>3, <1>6, <1>7 DEF Restores

(* Every step keeps what is owed, and what it makes p owe.                  *)
LEMMA OthersMild ==
  ASSUME TypeInv, NEW p \in Procs, Spared(p), host' = host, cmd' = cmd,
         NEW q \in Procs, todo'[q] = todo[q], Followed(q), \A c \in Calls(q) : Mild(q, c)
  PROVE  Followed(q)' /\ \A c \in Calls(q)' : Mild(q, c)'
<1>1. Followed(q)' /\ Calls(q)' = Calls(q)
  BY DEF Followed, Calls
<1>2. ASSUME NEW c \in Calls(q) PROVE Mild(q, c)'
  <2>1. Mild(q, c) /\ c.ct \in Names
    BY <1>2, CallsType DEF Call
  <2> QED  BY <2>1, MildStays
<1> QED  BY <1>1, <1>2

LEMMA StepCleanRestores ==
  ASSUME RestoreInv, NEW p \in Procs, Step(p), Clean'
  PROVE  /\ Users \cup {"tmp"} \subseteq host'
         /\ \A q \in Procs : Followed(q)' /\ \A c \in Calls(q)' : Mild(q, c)'
         /\ \A r \in Procs : \A n \in halted'[r] :
              Restarted(n)' \/ \E q \in Procs : Owes(q, n)'
<1> DEFINE t == Now(p)
<1>1. /\ Clean /\ ~Faulty(p) /\ Active(p) /\ todo[p] # <<>> /\ Moves(p)
      /\ host' = host /\ cmd' = cmd
      /\ cmd[p].kind = "autosetup" => res'[p] # "error"
      /\ \A q \in Procs \ {p} : todo'[q] = todo[q] /\ res'[q] = res[q]
  BY CleanBefore
<1>2. /\ TypeInv /\ Users \cup {"tmp"} \subseteq host
      /\ \A q \in Procs : Followed(q) /\ \A c \in Calls(q) : Mild(q, c)
      /\ \A r \in Procs : \A n \in halted[r] : Restarted(n) \/ \E q \in Procs : Owes(q, n)
      /\ \A r \in Procs : halted[r] \subseteq Names
  BY <1>1 DEF RestoreInv, TypeInv, TypeOK
<1>3. t \in Calls(p) /\ t \in Call /\ t.ct \in Names /\ Mild(p, t)
  BY <1>1, <1>2, NowIsCall DEF Call
<1>4. Spared(p)
  BY <1>1, <1>2, <1>3, StepSpared
<1>5. \A q \in Procs \ {p} : Followed(q)' /\ \A c \in Calls(q)' : Mild(q, c)'
  BY <1>1, <1>2, <1>4, OthersMild
<1>6. ASSUME NEW n \in Names, ~Downs(p, n), Restarted(n) \/ \E q \in Procs \ {p} : Owes(q, n)
      PROVE  Restarted(n)' \/ \E q \in Procs : Owes(q, n)'
  <2>1. CASE Restarted(n)
    BY <1>1, <1>4, <1>6, <2>1, StaysUp
  <2>2. ASSUME NEW q \in Procs \ {p}, Owes(q, n) PROVE Owes(q, n)' \/ Restarted(n)'
    BY <1>1, <1>4, <1>6, <2>2, OthersOwe
  <2> QED  BY <1>6, <2>1, <2>2
<1>7. CASE t.op = "list"
  <2>1. Len(todo[p]) = 1 /\ cmd[p].kind = "autosetup"
    BY <1>3, <1>7 DEF Mild
  <2>2. /\ Followed(p)' /\ \A c \in Calls(p)' : Mild(p, c)'
        /\ \A n \in halted'[p] : Restarted(n)' \/ Owes(p, n)'
        /\ \A q \in Procs \ {p} : halted'[q] = halted[q]
    BY <1>1, <1>2, <1>7, <2>1, ListOwes
  <2>3. \A n : ~Owes(p, n)
    <3>1. \A c \in Calls(p) : c = t
      BY <1>1, <1>2, <2>1 DEF Calls, Now, TypeInv, TypeOK
    <3> QED  BY <1>7, <3>1 DEF Owes
  <2>4. ASSUME NEW r \in Procs \ {p}, NEW n \in halted[r]
        PROVE  Restarted(n)' \/ \E q \in Procs : Owes(q, n)'
    <3>1. n \in Names /\ ~Downs(p, n)
      BY <1>2, <1>7 DEF Downs
    <3>2. Restarted(n) \/ \E q \in Procs \ {p} : Owes(q, n)
      BY <1>2, <2>3
    <3> QED  BY <1>6, <3>1, <3>2
  <2> QED  BY <1>1, <1>2, <1>5, <2>2, <2>4
<1>8. CASE t.op # "list"
  <2>1. halted' = halted
    BY <1>8, StepOfSetup
  <2>2. (Raise(p) /\ res'[p] = "error" /\ todo'[p] = <<>>) \/ MildMove(p)
    BY <1>1, <1>2, <1>3, <1>4, <1>8, StepMildMove
  <2>3. cmd[p].kind = "autosetup" => MildMove(p)
    BY <1>1, <2>2
  <2>4. Followed(p)' /\ \A c \in Calls(p)' : Mild(p, c)'
    <3>1. CASE todo'[p] = <<>>
      BY <3>1 DEF Followed, Calls
    <3>2. CASE MildMove(p)
      BY <1>1, <1>2, <1>4, <1>8, <3>2, MovesMild, MovesFollowed
    <3> QED  BY <2>2, <3>1, <3>2
  <2>5. ASSUME NEW n \in Names, Restarted(n) \/ \E q \in Procs : Owes(q, n)
        PROVE  Restarted(n)' \/ \E q \in Procs : Owes(q, n)'
    <3>1. CASE Downs(p, n)
      BY <1>1, <1>2, <2>3, <3>1, HalterOwes DEF Downs
    <3>2. CASE Owes(p, n)
      BY <1>1, <1>2, <2>3, <3>2, KeepsWord
    <3>3. CASE ~Downs(p, n) /\ ~Owes(p, n)
      BY <1>6, <2>5, <3>3
    <3> QED  BY <3>1, <3>2, <3>3
  <2> QED  BY <1>1, <1>2, <1>5, <2>1, <2>4, <2>5
<1> QED  BY <1>7, <1>8

LEMMA StepRestores ==
  ASSUME RestoreInv, NEW p \in Procs, Step(p)
  PROVE  RestoreInv'
<1>1. /\ TypeInv /\ todo[p] # <<>> /\ Moves(p) /\ cmd' = cmd /\ Active(p)
      /\ \A q \in Procs \ {p} : todo'[q] = todo[q] /\ res'[q] = res[q]
  BY StepMoves DEF RestoreInv
<1>2. (todo'[p] # <<>> => Active(p)') /\ res'[p] # "idle"
  BY <1>1, MovesOn
<1>3. TypeInv'
  BY <1>1, NextType DEF Next
<1>4. \A q \in Procs : /\ todo'[q] # <<>> => Active(q)'
                       /\ res'[q] = "idle" => cmd'[q] = NoCommand
  BY <1>1, <1>2 DEF RestoreInv, Active
<1> QED  BY <1>3, <1>4, StepCleanRestores DEF RestoreInv

(* A new command owes nothing yet; what it will stop it starts again, or    *)
(* deletes.                                                                 *)
LEMMA InvokeCleanRestores ==
  ASSUME RestoreInv, NEW p \in Procs, Invoke(p), Clean'
  PROVE  /\ Users \cup {"tmp"} \subseteq host'
         /\ \A q \in Procs : Followed(q)' /\ \A c \in Calls(q)' : Mild(q, c)'
         /\ \A r \in Procs : \A n \in halted'[r] :
              Restarted(n)' \/ \E q \in Procs : Owes(q, n)'
<1>1. PICK c \in Menu :
           /\ c \in Command /\ cmd'[p] = c /\ todo'[p] = Script(c) /\ res'[p] = "running"
           /\ \A k \in Calls(p)' : Asks(c, k)
           /\ res[p] = "idle" /\ UNCHANGED <<ct, net>>
           /\ \A q \in Procs \ {p} :
                todo'[q] = todo[q] /\ res'[q] = res[q] /\ cmd'[q] = cmd[q]
  BY Invoked DEF RestoreInv
<1>2. /\ TypeInv /\ TypeInv' /\ UNCHANGED <<ct, host, halted, faults, hostChanges>>
      /\ todo[p] = <<>> /\ cmd[p] = NoCommand
  <2>1. TypeInv'
    BY NextType DEF RestoreInv, Next
  <2> QED  BY <1>1, <2>1 DEF RestoreInv, Active, Invoke, world
<1>3. Clean
  BY <1>1, <1>2 DEF Clean, NoCommand
<1>4. /\ Users \cup {"tmp"} \subseteq host
      /\ \A q \in Procs : Followed(q) /\ \A k \in Calls(q) : Mild(q, k)
      /\ \A r \in Procs : \A n \in halted[r] : Restarted(n) \/ \E q \in Procs : Owes(q, n)
  BY <1>3 DEF RestoreInv
<1>5. ASSUME NEW q \in Procs \ {p}
      PROVE  /\ Followed(q)' /\ \A k \in Calls(q)' : Mild(q, k)'
             /\ \A n : Owes(q, n) => Owes(q, n)'
  <2>1. Calls(q)' = Calls(q) /\ todo'[q] = todo[q] /\ cmd'[q] = cmd[q]
    BY <1>1 DEF Calls
  <2>2. \A k : Mild(q, k) => Mild(q, k)'
    BY <1>1, <1>2, <2>1 DEF Mild, Bad, Present
  <2> QED  BY <1>1, <1>4, <2>1, <2>2 DEF Followed, Owes, Now
<1>6. c.kind \in {"register", "destroy", "set", "autosetup", "initialized", "boot"}
  BY <1>1 DEF Clean, Command
<1>7. ASSUME NEW k \in Calls(p)' PROVE Mild(p, k)'
  <2>1. Asks(c, k)
    BY <1>1, <1>7
  <2>2. /\ k.err = "fail" /\ k.op # "put" /\ k.op \notin Bridging
        /\ k.op \in {"whoami", "boot", "lookup", "adddev", "groupadd", "useradd", "stop",
                     "delete", "setflag", "list", "hasbridge", "check"}
    BY <1>6, <2>1 DEF Asks, Bridging
  <2>3. k.op = "list" => c.kind = "autosetup"
    BY <1>6, <2>1 DEF Asks
  <2>4. c.kind = "autosetup" => Len(todo'[p]) = 1
    BY <1>1 DEF Script
  <2>5. k.op = "adddev" => k.val \in host'
    BY <1>1, <1>2, <1>4, <2>1 DEF Asks, Command
  <2> QED
    BY <1>1, <2>2, <2>3, <2>4, <2>5
    DEF Mild, MildOps, SetupOps, Halting, Booting
<1>8. Followed(p)'
  <2>1. CASE c.kind = "destroy"
    <3>1. PICK s, d : s = Do("stop", c.ct, "fail") /\ d = Do("delete", c.ct, "fail")
      OBVIOUS
    <3>2. s.ct = c.ct /\ d.ct = c.ct /\ d.op = "delete" /\ s.op = "stop"
      BY <3>1 DEF Do
    <3>3. todo'[p] = <<s, d>>
      BY <1>1, <2>1, <3>1 DEF Script, RemoveContainerSync
    <3>4. DOMAIN todo'[p] = {1, 2} /\ todo'[p][1] = s /\ todo'[p][2] = d
      BY <3>3
    <3> QED  BY <3>2, <3>4 DEF Followed, Halting
  <2>2. CASE c.kind # "destroy"
    <3>1. \A k \in Calls(p)' : k.op \notin Halting
      BY <1>1, <1>6, <2>2 DEF Asks, Halting
    <3> QED  BY <3>1 DEF Calls, Followed
  <2> QED  BY <2>1, <2>2
<1>9. \A n : ~Owes(p, n)
  BY <1>2 DEF Owes, NoCommand
<1>10. \A n : Restarted(n)' <=> Restarted(n)
  BY <1>1, <1>2 DEF Restarted, Startable
<1> QED  BY <1>2, <1>4, <1>5, <1>7, <1>8, <1>9, <1>10

LEMMA RestoreNext ==
  ASSUME RestoreInv, [Next]_vars
  PROVE  RestoreInv'
<1>1. TypeInv /\ TypeInv'
  BY NextType DEF RestoreInv
<1> DEFINE Marked == \A q \in Procs : /\ todo[q] # <<>> => Active(q)
                                      /\ res[q] = "idle" => cmd[q] = NoCommand
<1>2. Marked
  BY DEF RestoreInv
<1>3. ASSUME NEW p \in Procs, Invoke(p) PROVE RestoreInv'
  <2>1. Marked'
    <3>1. /\ res'[p] = "running"
          /\ \A q \in Procs \ {p} :
               todo'[q] = todo[q] /\ res'[q] = res[q] /\ cmd'[q] = cmd[q]
      BY <1>1, <1>3, Invoked
    <3> QED  BY <1>2, <3>1 DEF Active
  <2> QED  BY <1>1, <1>3, <2>1, InvokeCleanRestores DEF RestoreInv
<1>4. ASSUME NEW p \in Procs, Break(p) PROVE RestoreInv'
  <2>1. ~Clean'
    <3>1. Faulty(p)
      BY <1>4 DEF Break, Fault, Kill
    <3> QED  BY <1>1, <3>1 DEF Faulty, TypeInv, TypeOK, Clean
  <2>2. Marked'
    <3>1. /\ cmd' = cmd
          /\ \A q \in Procs \ {p} : todo'[q] = todo[q] /\ res'[q] = res[q]
          /\ \/ todo[p] # <<>> /\ Raise(p)
             \/ todo'[p] = <<>> /\ res'[p] = "killed"
      BY <1>1, <1>4, BrokenOff
    <3>2. ASSUME todo[p] # <<>>, Raise(p)
          PROVE  (todo'[p] # <<>> => Active(p)') /\ res'[p] # "idle"
      BY <1>1, <1>2, <3>2, MovesOn DEF Moves
    <3> QED  BY <1>2, <3>1, <3>2 DEF Active
  <2> QED  BY <1>1, <2>1, <2>2 DEF RestoreInv
<1>5. CASE Replug \/ UpgradeDriver
  <2>1. ~Clean' /\ UNCHANGED <<todo, res, cmd>>
    BY <1>1, <1>5 DEF Replug, UpgradeDriver, ChangeHost, TypeInv, TypeOK, Clean
  <2>2. Marked'
    BY <1>2, <2>1 DEF Active
  <2> QED  BY <1>1, <2>1, <2>2 DEF RestoreInv
<1>6. CASE UNCHANGED vars
  <2>1. UNCHANGED <<ct, host, cmd, todo, res, halted, faults, hostChanges>>
    BY <1>6 DEF vars
  <2>2. \A q, c : Mild(q, c)' <=> Mild(q, c)
    BY <2>1 DEF Mild, Bad, Present
  <2>3. \A q : Followed(q)' <=> Followed(q)
    BY <2>1 DEF Followed
  <2>4. \A q, n : Owes(q, n)' <=> Owes(q, n)
    BY <2>1 DEF Owes, Calls, Now
  <2>5. \A n : Restarted(n)' <=> Restarted(n)
    BY <2>1 DEF Restarted, Startable
  <2>6. \A q : Calls(q)' = Calls(q)
    BY <2>1 DEF Calls
  <2>7. (Clean' <=> Clean) /\ Marked'
    BY <1>2, <2>1 DEF Clean, Active
  <2> QED  BY <1>1, <2>1, <2>2, <2>3, <2>4, <2>5, <2>6, <2>7 DEF RestoreInv
<1> QED  BY <1>3, <1>4, <1>5, <1>6, StepRestores DEF Next

(* Commands at once, as long as nothing fails for a reason from outside and *)
(* nothing is made or repaired: when all have ended, and every autosetup    *)
(* without an error, what the autosetups stopped is up again, gone, or LXD  *)
(* refuses to start it - however many they are, next to registers, boots,   *)
(* sets and destroys, and in whatever order their requests arrive.          *)
THEOREM SetupsHeal ==
  ASSUME HomesThere
  PROVE  Spec => []SetupsRestore
<1>1. Init => RestoreInv
  <2> SUFFICES ASSUME Init PROVE RestoreInv
    OBVIOUS
  <2>1. \A p \in Procs : /\ todo[p] = <<>> /\ res[p] = "idle" /\ cmd[p] = NoCommand
                         /\ halted[p] = {}
    BY DEF Init
  <2>2. Users \cup {"tmp"} \subseteq host
    BY DEF Init, HomesThere
  <2>3. \A p \in Procs : Calls(p) = {} /\ Followed(p)
    BY <2>1 DEF Calls, Followed
  <2> QED  BY <2>1, <2>2, <2>3, InitType DEF RestoreInv
<1>2. RestoreInv /\ [Next]_vars => RestoreInv'
  BY RestoreNext
<1>3. RestoreInv => SetupsRestore
  <2> SUFFICES ASSUME RestoreInv, Quiet, faults = 0, hostChanges = 0,
                      \A p \in Procs : /\ cmd[p].kind \notin {"create", "autofix"}
                                       /\ cmd[p].kind = "autosetup" => res[p] = "ok",
                      NEW p \in Procs, NEW n \in halted[p]
               PROVE  Restarted(n)
    BY DEF SetupsRestore, Restarted
  <2>1. Clean
    BY DEF Clean
  <2>2. \A q \in Procs : todo[q] = <<>>
    BY DEF RestoreInv, Quiet
  <2>3. \A q \in Procs : ~Owes(q, n)
    BY <2>2 DEF Owes, Calls
  <2> QED  BY <2>1, <2>3 DEF RestoreInv
<1> QED  BY <1>1, <1>2, <1>3, PTL DEF Spec
================================================================================
