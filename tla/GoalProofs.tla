-------------------------------- MODULE GoalProofs -----------------------------
(****************************************************************************)
(* One command at a time, a create or an autofix that succeeds has reached  *)
(* every one of its goals: whatever a goal still lacks, a call that is to   *)
(* be made gives, and no call takes a goal away without one behind it that  *)
(* gives it back.                                                           *)
(****************************************************************************)
EXTENDS EditProofs

(* No node and no user has the name of the device of the driver.            *)
NamesApart == "nv-bin" \notin Cards \cup NvNodes \cup Users

(* What a create or an autofix is to achieve, as a set of goals.  vals is   *)
(* what a device may be, by the fixable that sees to it.                    *)
DeviceGoal(n, d, vals, by) ==
    [goal |-> "device", ct |-> n, dev |-> d, vals |-> vals, by |-> by]
Goal(what, n, d) == [goal |-> what, ct |-> n, dev |-> d, vals |-> {}, by |-> "none"]

Dir == IF nv \in host THEN nv ELSE "none"
Sound == DevValue \ (Path \ host)
Mounted == DevValue \ {"none"}

Repaired(n) ==
    {DeviceGoal(n, d, Sound, "devices") : d \in Dev}
    \cup {DeviceGoal(n, d, Mounted, "dri") : d \in Cards \cap host}
    \cup {Goal("access", n, "none")}
    \cup IF Dir = "none" THEN {}
         ELSE {DeviceGoal(n, "nv-bin", {Dir}, "nvidia"), Goal("ldconf", n, "none")}
              \cup {DeviceGoal(n, d, Mounted, "nvidia") : d \in NvNodes \cap host}

Registered(n, u) ==
    {DeviceGoal(n, "tmp", {"tmp"}, "none"), DeviceGoal(n, u, {u}, "none"),
     Goal("user", n, u)}

Goals(p) ==
    IF Creating(p)
    THEN Repaired(cmd[p].ct) \cup Registered(cmd[p].ct, cmd[p].user)
    ELSE UNION {Repaired(n) \cup {Goal("running", n, "none"), Goal("loaded", n, "none")} :
                   n \in ClickTargets}

Have(g) ==
    /\ g.goal = "device" => ct[g.ct].cfg.devs[g.dev] \in g.vals
    /\ g.goal = "access" => ct[g.ct].access
    /\ g.goal = "ldconf" => ct[g.ct].ldconf # "absent"
    /\ g.goal = "running" => ct[g.ct].status = "Running"
    /\ g.goal = "loaded" => ct[g.ct].ldconf # "written"
    /\ g.goal = "user" => g.dev \in ct[g.ct].users

(* The calls that end in a goal, ...                                        *)
GivesDevice(c, g) ==
    \/ c.op = "fix" /\ c.arg = g.by
    \/ /\ c.ct = g.ct
       /\ \/ c.op = g.by /\ c.cfg.devs[g.dev] \notin g.vals
          \/ c.op = "adddev" /\ c.arg = g.dev /\ c.val \in g.vals
          \/ c.op = "rmdev" /\ c.arg = g.dev /\ "none" \in g.vals
          \/ c.op = "put" /\ c.cfg.devs[g.dev] \in g.vals

Gives(c, g) ==
    \/ g.goal = "device" /\ GivesDevice(c, g)
    \/ /\ g.goal = "access"
       /\ (c.op = "fix" /\ c.arg = "access") \/ (c.op = "access" /\ c.ct = g.ct)
    \/ /\ g.goal = "ldconf"
       /\ \/ c.op = "fix" /\ c.arg = "nvidia"
          \/ c.op \in {"nvidia", "ldconf"} /\ c.ct = g.ct
    \/ /\ g.goal = "running"
       /\ c.op = "targets" \/ (c.op \in {"update", "boot", "start", "unfreeze"} /\ c.ct = g.ct)
    \/ /\ g.goal = "loaded"
       /\ c.op = "targets" \/ (c.op \in {"update", "ldconfig"} /\ c.ct = g.ct)
    \/ g.goal = "user" /\ c.op = "useradd" /\ c.ct = g.ct /\ c.arg = g.dev

(* ... and those that may take it away.                                     *)
DropsDevice(c, g) ==
    \/ c.op = "fix" /\ c.arg = "devices" /\ "none" \notin g.vals
    \/ /\ c.ct = g.ct
       /\ \/ c.op = "devices" /\ "none" \notin g.vals
          \/ c.op = "adddev" /\ c.arg = g.dev /\ c.val \notin g.vals
          \/ c.op = "rmdev" /\ c.arg = g.dev /\ "none" \notin g.vals
          \/ c.op = "put" /\ c.cfg.devs[g.dev] \notin g.vals

Drops(c, g) ==
    \/ g.goal = "device" /\ DropsDevice(c, g)
    \/ g.goal = "running" /\ c.op \in {"stop", "halt"} /\ c.ct = g.ct
    \/ /\ g.goal = "loaded"
       /\ \/ c.op = "fix" /\ c.arg = "nvidia"
          \/ c.op \in {"nvidia", "ldconf"} /\ c.ct = g.ct
    \/ c.op = "init"

Assured(p, g) == Have(g) \/ \E c \in Calls(p) : Gives(c, g)
Guarded(p, g) ==
    \A i \in DOMAIN todo[p] : Drops(todo[p][i], g) =>
        \E j \in DOMAIN todo[p] : j > i /\ Gives(todo[p][j], g)

Restarting == {"update", "stop", "halt", "boot", "start", "unfreeze", "ldconfig"}
RepairOps ==
    Fixables \cup Restarting
    \cup {"init", "fix", "rmdev", "adddev", "put", "ldconf", "whoami", "lookup",
          "groupadd", "useradd", "targets"}

(* A call of such a command; only the last restart of a create may fail     *)
(* unnoticed.                                                               *)
Minded(p, c) ==
    /\ c.op \in RepairOps /\ c.err \in {"fail", "rollback", "drop"}
    /\ c.err = "drop" => c.op \in Restarting /\ Creating(p)
    /\ c.op = "init" => /\ Creating(p) /\ c.ct = cmd[p].ct
                        /\ c.val = cmd[p].flag /\ c.err = "fail"
InitOnce(p) == \A i \in DOMAIN todo[p] : todo[p][i].op = "init" => i = 1
DropsLast(p) ==
    \A i, j \in DOMAIN todo[p] : i < j /\ todo[p][i].err = "drop" => todo[p][j].err = "drop"

(* The container of a create, once it is made.                              *)
Made(p) ==
    LET c == ct[cmd[p].ct]
    IN  /\ c.status # "Absent" /\ c.cfg.click /\ ~c.eph
        /\ c.cfg.updates = (cmd[p].flag = "true")

Delivering(p) ==
    /\ \A c \in Calls(p) : Minded(p, c)
    /\ InitOnce(p) /\ DropsLast(p)
    /\ Creating(p) /\ ~At(p, "init") => Made(p)
    /\ \A g \in Goals(p) : Assured(p, g) /\ Guarded(p, g)

Delivers(p) == cmd[p].kind \in {"create", "autofix"} /\ res[p] = "running"
GoalInv == EditInv /\ \A p \in Procs : Delivers(p) => Delivering(p)

--------------------------------------------------------------------------------
(* What the goals are.                                                      *)
Shaped(g) ==
    /\ g.ct \in Names
    /\ g.goal \in {"device", "access", "ldconf", "running", "loaded", "user"}
    /\ g.goal = "ldconf" => Dir # "none"
    /\ g.goal = "device" =>
         /\ g.dev \in Dev
         /\ \/ g.vals = Sound /\ g.by = "devices"
            \/ g.vals = Mounted /\ g.by = "dri" /\ g.dev \in Cards \cap host
            \/ /\ g.by = "nvidia" /\ Dir # "none"
               /\ \/ g.vals = Mounted /\ g.dev \in NvNodes \cap host
                  \/ g.vals = {Dir} /\ g.dev = "nv-bin"
            \/ g.vals = {g.dev} /\ g.by = "none" /\ g.dev \in Users \cup {"tmp"}

LEMMA RepairedShape ==
  ASSUME NEW n \in Names, NEW g \in Repaired(n)
  PROVE  Shaped(g) /\ g.ct = n /\ g.goal \in {"device", "access", "ldconf"}
<1>1. ASSUME NEW d \in Dev, g = DeviceGoal(n, d, Sound, "devices")
      PROVE  Shaped(g) /\ g.ct = n /\ g.goal = "device"
  BY <1>1 DEF Shaped, DeviceGoal
<1>2. ASSUME NEW d \in Cards \cap host, g = DeviceGoal(n, d, Mounted, "dri")
      PROVE  Shaped(g) /\ g.ct = n /\ g.goal = "device"
  BY <1>2 DEF Shaped, DeviceGoal, Dev
<1>3. ASSUME NEW d \in NvNodes \cap host, Dir # "none",
             g = DeviceGoal(n, d, Mounted, "nvidia")
      PROVE  Shaped(g) /\ g.ct = n /\ g.goal = "device"
  BY <1>3 DEF Shaped, DeviceGoal, Dev
<1>4. ASSUME Dir # "none", g = DeviceGoal(n, "nv-bin", {Dir}, "nvidia")
      PROVE  Shaped(g) /\ g.ct = n /\ g.goal = "device"
  BY <1>4 DEF Shaped, DeviceGoal, Dev
<1>5. ASSUME g = Goal("access", n, "none") \/ (Dir # "none" /\ g = Goal("ldconf", n, "none"))
      PROVE  Shaped(g) /\ g.ct = n /\ g.goal \in {"access", "ldconf"}
  BY <1>5 DEF Shaped, Goal
<1> QED  BY <1>1, <1>2, <1>3, <1>4, <1>5 DEF Repaired

LEMMA GoalShape ==
  ASSUME NEW p, cmd[p] \in Command, NEW g \in Goals(p)
  PROVE  /\ Shaped(g)
         /\ Creating(p) => g.ct = cmd[p].ct /\ g.goal \notin {"running", "loaded"}
         /\ ~Creating(p) => g.ct \in ClickTargets
<1>1. cmd[p].ct \in Names /\ cmd[p].user \in Users
  BY DEF Command
<1>2. CASE Creating(p)
  <2>1. CASE g \in Repaired(cmd[p].ct)
    BY <1>1, <1>2, <2>1, RepairedShape
  <2>2. CASE g \in Registered(cmd[p].ct, cmd[p].user)
    BY <1>1, <1>2, <2>2 DEF Registered, DeviceGoal, Goal, Shaped, Dev
  <2> QED  BY <1>2, <2>1, <2>2 DEF Goals
<1>3. CASE ~Creating(p)
  <2>1. PICK n \in ClickTargets :
           g \in Repaired(n) \cup {Goal("running", n, "none"), Goal("loaded", n, "none")}
    BY <1>3 DEF Goals
  <2>2. n \in Names
    BY DEF ClickTargets
  <2>3. CASE g \in Repaired(n)
    BY <1>3, <2>2, <2>3, RepairedShape
  <2>4. CASE g \in {Goal("running", n, "none"), Goal("loaded", n, "none")}
    BY <1>3, <2>2, <2>4 DEF Goal, Shaped
  <2> QED  BY <2>1, <2>3, <2>4
<1> QED  BY <1>2, <1>3

(* Which devices serve the goals that name them.                            *)
LEMMA DeviceServes ==
  ASSUME TypeInv, Users \cup {"tmp"} \subseteq host, NamesApart,
         NEW g, Shaped(g), g.goal = "device"
  PROVE  /\ \A x \in Cards \cup NvNodes \cup Users \cup {"tmp"} :
              x \in host /\ g.dev = x => x \in g.vals
         /\ g.dev = "nv-bin" /\ Dir # "none" => Dir \in g.vals
         /\ g.dev = "nv-bin" /\ "none" \notin g.vals => g.vals = {Dir} /\ g.by = "nvidia"
         /\ g.by = "devices" =>
              "none" \in g.vals /\ \A v \in DevValue : v \notin g.vals => v \in Path \ host
         /\ g.by \in {"dri", "nvidia"} /\ g.dev # "nv-bin" =>
              \A v \in DevValue : v \notin g.vals => v = "none"
<1>1. host \subseteq Path /\ "none" \notin Path /\ "none" \in DevValue
      /\ Path \subseteq DevValue
  BY LxdAssumption DEF TypeInv, TypeOK, LxdTypeOK, DevValue
<1>2. /\ "none" \in Sound /\ host \subseteq Sound /\ host \subseteq Mounted
      /\ \A v \in DevValue : v \notin Sound => v \in Path \ host
      /\ \A v \in DevValue : v \notin Mounted => v = "none"
  BY <1>1 DEF Sound, Mounted
<1>3. Dir # "none" => Dir \in host
  BY DEF Dir
<1> QED  BY <1>2, <1>3 DEF Shaped, NamesApart

--------------------------------------------------------------------------------
(* The action of the calls that have no lemma yet.                          *)
LEMMA StepOfRepair ==
  ASSUME NEW p, Step(p)
  PROVE  /\ Now(p).op = "update" => UpdateConfigSync(p)
         /\ Now(p).op = "ldconfig" => Ldconfig(p)
         /\ Now(p).op = "access" => FixAccess(p)
         /\ Now(p).op = "ldconf" => WriteLDConf(p)
         /\ Now(p).op = "targets" => UpdateTargets(p)
         /\ Now(p).op = "groupadd" => GroupAdd(p)
         /\ Now(p).op = "useradd" => UserAdd(p)
         /\ UNCHANGED <<host, nv, cmd>>
<1> DEFINE Of(A, ops) == A => Now(p).op \in ops
<1>1. /\ Of(BootContainerSync(p), {"boot"}) /\ Of(Start(p), {"start", "unfreeze"})
      /\ Of(StopContainerSync(p), {"stop"}) /\ Of(Stop(p), {"halt"})
      /\ Of(Delete(p), {"delete"}) /\ Of(AddDeviceSync(p), {"adddev"})
      /\ Of(RemoveDeviceSync(p), {"rmdev"}) /\ Of(SetContainerConfig(p), {"setflag"})
      /\ Of(Put(p), {"put"})
  BY DEF BootContainerSync, Start, StopContainerSync, Stop, Delete, AddDeviceSync,
         RemoveDeviceSync, SetContainerConfig, Put, At, Now
<1>2. /\ Of(UpdateConfigSync(p), {"update"}) /\ Of(Ldconfig(p), {"ldconfig"})
      /\ Of(FixAccess(p), {"access"}) /\ Of(WriteLDConf(p), {"ldconf"})
      /\ Of(UpdateTargets(p), {"targets"}) /\ Of(GroupAdd(p), {"groupadd"})
      /\ Of(UserAdd(p), {"useradd"})
  BY DEF UpdateConfigSync, Ldconfig, FixAccess, WriteLDConf, UpdateTargets, GroupAdd,
         UserAdd, At, Now
<1>3. /\ Of(Fix(p), {"fix"}) /\ Of(Check(p), {"check"}) /\ Of(FixDevices(p), {"devices"})
      /\ Of(FixDRI(p), {"dri"}) /\ Of(FixNvidia(p), {"nvidia"})
      /\ Of(InitContainer(p), {"init"}) /\ Of(KnownUser(p), {"whoami", "lookup"})
  BY DEF Fix, Check, FixDevices, FixDRI, FixNvidia, InitContainer, KnownUser, At, Now
<1>4. Of(NetworkStep(p), {"list", "bridge", "hasbridge", "netcreate", "profile", "nicdel",
                          "nicadd", "profput"})
  BY DEF NetworkStep, ListContainers, CreateBridgeNeeded, LxdBridgeConfigured,
         NetworkCreate, ProfileConfig, ProfileDevice, ProfilePut, At, Now
<1> QED  BY <1>1, <1>2, <1>3, <1>4 DEF Step, SyncStep, FixingStep

(* What becomes of the loader configuration.                                *)
LEMMA StepLoads ==
  ASSUME TypeInv, NEW p \in Procs, Step(p), Now(p).op \in {"ldconf", "ldconfig"}
  PROVE  \/ UNCHANGED ct
         \/ \E x \in {"absent", "written", "loaded"} :
              /\ ct' = [ct EXCEPT ![Now(p).ct].ldconf = x]
              /\ x = "absent" => ct[Now(p).ct].ldconf = "absent" /\ Now(p).op = "ldconfig"
              /\ x = "written" => Now(p).op = "ldconf"
<1> DEFINE old == ct[Now(p).ct].ldconf
<1>1. old \in {"absent", "written", "loaded"}
  <2>1. Now(p).ct \in Names
    BY NowType, StepMoves DEF Call
  <2> QED  BY <2>1 DEF TypeInv, TypeOK, LxdTypeOK, Container
<1>2. CASE Now(p).op = "ldconf"
  <2>1. WriteLDConf(p)
    BY <1>2, StepOfRepair
  <2> DEFINE x == IF old = "absent" THEN "written" ELSE old
  <2>2. UNCHANGED ct \/ ct' = [ct EXCEPT ![Now(p).ct].ldconf = x]
    BY <2>1 DEF WriteLDConf, Refuse, server
  <2>3. x \in {"absent", "written", "loaded"} /\ x # "absent"
    BY <1>1
  <2> HIDE DEF x
  <2> QED  BY <1>2, <2>2, <2>3
<1>3. CASE Now(p).op = "ldconfig"
  <2>1. Ldconfig(p)
    BY <1>3, StepOfRepair
  <2> DEFINE x == IF old = "absent" THEN old ELSE "loaded"
  <2>2. UNCHANGED ct \/ ct' = [ct EXCEPT ![Now(p).ct].ldconf = x]
    BY <2>1 DEF Ldconfig, Refuse, server
  <2>3. x \in {"absent", "written", "loaded"} /\ x # "written"
        /\ (x = "absent" => old = "absent")
    BY <1>1
  <2> HIDE DEF x
  <2> QED  BY <1>3, <2>2, <2>3
<1> QED  BY <1>2, <1>3

(* A goal that is reached stays, unless the current call may take it away   *)
(* or its container goes.                                                   *)
LEMMA HaveStays ==
  ASSUME TypeInv, NEW p \in Procs, Step(p), Minded(p, Now(p)),
         NEW g, Shaped(g), Have(g), Present(g.ct)'
  PROVE  Have(g)' \/ Drops(Now(p), g)
<1> DEFINE t == Now(p)
<1>1. /\ todo[p] # <<>> /\ t \in Call /\ Effect(p) /\ ct \in [Names -> Container]
      /\ t.ct \in Names /\ g.ct \in Names /\ ct[g.ct] \in Container
  BY StepMoves, NowIsCall, StepEffect DEF TypeInv, TypeOK, LxdTypeOK, Call, Shaped
<1>2. CASE ct'[g.ct] = ct[g.ct]
  BY <1>2 DEF Have
<1>3. CASE t.ct = g.ct
  <2>1. CASE Boots(p)
    BY <1>1, <1>3, <2>1 DEF Boots, Have, Container
  <2>2. CASE Halts(p)
    <3>1. ct'[g.ct] = [ct[g.ct] EXCEPT !.status = "Stopped"]
      BY <1>1, <1>3, <2>2 DEF Halts, AfterStop, Present, NoContainer
    <3>2. CASE g.goal = "running"
      BY <1>3, <2>2, <3>2 DEF Drops, Halts
    <3>3. CASE g.goal # "running"
      BY <1>1, <3>1, <3>3 DEF Have, Container
    <3> QED  BY <3>2, <3>3
  <2>3. CASE Puts(p)
    <3>1. ct'[g.ct] = [ct[g.ct] EXCEPT !.cfg = t.cfg]
      BY <1>1, <1>3, <2>3 DEF Puts
    <3>2. CASE g.goal = "device"
      <4>1. ct'[g.ct].cfg = t.cfg
        BY <1>1, <3>1 DEF Container
      <4> QED  BY <1>3, <2>3, <3>2, <4>1 DEF Drops, DropsDevice, Puts, Have
    <3>3. CASE g.goal # "device"
      BY <1>1, <3>1, <3>3 DEF Have, Container
    <3> QED  BY <3>2, <3>3
  <2>4. CASE Registers(p)
    BY <1>1, <1>3, <2>4 DEF Registers, Have, Container
  <2>5. CASE Opens(p)
    BY <1>1, <1>3, <2>5 DEF Opens, Have, Container
  <2>6. CASE Loads(p)
    <3>1. CASE ct' = ct
      BY <1>2, <3>1
    <3>2. ASSUME ct' # ct
          PROVE  \E x \in {"absent", "written", "loaded"} :
                   /\ ct'[g.ct] = [ct[g.ct] EXCEPT !.ldconf = x]
                   /\ x = "absent" => ct[g.ct].ldconf = "absent"
                   /\ x = "written" => t.op = "ldconf"
      <4>1. t.op \in {"ldconf", "ldconfig"}
        BY <2>6 DEF Loads
      <4> QED  BY <1>1, <1>3, <3>2, <4>1, StepLoads
    <3>3. CASE g.goal = "loaded" /\ t.op = "ldconf"
      BY <1>3, <3>3 DEF Drops
    <3>4. CASE ~(g.goal = "loaded" /\ t.op = "ldconf") /\ ct' # ct
      BY <1>1, <3>2, <3>4 DEF Have, Container
    <3> QED  BY <3>1, <3>3, <3>4
  <2>7. CASE Makes(p)
    BY <2>7 DEF Makes, Drops
  <2>8. ~Deletes(p)
    BY DEF Deletes, Minded, RepairOps, Fixables, Restarting
  <2> QED
    BY <1>1, <1>2, <2>1, <2>2, <2>3, <2>4, <2>5, <2>6, <2>7, <2>8 DEF Effect
<1>4. CASE t.ct # g.ct
  <2>1. ct'[g.ct] = ct[g.ct]
    BY <1>1, <1>4
    DEF Effect, Boots, Halts, Deletes, Makes, Puts, Registers, Opens, Loads
  <2> QED  BY <1>2, <2>1
<1> QED  BY <1>3, <1>4

--------------------------------------------------------------------------------
(* What the current call is replaced by, seen from one goal: what it gives  *)
(* is there, or given by one of the new calls; and what one of them takes   *)
(* away is given behind it, or was missing or at stake before.              *)
Leads(t, ts, g) ==
    /\ Gives(t, g) => Have(g) \/ \E i \in DOMAIN ts : Gives(ts[i], g)
    /\ \A i \in DOMAIN ts : Drops(ts[i], g) =>
         \/ Drops(t, g)
         \/ ~Have(g) /\ ~Gives(t, g)
         \/ \E j \in DOMAIN ts : j > i /\ Gives(ts[j], g)

GoalMove(p, g) ==
    \E ts \in Seq(Call) :
        /\ Continue(p, ts)
        /\ Leads(Now(p), ts, g) \/ (ts = <<>> /\ (Gives(Now(p), g) => Have(g)'))
        /\ ts # <<>> => UNCHANGED ct

LEMMA GoalNext ==
  ASSUME TypeInv, NEW p \in Procs, todo[p] # <<>>, NEW g,
         Assured(p, g), Guarded(p, g), GoalMove(p, g),
         Have(g) => Have(g)' \/ Drops(Now(p), g)
  PROVE  Assured(p, g)' /\ Guarded(p, g)'
<1>1. PICK ts \in Seq(Call) :
        /\ Continue(p, ts)
        /\ Leads(Now(p), ts, g) \/ (ts = <<>> /\ (Gives(Now(p), g) => Have(g)'))
  BY DEF GoalMove
<1> DEFINE l == Len(ts)
<1>2. /\ l \in Nat /\ Len(todo[p]) \in Nat \ {0} /\ Now(p) = todo[p][1]
      /\ DOMAIN todo[p] = 1..Len(todo[p]) /\ 1 \in DOMAIN todo[p]
      /\ DOMAIN todo'[p] = 1..(l + Len(todo[p]) - 1)
      /\ \A i \in DOMAIN todo'[p] : i <= l => i \in DOMAIN ts /\ todo'[p][i] = ts[i]
      /\ \A i \in DOMAIN todo'[p] : i > l =>
           i - l + 1 \in DOMAIN todo[p] /\ todo'[p][i] = todo[p][i - l + 1]
  BY <1>1, Rest
<1>3. PICK m \in Nat \ {0} : m = Len(todo[p])
  BY <1>2
<1>4. DOMAIN ts = 1..l
  OBVIOUS
<1> HIDE DEF l
<1>5. ASSUME NEW j \in 2..m
      PROVE  j + l - 1 \in DOMAIN todo'[p] /\ todo'[p][j + l - 1] = todo[p][j]
  <2>1. j + l - 1 \in 1..(l + m - 1) /\ j + l - 1 > l /\ j + l - 1 - l + 1 = j
    BY <1>2, <1>3, <1>5
  <2> QED  BY <1>2, <1>3, <2>1
<1>6. ASSUME NEW i \in DOMAIN ts
      PROVE  i \in DOMAIN todo'[p] /\ todo'[p][i] = ts[i]
  BY <1>2, <1>3, <1>4
(* A goal that is given behind the current call still is.                   *)
<1>7. ASSUME NEW j \in 2..m, Gives(todo[p][j], g)
      PROVE  \A i \in DOMAIN todo'[p] : i <= l =>
                \E k \in DOMAIN todo'[p] : k > i /\ Gives(todo'[p][k], g)
  <2>1. j + l - 1 \in DOMAIN todo'[p] /\ Gives(todo'[p][j + l - 1], g)
    BY <1>5, <1>7
  <2> SUFFICES ASSUME NEW i \in DOMAIN todo'[p], i <= l
               PROVE  j + l - 1 > i
    BY <2>1
  <2> QED  BY <1>2, <1>3
<1>8. ASSUME NEW j \in 2..m, Gives(todo[p][j], g)
      PROVE  \E c \in Calls(p)' : Gives(c, g)
  BY <1>5, <1>8 DEF Calls
<1>9. ASSUME Drops(Now(p), g)
      PROVE  \E j \in 2..m : Gives(todo[p][j], g)
  <2>1. PICK j \in DOMAIN todo[p] : j > 1 /\ Gives(todo[p][j], g)
    BY <1>2, <1>9 DEF Guarded
  <2> QED  BY <1>2, <1>3, <2>1
<1>10. ASSUME ~Have(g), ~Gives(Now(p), g)
       PROVE  \E j \in 2..m : Gives(todo[p][j], g)
  <2>1. PICK j \in DOMAIN todo[p] : Gives(todo[p][j], g)
    BY <1>10 DEF Assured, Calls
  <2>2. j # 1
    BY <1>2, <1>10, <2>1
  <2> QED  BY <1>2, <1>3, <2>1, <2>2
<1>11. Assured(p, g)'
  <2>1. CASE Have(g)
    BY <1>8, <1>9, <2>1 DEF Assured
  <2>2. CASE ~Have(g) /\ Gives(Now(p), g)
    <3>1. Have(g)' \/ \E i \in DOMAIN ts : Gives(ts[i], g)
      BY <1>1, <2>2 DEF Leads
    <3> QED  BY <1>6, <3>1 DEF Assured, Calls
  <2>3. CASE ~Have(g) /\ ~Gives(Now(p), g)
    BY <1>8, <1>10, <2>3 DEF Assured
  <2> QED  BY <2>1, <2>2, <2>3
<1>12. Guarded(p, g)'
  <2> SUFFICES ASSUME NEW i \in DOMAIN todo'[p], Drops(todo'[p][i], g)
               PROVE  \E k \in DOMAIN todo'[p] : k > i /\ Gives(todo'[p][k], g)
    BY DEF Guarded
  <2>1. CASE i <= l
    <3>1. i \in DOMAIN ts /\ Drops(ts[i], g) /\ ts # <<>>
      BY <1>2, <2>1
    <3>2. \/ Drops(Now(p), g)
          \/ ~Have(g) /\ ~Gives(Now(p), g)
          \/ \E j \in DOMAIN ts : j > i /\ Gives(ts[j], g)
      BY <1>1, <3>1 DEF Leads
    <3>3. CASE \E j \in DOMAIN ts : j > i /\ Gives(ts[j], g)
      BY <1>6, <3>3
    <3> QED  BY <1>7, <1>9, <1>10, <2>1, <3>2, <3>3
  <2>2. CASE i > l
    <3>1. PICK k \in 2..m : k = i - l + 1 /\ todo'[p][i] = todo[p][k]
      BY <1>2, <1>3, <2>2
    <3>2. PICK j \in 1..m : j > k /\ Gives(todo[p][j], g)
      BY <1>2, <1>3, <3>1 DEF Guarded
    <3>3. j \in 2..m /\ j + l - 1 > i
      BY <1>2, <1>3, <2>2, <3>1, <3>2
    <3> QED  BY <1>5, <3>2, <3>3
  <2> QED  BY <1>2, <2>1, <2>2
<1> QED  BY <1>11, <1>12

(* The rest of what holds of the calls.                                     *)
LEMMA MindedNext ==
  ASSUME TypeInv, NEW p \in Procs, todo[p] # <<>>, \A c \in Calls(p) : Minded(p, c),
         InitOnce(p), DropsLast(p),
         NEW ts \in Seq(After(Now(p))), Continue(p, ts), cmd' = cmd
  PROVE  /\ \A c \in Calls(p)' : Minded(p, c)'
         /\ \A c \in Calls(p)' : c.op # "init"
         /\ InitOnce(p)' /\ DropsLast(p)'
<1> DEFINE t == Now(p)
<1>0. t \in Calls(p) /\ t \in Call /\ Minded(p, t)
  BY NowIsCall
<1>1. ASSUME NEW c \in After(t)
      PROVE  Minded(p, c) /\ c.err = t.err /\ c.op # "init"
  <2>1. c.op # "init"
    BY DEF After, Follow
  <2>2. CASE Parts(t, c)
    BY <1>0, <2>1, <2>2 DEF Parts, Minded, RepairOps, Restarting
  <2>3. CASE Changes(t, c)
    BY <1>0, <2>1, <2>3 DEF Changes, Minded, RepairOps, Restarting, Fixables
  <2>4. CASE Spreads(t, c)
    <3>1. t.op = "fix" => t.arg \in Fixables
      BY <1>0 DEF Call
    <3> QED  BY <1>0, <2>1, <2>4, <3>1
      DEF Spreads, Minded, RepairOps, Restarting, Fixables
  <2>5. CASE Repairs(t, c)
    <3>1. c.op \in {"rmdev", "adddev", "ldconf"} \/ c.op = t.op
      <4>1. \A d : [t EXCEPT !.cfg.devs[d] = "none"].op = t.op
        BY <1>0 DEF Call
      <4> QED  BY <2>5, <4>1 DEF Repairs
    <3> QED  BY <1>0, <2>1, <2>5, <3>1
      DEF Repairs, Minded, RepairOps, Restarting, Fixables
  <2>6. ~Connects(t, c)
    BY <1>0 DEF Connects, Minded, RepairOps, Restarting, Fixables
  <2> QED  BY <2>1, <2>2, <2>3, <2>4, <2>5, <2>6 DEF After
<1>2. ts \in Seq(Call) /\ \A i \in DOMAIN ts : ts[i] \in After(t)
  BY DEF After, Follow
<1> DEFINE l == Len(ts)
<1>3. /\ l \in Nat /\ Len(todo[p]) \in Nat \ {0} /\ t = todo[p][1]
      /\ DOMAIN todo[p] = 1..Len(todo[p]) /\ 1 \in DOMAIN todo[p]
      /\ DOMAIN todo'[p] = 1..(l + Len(todo[p]) - 1)
      /\ \A i \in DOMAIN todo'[p] : i <= l => i \in DOMAIN ts /\ todo'[p][i] = ts[i]
      /\ \A i \in DOMAIN todo'[p] : i > l =>
           i - l + 1 \in DOMAIN todo[p] /\ todo'[p][i] = todo[p][i - l + 1]
  BY <1>2, Rest
<1>4. PICK m \in Nat \ {0} : m = Len(todo[p])
  BY <1>3
<1> HIDE DEF l, t
<1>5. ASSUME NEW i \in DOMAIN todo'[p], i > l
      PROVE  \E k \in 2..m : k = i - l + 1 /\ todo'[p][i] = todo[p][k]
  BY <1>3, <1>4, <1>5
<1>6. ASSUME NEW i \in DOMAIN todo'[p]
      PROVE  Minded(p, todo'[p][i]) /\ todo'[p][i].op # "init"
  <2>1. CASE i <= l
    BY <1>1, <1>2, <1>3, <2>1
  <2>2. CASE i > l
    <3>1. PICK k \in 2..m : todo'[p][i] = todo[p][k]
      BY <1>5, <2>2
    <3>2. k \in DOMAIN todo[p] /\ k # 1
      BY <1>3, <1>4
    <3> QED  BY <3>1, <3>2 DEF Calls, InitOnce
  <2> QED  BY <1>3, <2>1, <2>2
<1>7. \A c : Minded(p, c) => Minded(p, c)'
  BY DEF Minded, Creating
<1>8. DropsLast(p)'
  <2> SUFFICES ASSUME NEW i \in DOMAIN todo'[p], NEW j \in DOMAIN todo'[p],
                      i < j, todo'[p][i].err = "drop"
               PROVE  todo'[p][j].err = "drop"
    BY DEF DropsLast
  <2>1. CASE j <= l
    <3>1. i <= l
      BY <1>3, <1>4, <2>1
    <3> QED  BY <1>1, <1>2, <1>3, <2>1, <3>1
  <2>2. CASE j > l
    <3>1. PICK k \in 2..m : k = j - l + 1 /\ todo'[p][j] = todo[p][k]
      BY <1>5, <2>2
    <3>2. PICK h \in 1..m : h < k /\ todo[p][h].err = "drop"
      <4>1. CASE i <= l
        <5>1. t.err = "drop"
          BY <1>1, <1>2, <1>3, <4>1
        <5> QED  BY <1>3, <1>4, <3>1, <5>1
      <4>2. CASE i > l
        <5>1. PICK h \in 2..m : h = i - l + 1 /\ todo'[p][i] = todo[p][h]
          BY <1>5, <4>2
        <5>2. h < k
          BY <1>3, <1>4, <3>1, <5>1
        <5> QED  BY <5>1, <5>2
      <4> QED  BY <1>3, <1>4, <4>1, <4>2
    <3>3. h \in DOMAIN todo[p] /\ k \in DOMAIN todo[p]
      BY <1>3, <1>4
    <3>4. todo[p][k].err = "drop"
      BY <3>2, <3>3 DEF DropsLast
    <3> QED  BY <3>1, <3>4
  <2> QED  BY <1>3, <1>4, <2>1, <2>2
<1>9. InitOnce(p)'
  BY <1>6 DEF InitOnce
<1> QED  BY <1>6, <1>7, <1>8, <1>9 DEF Calls

(* The container of a create stays its own while it runs alone.             *)
LEMMA MadeStays ==
  ASSUME EditInv, NEW p \in Procs, Step(p), Creating(p),
         Minded(p, Now(p)), Made(p) \/ (At(p, "init") /\ ~Raise(p))
  PROVE  Made(p)'
<1> DEFINE t == Now(p)
           n == cmd[p].ct
<1>1. /\ TypeInv /\ todo[p] # <<>> /\ t \in Call /\ t \in Calls(p) /\ Effect(p)
      /\ cmd' = cmd /\ ct \in [Names -> Container] /\ t.ct \in Names
      /\ n \in Names /\ ct[n] \in Container
  BY StepMoves, NowIsCall, StepEffect
  DEF EditInv, TypeInv, TypeOK, LxdTypeOK, Call, Given, Command
<1>2. CASE t.op = "init" /\ ~Raise(p)
  <2>1. InitContainer(p) /\ t.ct = n /\ t.val = cmd[p].flag
    BY <1>2, StepOf DEF Minded
  <2>2. ct'[n] = [NoContainer EXCEPT !.status = "Stopped", !.owner = p,
                     !.cfg.click = TRUE, !.cfg.updates = (cmd[p].flag = "true")]
    BY <1>1, <1>2, <2>1 DEF InitContainer, Refuse
  <2>3. /\ ct'[n].status = "Stopped" /\ ct'[n].eph = FALSE
        /\ ct'[n].cfg = [NoConfig EXCEPT !.click = TRUE,
                                        !.updates = (cmd[p].flag = "true")]
    BY <2>2 DEF NoContainer
  <2>4. ct'[n].cfg.click = TRUE /\ ct'[n].cfg.updates = (cmd[p].flag = "true")
    BY <2>3 DEF NoConfig
  <2> QED  BY <1>1, <2>3, <2>4 DEF Made
<1>3. CASE Made(p)
  <2>0. Made(p)
    BY <1>3
  <2>1. CASE ct'[n] = ct[n]
    BY <1>1, <2>0, <2>1 DEF Made
  <2>2. CASE t.ct # n
    BY <1>1, <2>1, <2>2
    DEF Effect, Boots, Halts, Deletes, Makes, Puts, Registers, Opens, Loads
  <2>3. CASE t.ct = n /\ Boots(p)
    BY <1>1, <2>0, <2>3 DEF Boots, Made, Container
  <2>4. CASE t.ct = n /\ Halts(p)
    BY <1>1, <2>0, <2>4 DEF Halts, AfterStop, Made, Container
  <2>5. CASE t.ct = n /\ Puts(p)
    <3>1. /\ ct'[n] = [ct[n] EXCEPT !.cfg = t.cfg] /\ Edits(p, t)
          /\ ct[n].cfg \in Config
      BY <1>1, <2>5, PutEdits DEF Container
    <3>2. ~Sets(p, t)
      BY DEF Sets, Creating
    <3>3. t.cfg.click = ct[n].cfg.click /\ t.cfg.updates = ct[n].cfg.updates
      BY <2>5, <3>1, <3>2 DEF Edits, Mounts, Unmounts, Config
    <3>4. ct'[n].status = ct[n].status /\ ct'[n].eph = ct[n].eph /\ ct'[n].cfg = t.cfg
      BY <1>1, <3>1 DEF Container
    <3> QED  BY <1>1, <2>0, <3>3, <3>4 DEF Made
  <2>6. CASE t.ct = n /\ (Registers(p) \/ Opens(p))
    BY <1>1, <2>0, <2>6 DEF Registers, Opens, Made, Container
  <2>7. CASE t.ct = n /\ Loads(p)
    BY <1>1, <2>0, <2>7 DEF Loads, Made, Container
  <2>8. ~Deletes(p) /\ ~Makes(p)
    BY <2>0 DEF Deletes, Makes, Minded, RepairOps, Fixables, Restarting, Made, Present
  <2> QED
    BY <1>1, <2>1, <2>2, <2>3, <2>4, <2>5, <2>6, <2>7, <2>8 DEF Effect
<1> QED  BY <1>2, <1>3 DEF At, Now

--------------------------------------------------------------------------------
(* Each kind of call, seen from a goal.                                     *)
LEMMA GoalEnd ==
  ASSUME NEW p, NEW g, Continue(p, <<>>), Gives(Now(p), g) => Have(g)'
  PROVE  GoalMove(p, g)
<1>1. <<>> \in Seq(Call)
  OBVIOUS
<1> QED  BY <1>1 DEF GoalMove

LEMMA GoalInto ==
  ASSUME NEW p, NEW g, NEW c \in Call, Continue(p, <<c>>), UNCHANGED ct,
         Gives(Now(p), g) => Gives(c, g),
         Drops(c, g) => Drops(Now(p), g) \/ (~Have(g) /\ ~Gives(Now(p), g))
  PROVE  GoalMove(p, g)
<1>1. PICK ts : ts = <<c>>
  OBVIOUS
<1>2. ts \in Seq(Call) /\ DOMAIN ts = {1} /\ ts[1] = c
  BY <1>1
<1>3. Leads(Now(p), ts, g)
  BY <1>2 DEF Leads
<1> QED  BY <1>1, <1>2, <1>3 DEF GoalMove

(* Calls that are one request, or none: what they give is there.            *)
LEMMA RequestGoal ==
  ASSUME TypeInv, NEW p \in Procs, Step(p), ~Raise(p), NEW g, Shaped(g),
         Now(p).op \in {"whoami", "lookup", "groupadd", "useradd", "init", "access",
                        "ldconf", "ldconfig", "put", "start", "unfreeze", "halt"}
  PROVE  GoalMove(p, g)
<1> DEFINE t == Now(p)
<1>1. /\ t \in Call /\ ct \in [Names -> Container] /\ t.ct \in Names
      /\ ct[t.ct] \in Container
  BY StepMoves, NowIsCall DEF TypeInv, TypeOK, LxdTypeOK, Call
<1>2. CASE t.op \in {"whoami", "lookup", "groupadd", "init", "halt"}
  <2>1. Continue(p, <<>>)
    BY <1>2, StepOf, StepOfRepair
    DEF KnownUser, GroupAdd, InitContainer, Stop, Answer, Refuse
  <2>2. t.op \notin {"fix", "adddev", "rmdev", "put", "access", "nvidia", "ldconf",
                     "targets", "update", "boot", "start", "unfreeze", "ldconfig",
                     "useradd", "devices", "dri", "none"}
    BY <1>2
  <2>3. ~Gives(t, g)
    BY <2>2 DEF Gives, GivesDevice, Shaped
  <2> QED  BY <2>1, <2>3, GoalEnd
<1>3. CASE t.op = "useradd"
  <2>1. Continue(p, <<>>) /\ ct' = [ct EXCEPT ![t.ct].users = @ \cup {t.arg}]
    BY <1>3, StepOfRepair DEF UserAdd, Answer, Refuse
  <2>2. Gives(t, g) => g.goal = "user" /\ g.ct = t.ct /\ g.dev = t.arg
    BY <1>3 DEF Gives, GivesDevice, Shaped
  <2>3. t.arg \in ct'[t.ct].users
    BY <1>1, <2>1 DEF Container
  <2> QED  BY <2>1, <2>2, <2>3, GoalEnd DEF Have
<1>4. CASE t.op = "access"
  <2>1. Continue(p, <<>>) /\ ct' = [ct EXCEPT ![t.ct].access = TRUE]
    BY <1>4, StepOfRepair DEF FixAccess, Refuse
  <2>2. Gives(t, g) => g.goal = "access" /\ g.ct = t.ct
    BY <1>4 DEF Gives, GivesDevice, Shaped
  <2>3. ct'[t.ct].access
    BY <1>1, <2>1 DEF Container
  <2> QED  BY <2>1, <2>2, <2>3, GoalEnd DEF Have
<1>5. CASE t.op = "ldconf"
  <2>1. /\ Continue(p, <<>>)
        /\ ct' = [ct EXCEPT ![t.ct].ldconf = IF @ = "absent" THEN "written" ELSE @]
    BY <1>5, StepOfRepair DEF WriteLDConf, Refuse
  <2>2. Gives(t, g) => g.goal = "ldconf" /\ g.ct = t.ct
    BY <1>5 DEF Gives, GivesDevice, Shaped
  <2>3. ct'[t.ct].ldconf # "absent"
    BY <1>1, <2>1 DEF Container
  <2> QED  BY <2>1, <2>2, <2>3, GoalEnd DEF Have
<1>6. CASE t.op = "ldconfig"
  <2>1. /\ Continue(p, <<>>)
        /\ ct' = [ct EXCEPT ![t.ct].ldconf = IF @ = "absent" THEN @ ELSE "loaded"]
    BY <1>6, StepOfRepair DEF Ldconfig, Answer, Refuse
  <2>2. Gives(t, g) => g.goal = "loaded" /\ g.ct = t.ct
    BY <1>6 DEF Gives, GivesDevice, Shaped
  <2>3. ct'[t.ct].ldconf # "written"
    BY <1>1, <2>1 DEF Container
  <2> QED  BY <2>1, <2>2, <2>3, GoalEnd DEF Have
<1>7. CASE t.op = "put"
  <2>1. Continue(p, <<>>) /\ ct' = [ct EXCEPT ![t.ct].cfg = t.cfg]
    BY <1>7, StepOf DEF Put, Answer, Refuse
  <2>2. Gives(t, g) => g.goal = "device" /\ g.ct = t.ct /\ t.cfg.devs[g.dev] \in g.vals
    BY <1>7 DEF Gives, GivesDevice, Shaped
  <2>3. ct'[t.ct].cfg = t.cfg
    BY <1>1, <2>1 DEF Container
  <2> QED  BY <2>1, <2>2, <2>3, GoalEnd DEF Have
<1>8. CASE t.op \in {"start", "unfreeze"}
  <2>1. Continue(p, <<>>) /\ ct' = [ct EXCEPT ![t.ct].status = "Running"]
    BY <1>8, StepOfSetup DEF Start, Answer, Refuse
  <2>2. Gives(t, g) => g.goal = "running" /\ g.ct = t.ct
    BY <1>8 DEF Gives, GivesDevice, Shaped
  <2>3. ct'[t.ct].status = "Running"
    BY <1>1, <2>1 DEF Container
  <2> QED  BY <2>1, <2>2, <2>3, GoalEnd DEF Have
<1> QED  BY <1>2, <1>3, <1>4, <1>5, <1>6, <1>7, <1>8

(* The parts of a restart.                                                  *)
LEMMA RestartGoal ==
  ASSUME TypeInv, NEW p \in Procs, Step(p), ~Raise(p), NEW g, Shaped(g),
         Now(p).op \in {"boot", "stop", "update"}
  PROVE  GoalMove(p, g)
<1> DEFINE t == Now(p)
<1>1. /\ t \in Call /\ ct \in [Names -> Container] /\ t.ct \in Names
      /\ ct[t.ct] \in Container /\ t.err \in OnError
  BY StepMoves, NowIsCall DEF TypeInv, TypeOK, LxdTypeOK, Call
<1>2. ASSUME NEW op \in {"start", "unfreeze", "halt", "stop", "boot", "ldconfig"}
      PROVE  /\ Do(op, t.ct, t.err) \in Call /\ Do(op, t.ct, t.err).op = op
             /\ Do(op, t.ct, t.err).ct = t.ct
  <2>1. Do(op, t.ct, t.err) \in Call /\ Do(op, t.ct, t.err).op = op
    BY <1>1, DoType DEF PlainOps, Ops
  <2> QED  BY <2>1 DEF Do
<1>3. CASE t.op = "boot"
  <2>0. /\ Gives(t, g) => g.goal = "running" /\ g.ct = t.ct
        /\ BootContainerSync(p)
    BY <1>3, StepOfSetup DEF Gives, GivesDevice, Shaped
  <2>1. CASE ct[t.ct].status = "Running"
    <3>1. Continue(p, <<>>) /\ UNCHANGED ct
      BY <2>0, <2>1 DEF BootContainerSync, server
    <3> QED  BY <2>0, <2>1, <3>1, GoalEnd DEF Have
  <2>2. ASSUME NEW op \in {"start", "unfreeze"}, Continue(p, <<Do(op, t.ct, t.err)>>)
        PROVE  GoalMove(p, g)
    <3> DEFINE c == Do(op, t.ct, t.err)
    <3>1. c \in Call /\ c.op = op /\ c.ct = t.ct /\ UNCHANGED ct
      BY <1>2, <2>0 DEF BootContainerSync, server
    <3> HIDE DEF c
    <3>2. Gives(t, g) => Gives(c, g)
      BY <2>0, <2>2, <3>1 DEF Gives
    <3>3. ~Drops(c, g)
      BY <2>2, <3>1 DEF Drops, DropsDevice
    <3> QED  BY <2>2, <3>1, <3>2, <3>3, GoalInto DEF c
  <2> QED  BY <2>0, <2>1, <2>2 DEF BootContainerSync
<1>4. CASE t.op = "stop"
  <2>0. StopContainerSync(p) /\ ~Gives(t, g)
    BY <1>4, StepOf DEF Gives, GivesDevice, Shaped
  <2>1. CASE Continue(p, <<>>)
    BY <2>0, <2>1, GoalEnd
  <2>2. CASE Continue(p, <<Do("halt", t.ct, t.err)>>)
    <3> DEFINE c == Do("halt", t.ct, t.err)
    <3>1. c \in Call /\ c.op = "halt" /\ c.ct = t.ct /\ UNCHANGED ct
      BY <1>2, <2>0 DEF StopContainerSync, server
    <3> HIDE DEF c
    <3>2. Drops(c, g) => Drops(t, g)
      BY <1>4, <3>1 DEF Drops, DropsDevice
    <3> QED  BY <2>0, <2>2, <3>1, <3>2, GoalInto DEF c
  <2> QED  BY <2>0, <2>1, <2>2 DEF StopContainerSync
<1>5. CASE t.op = "update"
  <2> DEFINE s == Do("stop", t.ct, t.err)
             b == Do("boot", t.ct, t.err)
             d == Do("ldconfig", t.ct, t.err)
  <2>1. /\ s \in Call /\ s.op = "stop" /\ s.ct = t.ct
        /\ b \in Call /\ b.op = "boot" /\ b.ct = t.ct
        /\ d \in Call /\ d.op = "ldconfig" /\ d.ct = t.ct
    BY <1>2
  <2>2. Continue(p, <<s, b, d>>) /\ UNCHANGED ct
    BY <1>5, StepOfRepair DEF UpdateConfigSync, server
  <2> HIDE DEF s, b, d
  <2>3. PICK ts : ts = <<s, b, d>>
    OBVIOUS
  <2>4. /\ ts \in Seq(Call) /\ DOMAIN ts = {1, 2, 3}
        /\ ts[1] = s /\ ts[2] = b /\ ts[3] = d
    BY <2>1, <2>3
  <2>5. /\ Gives(t, g) => g.goal \in {"running", "loaded"} /\ g.ct = t.ct
        /\ Drops(s, g) => g.goal = "running" /\ g.ct = t.ct
        /\ ~Drops(b, g) /\ ~Drops(d, g)
    BY <1>5, <2>1 DEF Gives, GivesDevice, Drops, DropsDevice, Shaped
  <2>6. /\ g.goal = "running" /\ g.ct = t.ct => Gives(b, g)
        /\ g.goal = "loaded" /\ g.ct = t.ct => Gives(d, g)
    BY <2>1 DEF Gives
  <2>7. Leads(t, ts, g)
    BY <2>4, <2>5, <2>6 DEF Leads
  <2> QED  BY <2>2, <2>3, <2>4, <2>7 DEF GoalMove
<1> QED  BY <1>3, <1>4, <1>5

(* A device change: the PUT of what was just read.                          *)
LEMMA ChangeGoal ==
  ASSUME TypeInv, NEW p \in Procs, Step(p), ~Raise(p), NEW g, Shaped(g),
         Now(p).op \in {"adddev", "rmdev"}
  PROVE  GoalMove(p, g)
<1> DEFINE t == Now(p)
           n == t.ct
           v == IF t.op = "adddev" THEN t.val ELSE "none"
           put == [ct[n].cfg EXCEPT !.devs[t.arg] = v]
           c == DoCfg("put", n, put, t.err)
<1>1. /\ t \in Call /\ ct \in [Names -> Container] /\ n \in Names
      /\ ct[n].cfg \in Config /\ t.err \in OnError
      /\ t.op = "adddev" => t.arg \in Dev /\ t.val \in Path
  BY StepMoves, NowIsCall DEF TypeInv, TypeOK, LxdTypeOK, Call, Container
<1>2. Continue(p, <<c>>) /\ UNCHANGED ct
  <2>1. CASE t.op = "adddev"
    BY <2>1, StepOf DEF AddDeviceSync, Edit, server
  <2>2. CASE t.op = "rmdev"
    BY <2>2, StepOf DEF RemoveDeviceSync, Edit, server
  <2> QED  BY <2>1, <2>2
<1>3. v \in DevValue
  BY <1>1 DEF DevValue
<1>4. put \in Config /\ \A d \in Dev : put.devs[d] = IF d = t.arg THEN v ELSE ct[n].cfg.devs[d]
  BY <1>1, <1>3 DEF Config
<1>5. c \in Call /\ c.op = "put" /\ c.ct = n /\ c.cfg = put
  <2>1. c \in Call /\ c.op = "put"
    BY <1>1, <1>4, DoCfgType DEF PlainOps, Ops
  <2> QED  BY <2>1 DEF DoCfg, Do
<1> HIDE DEF c, put
<1>6. Gives(t, g) => /\ g.goal = "device" /\ g.ct = n /\ g.dev = t.arg /\ v \in g.vals
                     /\ g.dev \in Dev
  BY DEF Gives, GivesDevice, Shaped
<1>7. Gives(t, g) => Gives(c, g)
  BY <1>4, <1>5, <1>6 DEF Gives, GivesDevice
<1>8. Drops(c, g) => Drops(t, g) \/ (~Have(g) /\ ~Gives(t, g))
  <2> SUFFICES ASSUME Drops(c, g) PROVE Drops(t, g) \/ (~Have(g) /\ ~Gives(t, g))
    OBVIOUS
  <2>1. g.goal = "device" /\ g.ct = n /\ put.devs[g.dev] \notin g.vals /\ g.dev \in Dev
    BY <1>5 DEF Drops, DropsDevice, Shaped
  <2>2. CASE g.dev = t.arg
    <3>1. v \notin g.vals
      BY <1>4, <2>1, <2>2
    <3> QED  BY <2>1, <2>2, <3>1 DEF Drops, DropsDevice
  <2>3. CASE g.dev # t.arg
    BY <1>4, <1>6, <2>1, <2>3 DEF Have
  <2> QED  BY <2>2, <2>3
<1> QED  BY <1>2, <1>5, <1>7, <1>8, GoalInto DEF c

(* The runs of a fixable, and the restarts, for every target.               *)
LEMMA SpreadGoal ==
  ASSUME TypeInv, NEW p \in Procs, Step(p), NEW g, Shaped(g), g.ct \in ClickTargets,
         Now(p).op \in {"fix", "targets"}
  PROVE  GoalMove(p, g)
<1> DEFINE t == Now(p)
           order == Listed(ClickTargets)
           f == [n \in ClickTargets |-> IF t.op = "fix" THEN DoCfg(t.arg, n, ct[n].cfg, t.err)
                                        ELSE Do("update", n, t.err)]
           ts == [i \in DOMAIN order |-> f[order[i]]]
<1>1. /\ t \in Call /\ ct \in [Names -> Container] /\ ClickTargets \in SUBSET Names
      /\ t.err \in OnError
  BY StepMoves, NowIsCall DEF TypeInv, TypeOK, LxdTypeOK, ClickTargets, Call
<1>2. t.op = "fix" => t.arg \in Fixables
  BY <1>1 DEF Call
<1>3. Continue(p, ts) /\ UNCHANGED ct
  <2>1. \A i \in DOMAIN order : order[i] \in ClickTargets
    BY <1>1, ListedIn
  <2>2. CASE t.op = "fix"
    <3>1. ts = [i \in DOMAIN order |-> DoCfg(t.arg, order[i], ct[order[i]].cfg, t.err)]
      BY <2>1, <2>2
    <3>2. Fix(p)
      BY <2>2, StepOf
    <3> HIDE DEF ts
    <3> QED  BY <3>1, <3>2 DEF Fix, server
  <2>3. CASE t.op = "targets"
    <3>1. ts = [i \in DOMAIN order |-> Do("update", order[i], t.err)]
      BY <2>1, <2>3
    <3>2. UpdateTargets(p)
      BY <2>3, StepOfRepair
    <3> HIDE DEF ts
    <3> QED  BY <3>1, <3>2 DEF UpdateTargets, server
  <2> QED  BY <2>2, <2>3
<1>4. ASSUME NEW n \in ClickTargets
      PROVE  /\ f[n] \in Call /\ f[n].ct = n
             /\ t.op = "fix" => f[n].op = t.arg /\ f[n].cfg = ct[n].cfg
             /\ t.op = "targets" => f[n].op = "update"
  <2>1. ct[n].cfg \in Config /\ n \in Names
    BY <1>1 DEF Container
  <2>2. CASE t.op = "fix"
    <3>1. t.arg \in PlainOps
      BY <1>2, <2>2 DEF Fixables, PlainOps, Ops
    <3>2. DoCfg(t.arg, n, ct[n].cfg, t.err) \in Call
      BY <1>1, <2>1, <3>1, DoCfgType
    <3>3. f[n] = DoCfg(t.arg, n, ct[n].cfg, t.err)
      BY <2>2
    <3> HIDE DEF f
    <3> QED  BY <2>2, <3>2, <3>3 DEF DoCfg, Do
  <2>3. CASE t.op = "targets"
    <3>1. Do("update", n, t.err) \in Call
      BY <1>1, <2>1, DoType DEF PlainOps, Ops
    <3>2. f[n] = Do("update", n, t.err)
      BY <2>3
    <3> HIDE DEF f
    <3> QED  BY <2>3, <3>1, <3>2 DEF Do
  <2> QED  BY <2>2, <2>3
<1>5. ts \in Seq(Call)
  <2> HIDE DEF f
  <2> QED  BY <1>1, <1>4, TargetsType
<1>6. /\ DOMAIN ts = DOMAIN order
      /\ \A i \in DOMAIN ts : order[i] \in ClickTargets /\ ts[i] = f[order[i]]
  <2> HIDE DEF f
  <2> QED  BY <1>1, ListedIn
<1>7. PICK k \in DOMAIN ts : ts[k] = f[g.ct]
  <2>1. IsFiniteSet(ClickTargets)
    BY LxdAssumption, FS_Subset DEF ClickTargets
  <2>2. PICK k \in DOMAIN order : order[k] = g.ct
    BY <2>1, ListedAll
  <2> HIDE DEF f, ts
  <2> QED  BY <1>6, <2>2
<1> HIDE DEF f, ts
<1>8. CASE t.op = "fix" /\ Gives(t, g) /\ ~Have(g)
  <2>1. ts[k].op = t.arg /\ ts[k].cfg = ct[g.ct].cfg /\ ts[k].ct = g.ct
    BY <1>4, <1>7, <1>8
  <2>2. Gives(ts[k], g)
    <3>1. CASE g.goal = "device"
      <4>1. t.arg = g.by
        BY <1>8, <3>1 DEF Gives, GivesDevice, Shaped
      <4>2. ct[g.ct].cfg.devs[g.dev] \notin g.vals
        BY <1>8, <3>1 DEF Have
      <4> QED  BY <2>1, <3>1, <4>1, <4>2 DEF Gives, GivesDevice
    <3>2. CASE g.goal # "device"
      BY <1>8, <2>1, <3>2 DEF Gives
    <3> QED  BY <3>1, <3>2
  <2>3. \A i \in DOMAIN ts : Drops(ts[i], g) => Drops(t, g)
    <3>1. \A i \in DOMAIN ts : ts[i].op = t.arg
      BY <1>4, <1>6, <1>8
    <3> QED  BY <1>2, <1>8, <3>1 DEF Drops, DropsDevice, Fixables
  <2> QED  BY <1>3, <1>5, <2>2, <2>3 DEF GoalMove, Leads
<1>9. CASE t.op = "fix" /\ ~(Gives(t, g) /\ ~Have(g))
  <2>1. \A i \in DOMAIN ts : Drops(ts[i], g) => Drops(t, g)
    <3>1. \A i \in DOMAIN ts : ts[i].op = t.arg
      BY <1>4, <1>6, <1>9
    <3> QED  BY <1>2, <1>9, <3>1 DEF Drops, DropsDevice, Fixables
  <2> QED  BY <1>3, <1>5, <1>9, <2>1 DEF GoalMove, Leads
<1>10. CASE t.op = "targets"
  <2>1. \A i \in DOMAIN ts : ~Drops(ts[i], g)
    <3>1. \A i \in DOMAIN ts : ts[i].op = "update"
      BY <1>4, <1>6, <1>10
    <3> QED  BY <3>1 DEF Drops, DropsDevice
  <2>2. Gives(t, g) => g.goal \in {"running", "loaded"}
    BY <1>10 DEF Gives, GivesDevice, Shaped
  <2>3. Gives(t, g) => Gives(ts[k], g)
    <3>1. ts[k].op = "update" /\ ts[k].ct = g.ct
      BY <1>4, <1>7, <1>10
    <3> QED  BY <2>2, <3>1 DEF Gives
  <2> QED  BY <1>3, <1>5, <2>1, <2>3 DEF GoalMove, Leads
<1> QED  BY <1>8, <1>9, <1>10

(* The nodes a snapshot lacks: every one is added, and no goal suffers.     *)
LEMMA AddNodesGoal ==
  ASSUME TypeInv, Users \cup {"tmp"} \subseteq host, NamesApart,
         NEW t \in Call, t.op \in {"dri", "nvidia"}, NEW nodes \in {Cards, NvNodes},
         NEW g, Shaped(g),
         NEW ts, ts = AddNodes(t, MissingNodes(t.cfg, nodes))
  PROVE  /\ ts \in Seq(Call) /\ \A i \in DOMAIN ts : ~Drops(ts[i], g)
         /\ /\ g.goal = "device" /\ g.ct = t.ct /\ g.dev \in nodes \cap host
            /\ t.cfg.devs[g.dev] = "none"
            => \E i \in DOMAIN ts : Gives(ts[i], g)
<1> DEFINE S == MissingNodes(t.cfg, nodes)
           order == Listed(S)
<1>1. IsFiniteSet(S) /\ S \subseteq nodes \cap host
  BY MissingNodesFinite DEF MissingNodes
<1>2. ts \in Seq(Call)
  <2>1. ts \in Seq(Additions(t))
    BY AddNodesAdd
  <2> QED  BY <2>1 DEF Additions, After, Follow
<1>3. order \in Seq(S)
  BY <1>1, ListedType
<1>4. \A i \in DOMAIN order : order[i] \in S
  <2> HIDE DEF order
  <2> QED  BY <1>3
<1>5. /\ DOMAIN ts = DOMAIN order
      /\ \A i \in DOMAIN ts : /\ ts[i].op = "adddev" /\ ts[i].ct = t.ct
                              /\ ts[i].arg = order[i] /\ ts[i].val = order[i]
  BY DEF AddNodes, AddDevice, DoArg, Do
<1> HIDE DEF order
<1>6. ASSUME NEW x \in S, g.goal = "device", g.dev = x
      PROVE  x \in g.vals
  BY <1>1, <1>6, DeviceServes
<1>7. ASSUME NEW i \in DOMAIN ts PROVE ~Drops(ts[i], g)
  BY <1>4, <1>5, <1>6 DEF Drops, DropsDevice
<1>8. ASSUME g.goal = "device", g.ct = t.ct, g.dev \in nodes \cap host,
             t.cfg.devs[g.dev] = "none"
      PROVE  \E i \in DOMAIN ts : Gives(ts[i], g)
  <2>1. g.dev \in S
    BY <1>8 DEF MissingNodes
  <2>2. PICK i \in DOMAIN order : order[i] = g.dev
    BY <1>1, <2>1, ListedAll DEF order
  <2> QED  BY <1>5, <1>6, <1>8, <2>1, <2>2 DEF Gives, GivesDevice
<1> QED  BY <1>2, <1>7, <1>8

LEMMA DRIGoal ==
  ASSUME EditInv, NamesApart, NEW p \in Procs, Step(p), NEW g, Shaped(g),
         Now(p).op = "dri"
  PROVE  GoalMove(p, g)
<1> DEFINE t == Now(p)
<1>1. t \in Call /\ FixDRI(p) /\ TypeInv /\ t.cfg \in Config
  BY StepMoves, NowIsCall, StepOf DEF EditInv, Call
<1>2. PICK ts : ts = AddNodes(t, MissingNodes(t.cfg, Cards))
  OBVIOUS
<1>3. Continue(p, ts) /\ UNCHANGED ct
  BY <1>1, <1>2 DEF FixDRI, server
<1>4. /\ ts \in Seq(Call) /\ \A i \in DOMAIN ts : ~Drops(ts[i], g)
      /\ /\ g.goal = "device" /\ g.ct = t.ct /\ g.dev \in Cards \cap host
         /\ t.cfg.devs[g.dev] = "none"
         => \E i \in DOMAIN ts : Gives(ts[i], g)
  BY <1>1, <1>2, AddNodesGoal DEF EditInv
<1>5. Gives(t, g) => /\ g.goal = "device" /\ g.by = "dri" /\ g.ct = t.ct
                     /\ t.cfg.devs[g.dev] \notin g.vals
  BY DEF Gives, GivesDevice, Shaped
<1>6. Gives(t, g) => g.dev \in Cards \cap host /\ t.cfg.devs[g.dev] = "none"
  BY <1>1, <1>5 DEF Shaped, Mounted, Config
<1>7. Leads(t, ts, g)
  BY <1>4, <1>5, <1>6 DEF Leads
<1> QED  BY <1>3, <1>4, <1>7 DEF GoalMove

(* A device of a snapshot is removed when it is missing on the host, and    *)
(* the others are still to be looked at.                                    *)
LEMMA DevicesGoal ==
  ASSUME EditInv, NamesApart, NEW p \in Procs, Step(p), NEW g, Shaped(g),
         Now(p).op = "devices"
  PROVE  GoalMove(p, g)
<1> DEFINE t == Now(p)
<1>1. /\ TypeInv /\ t \in Call /\ FixDevices(p) /\ t.cfg \in Config
      /\ t.ct \in Names /\ t.err \in OnError /\ UNCHANGED ct
  BY StepMoves, NowIsCall, StepOf DEF EditInv, Call, FixDevices, server
<1>2. Gives(t, g) => /\ g.goal = "device" /\ g.by = "devices" /\ g.ct = t.ct
                     /\ t.cfg.devs[g.dev] \notin g.vals /\ g.dev \in Dev
  BY DEF Gives, GivesDevice, Shaped
<1>3. Gives(t, g) => "none" \in g.vals /\ g.dev \in Checked(t.cfg)
                     /\ t.cfg.devs[g.dev] \notin host
  <2>1. Gives(t, g) => "none" \in g.vals /\ t.cfg.devs[g.dev] \in Path \ host
    BY <1>1, <1>2, DeviceServes DEF EditInv, Config
  <2> QED  BY <1>2, <2>1 DEF Checked
<1>4. CASE Checked(t.cfg) = {} /\ Continue(p, <<>>)
  BY <1>3, <1>4, GoalEnd
<1>5. ASSUME NEW d \in Dev, d \in Checked(t.cfg),
             Continue(p, IF t.cfg.devs[d] \in host
                         THEN <<[t EXCEPT !.cfg.devs[d] = "none"]>>
                         ELSE <<DoArg("rmdev", t.ct, d, t.err),
                                [t EXCEPT !.cfg.devs[d] = "none"]>>)
      PROVE  GoalMove(p, g)
  <2> DEFINE rest == [t EXCEPT !.cfg.devs[d] = "none"]
             rm == DoArg("rmdev", t.ct, d, t.err)
  <2>1. /\ rest.op = "devices" /\ rest.ct = t.ct
        /\ rest.cfg = [t.cfg EXCEPT !.devs[d] = "none"] /\ rest \in Call
    BY <1>1 DEF Call, Config, DevValue
  <2>2. rm.op = "rmdev" /\ rm.ct = t.ct /\ rm.arg = d /\ rm \in Call
    <3>1. rm \in Follow(t.err)
      BY <1>1, DoArgFollows DEF PlainOps, Ops, Arg
    <3> QED  BY <3>1 DEF DoArg, Do, Follow
  <2>3. \A e \in Dev : rest.cfg.devs[e] = IF e = d THEN "none" ELSE t.cfg.devs[e]
    BY <1>1, <2>1 DEF Config
  <2>4. Gives(t, g) /\ g.dev # d => Gives(rest, g)
    BY <1>2, <2>1, <2>3 DEF Gives, GivesDevice, Shaped
  <2>5. Gives(t, g) /\ g.dev = d => Gives(rm, g)
    BY <1>2, <1>3, <2>2 DEF Gives, GivesDevice
  <2>6. Drops(rest, g) => Drops(t, g)
    BY <2>1 DEF Drops, DropsDevice
  <2>7. Drops(rm, g) => Drops(t, g)
    BY <2>2 DEF Drops, DropsDevice
  <2> HIDE DEF rest, rm
  <2>8. CASE t.cfg.devs[d] \in host
    <3>1. Continue(p, <<rest>>)
      BY <1>5, <2>8 DEF rest
    <3>2. Gives(t, g) => Gives(rest, g)
      BY <1>3, <2>4, <2>8
    <3> QED  BY <1>1, <2>1, <2>6, <3>1, <3>2, GoalInto
  <2>9. CASE t.cfg.devs[d] \notin host
    <3>1. PICK ts : ts = <<rm, rest>>
      OBVIOUS
    <3>2. /\ ts \in Seq(Call) /\ DOMAIN ts = {1, 2} /\ ts[1] = rm /\ ts[2] = rest
      BY <2>1, <2>2, <3>1
    <3>3. Continue(p, ts)
      BY <1>5, <2>9, <3>1 DEF rest, rm
    <3>4. Leads(t, ts, g)
      BY <2>4, <2>5, <2>6, <2>7, <3>2 DEF Leads
    <3> QED  BY <1>1, <3>2, <3>3, <3>4 DEF GoalMove
  <2> QED  BY <2>8, <2>9
<1> QED  BY <1>1, <1>4, <1>5 DEF FixDevices, Checked

(* Sequences of calls, put together.                                        *)
Giving(ts, g) == \E i \in DOMAIN ts : Gives(ts[i], g)
Safe(t, ts, g) ==
    \A i \in DOMAIN ts : Drops(ts[i], g) =>
        Drops(t, g) \/ \E j \in DOMAIN ts : j > i /\ Gives(ts[j], g)

LEMMA TogetherSafe ==
  ASSUME NEW t, NEW g, NEW a \in Seq(Call), NEW b \in Seq(Call)
  PROVE  /\ a \o b \in Seq(Call)
         /\ Safe(t, a, g) /\ Safe(t, b, g) => Safe(t, a \o b, g)
         /\ Giving(a, g) \/ Giving(b, g) => Giving(a \o b, g)
<1> DEFINE r == a \o b
           l == Len(a)
           m == Len(b)
<1>1. /\ r \in Seq(Call) /\ l \in Nat /\ m \in Nat /\ DOMAIN r = 1..(l + m)
      /\ DOMAIN a = 1..l /\ DOMAIN b = 1..m
      /\ \A i \in 1..l : r[i] = a[i]
      /\ \A i \in 1..(l + m) : i > l => i - l \in 1..m /\ r[i] = b[i - l]
  OBVIOUS
<1> HIDE DEF r, l, m
<1>2. \A j \in 1..m : j + l \in 1..(l + m) /\ r[j + l] = b[j]
  <2> TAKE j \in 1..m
  <2>1. j + l \in 1..(l + m) /\ j + l > l /\ j + l - l = j
    BY <1>1
  <2> QED  BY <1>1, <2>1
<1>3. ASSUME Safe(t, a, g), Safe(t, b, g) PROVE Safe(t, r, g)
  <2> SUFFICES ASSUME NEW i \in 1..(l + m), Drops(r[i], g), ~Drops(t, g)
               PROVE  \E j \in 1..(l + m) : j > i /\ Gives(r[j], g)
    BY <1>1 DEF Safe
  <2>1. CASE i <= l
    <3>1. i \in 1..l /\ Drops(a[i], g)
      BY <1>1, <2>1
    <3>2. PICK j \in 1..l : j > i /\ Gives(a[j], g)
      BY <1>1, <1>3, <3>1 DEF Safe
    <3>3. j \in 1..(l + m)
      BY <1>1
    <3> QED  BY <1>1, <3>2, <3>3
  <2>2. CASE i > l
    <3>1. i - l \in 1..m /\ Drops(b[i - l], g)
      BY <1>1, <2>2
    <3>2. PICK j \in 1..m : j > i - l /\ Gives(b[j], g)
      BY <1>1, <1>3, <3>1 DEF Safe
    <3>3. j + l > i
      BY <1>1, <3>2
    <3> QED  BY <1>2, <3>2, <3>3
  <2> QED  BY <1>1, <2>1, <2>2
<1>4. ASSUME Giving(a, g) \/ Giving(b, g) PROVE Giving(r, g)
  <2>1. CASE Giving(a, g)
    <3>1. PICK i \in 1..l : Gives(a[i], g)
      BY <1>1, <2>1 DEF Giving
    <3>2. i \in 1..(l + m)
      BY <1>1
    <3> QED  BY <1>1, <3>1, <3>2 DEF Giving
  <2>2. CASE Giving(b, g)
    BY <1>1, <1>2, <2>2 DEF Giving
  <2> QED  BY <1>4, <2>1, <2>2
<1> QED  BY <1>1, <1>3, <1>4 DEF r

LEMMA ActiveDir ==
  ASSUME EditInv, NEW p \in Procs, Active(p)
  PROVE  NvidiaDir(p) = Dir /\ (Dir # "none" => Dir = nv /\ Dir \in host)
<1>1. nv = "none" => nv \notin host
  BY LxdAssumption DEF EditInv, TypeInv, TypeOK, LxdTypeOK
<1>2. nvDir[p] = "none" \/ (nvDir[p] = nv /\ nv \in host)
  BY DEF EditInv, Cached
<1> QED  BY <1>1, <1>2 DEF NvidiaDir, Dir

(* The driver of a target: its device, the configuration of the loader, and *)
(* the nodes.                                                               *)
LEMMA NvidiaGoal ==
  ASSUME EditInv, NamesApart, NEW p \in Procs, Step(p), NEW g, Shaped(g),
         Now(p).op = "nvidia"
  PROVE  GoalMove(p, g)
<1> DEFINE t == Now(p)
           has == t.cfg.devs["nv-bin"]
           rm == DoArg("rmdev", t.ct, "nv-bin", t.err)
           addone == AddDevice(t.ct, "nv-bin", Dir, t.err)
           remove == IF has \in {"none", Dir} THEN <<>> ELSE <<rm>>
           add == IF has = Dir THEN <<>> ELSE <<addone>>
           ld == Do("ldconf", t.ct, t.err)
           conf == <<ld>>
           nodes == AddNodes(t, MissingNodes(t.cfg, NvNodes))
<1>1. /\ TypeInv /\ t \in Call /\ FixNvidia(p) /\ t.cfg \in Config /\ UNCHANGED ct
      /\ t.ct \in Names /\ t.err \in OnError /\ "nv-bin" \in Dev /\ Active(p)
      /\ Users \cup {"tmp"} \subseteq host
  BY StepMoves, NowIsCall, StepOf DEF EditInv, Alone, Call, Dev, FixNvidia, server
<1>2. NvidiaDir(p) = Dir /\ (Dir # "none" => Dir = nv /\ Dir \in host)
  BY <1>1, ActiveDir
<1>3. Gives(t, g) =>
         \/ g.goal = "ldconf" /\ g.ct = t.ct
         \/ /\ g.goal = "device" /\ g.by = "nvidia" /\ g.ct = t.ct
            /\ t.cfg.devs[g.dev] \notin g.vals
  BY DEF Gives, GivesDevice, Shaped
<1>4. CASE Dir = "none"
  <2>1. Continue(p, <<>>)
    BY <1>1, <1>2, <1>4 DEF FixNvidia
  <2>2. ~Gives(t, g)
    BY <1>3, <1>4 DEF Shaped
  <2> QED  BY <2>1, <2>2, GoalEnd
<1>5. CASE Dir # "none"
  <2>1. Continue(p, remove \o add \o conf \o nodes)
    BY <1>1, <1>2, <1>5 DEF FixNvidia
  <2>2. rm.op = "rmdev" /\ rm.ct = t.ct /\ rm.arg = "nv-bin" /\ rm \in Call
    <3>1. rm \in Follow(t.err)
      BY <1>1, DoArgFollows DEF PlainOps, Ops, Arg
    <3> QED  BY <3>1 DEF DoArg, Do, Follow
  <2>3. /\ addone.op = "adddev" /\ addone.ct = t.ct /\ addone.arg = "nv-bin"
        /\ addone.val = Dir /\ addone \in Call
    <3>1. Dir \in Path
      BY <1>1, <1>2, <1>5 DEF TypeInv, TypeOK, LxdTypeOK
    <3>2. addone \in Call
      BY <1>1, <3>1, AddDeviceType
    <3> QED  BY <3>2 DEF AddDevice, DoArg, Do
  <2>4. ld.op = "ldconf" /\ ld.ct = t.ct /\ ld \in Call
    <3>1. ld \in Call
      BY <1>1, DoType DEF PlainOps, Ops
    <3> QED  BY <3>1 DEF Do
  <2>5. /\ nodes \in Seq(Call) /\ Safe(t, nodes, g)
        /\ /\ g.goal = "device" /\ g.ct = t.ct /\ g.dev \in NvNodes \cap host
           /\ t.cfg.devs[g.dev] = "none"
           => Giving(nodes, g)
    BY <1>1, AddNodesGoal DEF Safe, Giving
  <2> HIDE DEF rm, addone, ld, nodes
(* The goal of the device itself: removed only to be added.                 *)
  <2>6. g.goal = "device" /\ g.ct = t.ct /\ g.dev = "nv-bin" => Gives(addone, g)
    BY <1>1, <1>5, <2>3, DeviceServes DEF Gives, GivesDevice
  <2>7. ~Drops(addone, g)
    BY <1>1, <1>5, <2>3, DeviceServes DEF Drops, DropsDevice
  <2>8. Drops(rm, g) => g.goal = "device" /\ g.ct = t.ct /\ g.dev = "nv-bin"
    BY <2>2 DEF Drops, DropsDevice
  <2>9. /\ remove \o add \in Seq(Call) /\ Safe(t, remove \o add, g)
        /\ /\ g.goal = "device" /\ g.ct = t.ct /\ g.dev = "nv-bin" /\ has # Dir
           => Giving(remove \o add, g)
    <3>1. CASE has = Dir
      <4>1. remove \o add = <<>>
        BY <3>1
      <4> HIDE DEF remove, add
      <4> QED  BY <3>1, <4>1 DEF Safe
    <3>2. CASE has = "none" /\ has # Dir
      <4>1. PICK ts : ts = <<addone>>
        OBVIOUS
      <4>2. ts \in Seq(Call) /\ DOMAIN ts = {1} /\ ts[1] = addone
        BY <2>3, <4>1
      <4>3. remove \o add = ts
        BY <2>3, <3>2, <4>1
      <4> HIDE DEF remove, add
      <4> QED  BY <2>6, <2>7, <4>2, <4>3 DEF Safe, Giving
    <3>3. CASE has \notin {"none", Dir}
      <4>1. PICK ts : ts = <<rm, addone>>
        OBVIOUS
      <4>2. /\ ts \in Seq(Call) /\ DOMAIN ts = {1, 2} /\ ts[1] = rm /\ ts[2] = addone
        BY <2>2, <2>3, <4>1
      <4>3. remove \o add = ts
        <5>1. remove = <<rm>> /\ add = <<addone>>
          BY <3>3
        <5>2. <<rm>> \o <<addone>> = <<rm, addone>>
          BY Joined
        <5> HIDE DEF remove, add
        <5> QED  BY <4>1, <5>1, <5>2
      <4> HIDE DEF remove, add
      <4> QED  BY <2>6, <2>7, <2>8, <4>2, <4>3 DEF Safe, Giving
    <3> QED  BY <3>1, <3>2, <3>3
  <2>10. /\ conf \in Seq(Call) /\ Safe(t, conf, g)
         /\ g.goal = "ldconf" /\ g.ct = t.ct => Giving(conf, g)
    <3>1. PICK ts : ts = <<ld>>
      OBVIOUS
    <3>2. ts \in Seq(Call) /\ DOMAIN ts = {1} /\ ts[1] = ld /\ conf = ts
      BY <2>4, <3>1
    <3>3. /\ Drops(ld, g) => Drops(t, g)
          /\ g.goal = "ldconf" /\ g.ct = t.ct => Gives(ld, g)
      BY <2>4 DEF Drops, DropsDevice, Gives
    <3> HIDE DEF conf
    <3> QED  BY <3>2, <3>3 DEF Safe, Giving
  <2> DEFINE first == remove \o add
  <2> HIDE DEF first, remove, add, conf
  <2>11. /\ first \o conf \in Seq(Call) /\ Safe(t, first \o conf, g)
         /\ Giving(first, g) \/ Giving(conf, g) => Giving(first \o conf, g)
    BY <2>9, <2>10, TogetherSafe DEF first
  <2>12. PICK ts : ts = first \o conf \o nodes
    OBVIOUS
  <2>13. /\ ts \in Seq(Call) /\ Safe(t, ts, g)
         /\ Giving(first, g) \/ Giving(conf, g) \/ Giving(nodes, g) => Giving(ts, g)
    BY <2>5, <2>11, <2>12, TogetherSafe
  <2>14. Gives(t, g) => Giving(ts, g)
    <3>1. CASE g.goal = "ldconf" /\ g.ct = t.ct
      BY <2>10, <2>13, <3>1
    <3>2. CASE /\ g.goal = "device" /\ g.by = "nvidia" /\ g.ct = t.ct
               /\ t.cfg.devs[g.dev] \notin g.vals
      <4>1. CASE g.vals = {Dir} /\ g.dev = "nv-bin"
        BY <2>9, <2>13, <3>2, <4>1 DEF first
      <4>2. CASE g.vals = Mounted /\ g.dev \in NvNodes \cap host
        <5>1. t.cfg.devs[g.dev] = "none"
          BY <1>1, <3>2, <4>2 DEF Shaped, Mounted, Config
        <5> QED  BY <2>5, <2>13, <3>2, <4>2, <5>1
      <4> QED  BY <3>2, <4>1, <4>2 DEF Shaped
    <3> QED  BY <1>3, <3>1, <3>2
  <2>15. Leads(t, ts, g)
    BY <2>13, <2>14 DEF Leads, Safe, Giving
  <2>16. Continue(p, ts)
    BY <2>1, <2>12 DEF first
  <2> QED  BY <1>1, <2>13, <2>15, <2>16 DEF GoalMove
<1> QED  BY <1>4, <1>5

--------------------------------------------------------------------------------
(* One step.                                                                *)
LEMMA StepGoal ==
  ASSUME EditInv, NamesApart, NEW p \in Procs, Step(p), ~Raise(p), Minded(p, Now(p)),
         NEW g, Shaped(g), Now(p).op \in {"fix", "targets"} => g.ct \in ClickTargets
  PROVE  GoalMove(p, g)
<1>1. Now(p).op \in RepairOps /\ TypeInv
  BY DEF Minded, EditInv
<1> QED
  BY <1>1, RequestGoal, RestartGoal, ChangeGoal, SpreadGoal, DRIGoal, DevicesGoal,
     NvidiaGoal DEF RepairOps, Fixables, Restarting

(* No container becomes a target but by an Init.                            *)
LEMMA TargetsShrink ==
  ASSUME EditInv, NEW p \in Procs, Step(p), Now(p).op # "init"
  PROVE  ClickTargets' \subseteq ClickTargets
<1>1. /\ TypeInv /\ Effect(p) /\ Now(p).ct \in Names /\ ct \in [Names -> Container]
      /\ NoContainer.status = "Absent"
  BY StepMoves, NowIsCall, StepEffect
  DEF EditInv, TypeInv, TypeOK, LxdTypeOK, Call, NoContainer
<1> SUFFICES ASSUME NEW n \in Names, Present(n)', ct'[n].cfg.click
             PROVE  Present(n) /\ ct[n].cfg.click
  BY DEF ClickTargets
<1>2. CASE ct'[n] = ct[n]
  BY <1>2 DEF Present
<1>3. CASE Puts(p)
  <2>1. /\ Edits(p, Now(p)) /\ Present(Now(p).ct) /\ ct[Now(p).ct] \in Container
        /\ ct[Now(p).ct].cfg \in Config
        /\ ct'[Now(p).ct] = [ct[Now(p).ct] EXCEPT !.cfg = Now(p).cfg]
        /\ n # Now(p).ct => ct'[n] = ct[n]
    BY <1>3, PutEdits
  <2>2. Now(p).cfg.click = ct[Now(p).ct].cfg.click
    BY <2>1 DEF Edits, Mounts, Unmounts, Sets, Config
  <2>3. ct'[Now(p).ct].cfg = Now(p).cfg
    BY <2>1 DEF Container
  <2> QED  BY <1>2, <2>1, <2>2, <2>3
<1>4. CASE ~Puts(p)
  <2>1. Present(n)
    <3>1. CASE n = Now(p).ct
      BY <1>1, <1>2, <1>4, <3>1
      DEF Effect, Boots, Halts, AfterStop, Deletes, Makes, Registers, Opens, Loads, Present
    <3>2. CASE n # Now(p).ct
      BY <1>1, <1>2, <1>4, <3>2
      DEF Effect, Boots, Halts, Deletes, Makes, Registers, Opens, Loads
    <3> QED  BY <3>1, <3>2
  <2>2. ct'[n].cfg = ct[n].cfg
    BY <1>1, <1>4, <2>1, OthersKeepConfig
  <2> QED  BY <2>1, <2>2
<1> QED  BY <1>3, <1>4

LEMMA GoalsShrink ==
  ASSUME NEW p, cmd[p] \in Command, UNCHANGED <<host, nv, cmd>>,
         ~Creating(p) => ClickTargets' \subseteq ClickTargets
  PROVE  /\ Goals(p)' \subseteq Goals(p)
         /\ ~Creating(p) => \A g \in Goals(p)' : Present(g.ct)'
<1>1. \A n : Repaired(n)' = Repaired(n)
  BY DEF Repaired, Dir, Sound, Mounted
<1>2. CASE Creating(p)
  BY <1>1, <1>2 DEF Goals, Creating
<1>3. ASSUME ~Creating(p), NEW g \in Goals(p)'
      PROVE  g \in Goals(p) /\ Present(g.ct)'
  <2>1. PICK n \in ClickTargets' :
           g \in Repaired(n) \cup {Goal("running", n, "none"), Goal("loaded", n, "none")}
    BY <1>1, <1>3 DEF Goals, Creating
  <2>2. n \in Names /\ Present(n)'
    BY DEF ClickTargets
  <2>3. g.ct = n
    BY <2>1, <2>2, RepairedShape DEF Goal
  <2> QED  BY <1>3, <2>1, <2>2, <2>3 DEF Goals
<1> QED  BY <1>2, <1>3

(* A failure that goes unnoticed: that of a create's last restart, when     *)
(* nothing is left that its goals could wait for.                           *)
LEMMA RaiseDelivers ==
  ASSUME TypeInv, NEW p \in Procs, todo[p] # <<>>, Delivers(p), Delivering(p), Raise(p),
         res'[p] \in {"running", "ok"}, cmd[p] \in Command,
         UNCHANGED <<host, nv, cmd>>,
         \A g \in Goals(p) : Creating(p) /\ Have(g) => Have(g)' \/ Drops(Now(p), g),
         Creating(p) /\ Made(p) => Made(p)'
  PROVE  Delivering(p)'
<1> DEFINE t == Now(p)
<1>1. /\ t \in Calls(p) /\ Minded(p, t) /\ res[p] = "running" /\ DropsLast(p)
      /\ todo \in [Procs -> Seq(Call)] /\ res \in [Procs -> Results]
      /\ t = todo[p][1] /\ 1 \in DOMAIN todo[p]
  BY NowIsCall DEF Delivers, Delivering, TypeInv, TypeOK
<1>2. t.err = "drop" /\ todo'[p] = <<>>
  BY <1>1 DEF Raise, Minded
<1>3. Creating(p) /\ t.op \in Restarting
  BY <1>1, <1>2 DEF Minded
<1>4. \A c \in Calls(p) : c.op \in Restarting
  <2>1. ASSUME NEW i \in DOMAIN todo[p] PROVE todo[p][i].err = "drop"
    <3>1. CASE i = 1
      BY <1>1, <1>2, <3>1
    <3>2. CASE i # 1
      <4>1. 1 < i
        BY <1>1, <3>2
      <4> QED  BY <1>1, <1>2, <4>1 DEF DropsLast
    <3> QED  BY <3>1, <3>2
  <2> QED  BY <2>1 DEF Calls, Delivering, Minded
<1>5. Goals(p)' \subseteq Goals(p)
  BY <1>3, GoalsShrink
<1>6. ASSUME NEW g \in Goals(p) PROVE Have(g)'
  <2>1. Shaped(g) /\ g.goal \notin {"running", "loaded"}
    BY <1>3, GoalShape
  <2>2. \A c : c.op \in Restarting => ~Gives(c, g) /\ ~Drops(c, g)
    BY <2>1 DEF Restarting, Shaped, Gives, GivesDevice, Drops, DropsDevice
  <2>3. Have(g)
    BY <1>4, <2>2 DEF Delivering, Assured
  <2> QED  BY <1>3, <2>2, <2>3
<1>7. Made(p)'
  <2>1. ~At(p, "init")
    BY <1>3 DEF At, Now, Restarting
  <2> QED  BY <1>3, <2>1 DEF Delivering
<1>8. Calls(p)' = {} /\ DOMAIN todo'[p] = {}
  BY <1>2 DEF Calls
<1>9. ASSUME NEW g \in Goals(p)' PROVE Assured(p, g)' /\ Guarded(p, g)'
  BY <1>5, <1>6, <1>8 DEF Assured, Guarded
<1> QED  BY <1>7, <1>8, <1>9 DEF Delivering, InitOnce, DropsLast

LEMMA StepDelivers ==
  ASSUME EditInv, NamesApart, NEW p \in Procs, Step(p), Delivers(p), Delivering(p),
         res'[p] \in {"running", "ok"}
  PROVE  Delivering(p)'
<1> DEFINE t == Now(p)
<1>1. /\ TypeInv /\ todo[p] # <<>> /\ Moves(p) /\ t \in Call /\ t \in Calls(p)
      /\ cmd[p] \in Command /\ Minded(p, t) /\ UNCHANGED <<host, nv, cmd>>
      /\ InitOnce(p) /\ DropsLast(p) /\ \A c \in Calls(p) : Minded(p, c)
  BY StepMoves, NowIsCall, StepOfRepair DEF EditInv, TypeInv, Given, Delivering
<1>2. ~Creating(p) => ClickTargets' \subseteq ClickTargets
  BY <1>1, TargetsShrink DEF Minded
<1>3. /\ Goals(p)' \subseteq Goals(p)
      /\ ~Creating(p) => \A g \in Goals(p)' : Present(g.ct)'
  BY <1>1, <1>2, GoalsShrink
<1>4. Creating(p) /\ (Made(p) \/ (At(p, "init") /\ ~Raise(p))) => Made(p)'
  BY <1>1, MadeStays
<1>5. \A g \in Goals(p) : Shaped(g) /\ (Creating(p) => g.ct = cmd[p].ct)
                          /\ (~Creating(p) => g.ct \in ClickTargets)
  BY <1>1, GoalShape
<1>6. Creating(p) /\ Made(p)' => \A g \in Goals(p) : Present(g.ct)'
  BY <1>1, <1>5 DEF Made, Present
<1>7. CASE Raise(p)
  <2>1. ASSUME NEW g \in Goals(p), Creating(p), Have(g)
        PROVE  Have(g)' \/ Drops(t, g)
    <3>1. CASE t.op = "init"
      BY <3>1 DEF Drops
    <3>2. CASE t.op # "init"
      <4>1. Made(p)
        BY <2>1, <3>2 DEF Delivering, At, Now
      <4> QED  BY <1>1, <1>4, <1>5, <1>6, <2>1, <4>1, HaveStays
    <3> QED  BY <3>1, <3>2
  <2> QED  BY <1>1, <1>4, <1>7, <2>1, RaiseDelivers
<1>8. CASE ~Raise(p)
  <2>1. PICK ts \in Seq(After(t)) : Continue(p, ts)
    BY <1>1, <1>8 DEF Moves
  <2>2. /\ \A c \in Calls(p)' : Minded(p, c)'
        /\ InitOnce(p)' /\ DropsLast(p)'
    BY <1>1, <2>1, MindedNext
  <2>3. Creating(p) => Made(p)'
    BY <1>4, <1>8 DEF Delivering
  <2>4. ASSUME NEW g \in Goals(p)' PROVE Assured(p, g)' /\ Guarded(p, g)'
    <3>1. /\ g \in Goals(p) /\ Shaped(g) /\ Present(g.ct)'
          /\ Assured(p, g) /\ Guarded(p, g)
      BY <1>3, <1>5, <1>6, <2>3 DEF Delivering
    <3>2. t.op \in {"fix", "targets"} => g.ct \in ClickTargets
      <4>1. CASE Creating(p)
        <5>1. t.op # "init" => Made(p)
          BY <4>1 DEF Delivering, At, Now
        <5> QED  BY <1>5, <3>1, <4>1, <5>1 DEF Made, Present, ClickTargets, Shaped
      <4> QED  BY <1>5, <3>1, <4>1
    <3>3. GoalMove(p, g)
      BY <1>1, <1>8, <3>1, <3>2, StepGoal
    <3>4. Have(g) => Have(g)' \/ Drops(t, g)
      BY <1>1, <3>1, HaveStays
    <3> QED  BY <1>1, <3>1, <3>3, <3>4, GoalNext
  <2>5. Creating(p)' => Creating(p)
    BY <1>1 DEF Creating
  <2> QED  BY <2>2, <2>3, <2>4, <2>5 DEF Delivering
<1> QED  BY <1>7, <1>8

LEMMA BreakDelivers ==
  ASSUME EditInv, NEW p \in Procs, Break(p), Delivers(p), Delivering(p),
         res'[p] \in {"running", "ok"}
  PROVE  Delivering(p)'
<1>1. /\ TypeInv /\ UNCHANGED <<ct, host, nv, cmd>> /\ todo[p] # <<>> /\ Raise(p)
  BY BrokenOff DEF EditInv, Break
<1>2. cmd[p] \in Command
  BY <1>1 DEF TypeInv, Given
<1>3. \A g : Have(g) => Have(g)'
  BY <1>1 DEF Have
<1>4. Made(p) => Made(p)'
  BY <1>1 DEF Made
<1> QED  BY <1>1, <1>2, <1>3, <1>4, RaiseDelivers

--------------------------------------------------------------------------------
(* The command lines.                                                       *)
Still(c) ==
    c.op \notin {"fix", "devices", "adddev", "rmdev", "put", "stop", "halt",
                 "nvidia", "ldconf", "init"}
Late(s) == \A i, j \in DOMAIN s : i < j /\ s[i].err = "drop" => s[j].err = "drop"

LEMMA StillSafe ==
  ASSUME NEW c, NEW g, Still(c)
  PROVE  ~Drops(c, g)
  BY DEF Still, Drops, DropsDevice

(* A call at the end guards all that come before it.                        *)
LEMMA GivenBehind ==
  ASSUME NEW t, NEW g, NEW a \in Seq(Call), NEW b \in Seq(Call), Giving(b, g), Safe(t, b, g)
  PROVE  Giving(a \o b, g) /\ Safe(t, a \o b, g)
<1> DEFINE r == a \o b
           l == Len(a)
           m == Len(b)
<1>1. /\ r \in Seq(Call) /\ l \in Nat /\ m \in Nat /\ DOMAIN r = 1..(l + m)
      /\ DOMAIN a = 1..l /\ DOMAIN b = 1..m
      /\ \A i \in 1..(l + m) : i > l => i - l \in 1..m /\ r[i] = b[i - l]
  OBVIOUS
<1>2. Giving(r, g)
  BY TogetherSafe
<1> HIDE DEF r, l, m
<1>3. \A j \in 1..m : j + l \in 1..(l + m) /\ j + l > l /\ r[j + l] = b[j]
  <2> TAKE j \in 1..m
  <2>1. j + l \in 1..(l + m) /\ j + l > l /\ j + l - l = j
    BY <1>1
  <2> QED  BY <1>1, <2>1
<1>4. ASSUME NEW i \in 1..(l + m), Drops(r[i], g), ~Drops(t, g)
      PROVE  \E j \in 1..(l + m) : j > i /\ Gives(r[j], g)
  <2>1. CASE i <= l
    <3>1. PICK j \in 1..m : Gives(b[j], g)
      BY <1>1 DEF Giving
    <3>2. j + l > i
      BY <1>1, <2>1, <3>1
    <3> QED  BY <1>3, <3>1, <3>2
  <2>2. CASE i > l
    <3>1. i - l \in 1..m /\ Drops(b[i - l], g)
      BY <1>1, <1>4, <2>2
    <3>2. PICK j \in 1..m : j > i - l /\ Gives(b[j], g)
      BY <1>1, <1>4, <3>1 DEF Safe
    <3>3. j + l > i
      BY <1>1, <3>2
    <3> QED  BY <1>3, <3>2, <3>3
  <2> QED  BY <1>1, <2>1, <2>2
<1> QED  BY <1>1, <1>2, <1>4 DEF r, Safe

LEMMA LateJoined ==
  ASSUME NEW a \in Seq(Call), NEW b \in Seq(Call), Late(b),
         \A i \in DOMAIN a : a[i].err # "drop"
  PROVE  Late(a \o b)
<1> DEFINE r == a \o b
           l == Len(a)
           m == Len(b)
<1>1. /\ l \in Nat /\ m \in Nat /\ DOMAIN r = 1..(l + m)
      /\ DOMAIN a = 1..l /\ DOMAIN b = 1..m
      /\ \A i \in 1..l : r[i] = a[i]
      /\ \A i \in 1..(l + m) : i > l => i - l \in 1..m /\ r[i] = b[i - l]
  OBVIOUS
<1> HIDE DEF r, l, m
<1>2. ASSUME NEW i \in 1..(l + m), NEW j \in 1..(l + m), i < j, r[i].err = "drop"
      PROVE  r[j].err = "drop"
  <2>1. i > l /\ j > l
    BY <1>1, <1>2
  <2>2. i - l \in DOMAIN b /\ j - l \in DOMAIN b /\ i - l < j - l
    BY <1>1, <1>2, <2>1
  <2>3. b[i - l].err = "drop" /\ r[j] = b[j - l]
    BY <1>1, <1>2, <2>1
  <2>4. b[j - l].err = "drop"
    BY <2>2, <2>3 DEF Late
  <2> QED  BY <2>3, <2>4
<1> QED  BY <1>1, <1>2 DEF r, Late

LEMMA OneGoal ==
  ASSUME NEW c \in Call, NEW g, NEW t
  PROVE  /\ <<c>> \in Seq(Call) /\ Late(<<c>>)
         /\ ~Drops(c, g) => Safe(t, <<c>>, g)
         /\ Gives(c, g) => Giving(<<c>>, g)
  BY DEF Safe, Giving, Late

(* The four fixables, in their order.                                       *)
LEMMA FixAllGoal ==
  ASSUME EditInv, NamesApart, NEW n \in Names, NEW err \in OnError, NEW g, Shaped(g), NEW t
  PROVE  /\ FixAll(n, err) \in Seq(Call)
         /\ \A i \in DOMAIN FixAll(n, err) : FixAll(n, err)[i].err = err
         /\ g.goal \in {"access", "ldconf"} \/ (g.goal = "device" /\ g.by # "none")
            => Giving(FixAll(n, err), g)
         /\ ~(g.goal = "device" /\ g.by = "none") /\ g.goal # "loaded"
            => Safe(t, FixAll(n, err), g)
<1> DEFINE s == FixAll(n, err)
<1>0. s \in Seq(Call)
  BY FixAllType, FollowIsCall
<1>1. /\ DOMAIN s = 1..4
      /\ s[1] = DoArg("fix", n, "access", err) /\ s[2] = DoArg("fix", n, "devices", err)
      /\ s[3] = DoArg("fix", n, "dri", err) /\ s[4] = DoArg("fix", n, "nvidia", err)
  BY DEF FixAll, FixableSet
<1> HIDE DEF s
<1>2. /\ s[1].op = "fix" /\ s[2].op = "fix" /\ s[3].op = "fix" /\ s[4].op = "fix"
      /\ s[1].arg = "access" /\ s[2].arg = "devices" /\ s[3].arg = "dri"
      /\ s[4].arg = "nvidia"
      /\ s[1].err = err /\ s[2].err = err /\ s[3].err = err /\ s[4].err = err
  BY <1>1 DEF DoArg, Do
<1>3. \A i \in DOMAIN s : i = 1 \/ i = 2 \/ i = 3 \/ i = 4
  BY <1>1
<1>4. 1 \in DOMAIN s /\ 2 \in DOMAIN s /\ 3 \in DOMAIN s /\ 4 \in DOMAIN s
  BY <1>1
<1>5. g.goal \in {"access", "ldconf"} \/ (g.goal = "device" /\ g.by # "none") => Giving(s, g)
  BY <1>2, <1>4 DEF Giving, Gives, GivesDevice, Shaped
<1>6. ASSUME ~(g.goal = "device" /\ g.by = "none"), g.goal # "loaded"
      PROVE  Safe(t, s, g)
  <2>1. ASSUME NEW i \in DOMAIN s, Drops(s[i], g)
        PROVE  g.goal = "device" /\ "none" \notin g.vals /\ i = 2
    BY <1>2, <1>3, <1>6, <2>1 DEF Drops, DropsDevice
  <2>2. g.goal = "device" /\ "none" \notin g.vals => g.by \in {"dri", "nvidia"}
    BY <1>6, DeviceServes DEF EditInv, Shaped
  <2>3. g.goal = "device" /\ g.by \in {"dri", "nvidia"} => Gives(s[3], g) \/ Gives(s[4], g)
    BY <1>2 DEF Gives, GivesDevice
  <2>4. 3 > 2 /\ 4 > 2
    OBVIOUS
  <2> QED  BY <1>4, <2>1, <2>2, <2>3, <2>4 DEF Safe
<1> QED  BY <1>0, <1>2, <1>3, <1>5, <1>6 DEF s

(* The registration of the user.                                            *)
LEMMA RegisterGoal ==
  ASSUME EditInv, NamesApart, NEW n \in Names, NEW u \in Users, NEW err \in OnError,
         NEW g, Shaped(g), NEW t
  PROVE  /\ RegisterUserInContainer(n, u, err) \in Seq(Call)
         /\ \A i \in DOMAIN RegisterUserInContainer(n, u, err) :
              RegisterUserInContainer(n, u, err)[i].err = err
         /\ Safe(t, RegisterUserInContainer(n, u, err), g)
         /\ g.ct = n /\ g.dev = u /\ (g.goal = "user" \/ (g.goal = "device" /\ u \in g.vals))
            => Giving(RegisterUserInContainer(n, u, err), g)
<1> DEFINE s == RegisterUserInContainer(n, u, err)
<1>0. s \in Seq(Call)
  BY RegisterType, FollowIsCall
<1>1. /\ DOMAIN s = 1..6
      /\ s[1] = DoArg("whoami", n, u, err) /\ s[2] = Do("boot", n, err)
      /\ s[3] = DoArg("lookup", n, u, err) /\ s[4] = AddDevice(n, u, u, err)
      /\ s[5] = Do("groupadd", n, err) /\ s[6] = DoArg("useradd", n, u, err)
  BY DEF RegisterUserInContainer
<1> HIDE DEF s
<1>2. /\ s[1].op = "whoami" /\ s[2].op = "boot" /\ s[3].op = "lookup"
      /\ s[5].op = "groupadd" /\ s[6].op = "useradd" /\ s[6].arg = u /\ s[6].ct = n
      /\ s[1].err = err /\ s[2].err = err /\ s[3].err = err /\ s[5].err = err
      /\ s[6].err = err
  BY <1>1 DEF DoArg, Do
<1>3. /\ s[4].op = "adddev" /\ s[4].arg = u /\ s[4].val = u /\ s[4].ct = n /\ s[4].err = err
  BY <1>1 DEF AddDevice, DoArg, Do
<1>4. \A i \in DOMAIN s : i \in {1, 2, 3, 4, 5, 6}
  BY <1>1
<1>5. \A i \in DOMAIN s : i = 4 \/ Still(s[i])
  BY <1>2, <1>4 DEF Still
<1>6. ~Drops(s[4], g)
  <2>1. g.goal = "device" /\ g.dev = u => u \in g.vals
    BY DeviceServes DEF EditInv
  <2> QED  BY <1>3, <2>1 DEF Drops, DropsDevice
<1>7. Safe(t, s, g)
  BY <1>5, <1>6, StillSafe DEF Safe
<1>8. 4 \in DOMAIN s /\ 6 \in DOMAIN s
  BY <1>1
<1>9. ASSUME g.ct = n, g.dev = u, g.goal = "user" \/ (g.goal = "device" /\ u \in g.vals)
      PROVE  Giving(s, g)
  <2>1. Gives(s[4], g) \/ Gives(s[6], g)
    BY <1>2, <1>3, <1>9 DEF Gives, GivesDevice
  <2> QED  BY <1>8, <2>1 DEF Giving
<1>10. \A i \in DOMAIN s : s[i].err = err
  BY <1>2, <1>3, <1>4
<1> QED  BY <1>0, <1>7, <1>9, <1>10 DEF s

LEMMA CreateGoals ==
  ASSUME EditInv, NamesApart, NEW c \in Command, c.kind = "create"
  PROVE  /\ Late(Script(c))
         /\ \A g \in Repaired(c.ct) \cup Registered(c.ct, c.user) :
              \A t : ~Drops(t, g) => Giving(Script(c), g) /\ Safe(t, Script(c), g)
<1> DEFINE n == c.ct
           u == c.user
           add == AddDevice(n, "tmp", "tmp", "rollback")
           end == Do("update", n, "drop")
           begin == DoVal("init", n, c.flag, "fail")
           fixes == FixAll(n, "rollback")
           tmp == <<add>>
           reg == RegisterUserInContainer(n, u, "rollback")
           last == <<end>>
           init == <<begin>>
           some == reg \o last
           more == tmp \o some
           rest == fixes \o more
<1>0. n \in Names /\ u \in Users /\ "rollback" \in OnError
  BY DEF Command, OnError
<1>1. begin \in Call /\ add \in Call /\ end \in Call
  BY <1>0, DoValType, AddDeviceType, DoType
  DEF Command, Val, PlainOps, Ops, NicOps, OnError, Dev, Path
<1>2. /\ add.op = "adddev" /\ add.arg = "tmp" /\ add.val = "tmp" /\ add.ct = n
      /\ add.err = "rollback" /\ end.op = "update" /\ begin.err = "fail"
  BY DEF AddDevice, DoArg, DoVal, Do
<1>3. Script(c) = init \o rest
  BY DEF Script, Create, AfterInit
<1>4. fixes \in Seq(Call) /\ reg \in Seq(Call)
  BY <1>0, FixAllType, RegisterType, FollowIsCall
<1> HIDE DEF begin, add, end, fixes, reg
<1>5. tmp \in Seq(Call) /\ last \in Seq(Call) /\ init \in Seq(Call) /\ Late(last)
  BY <1>1, OneGoal
<1> HIDE DEF tmp, last, init
<1>6. some \in Seq(Call)
  BY <1>4, <1>5, MoreCalls
<1> HIDE DEF some
<1>7. more \in Seq(Call)
  BY <1>5, <1>6, MoreCalls
<1> HIDE DEF more
<1>8. rest \in Seq(Call)
  BY <1>4, <1>7, MoreCalls
<1> HIDE DEF rest
<1>9. Late(Script(c))
  <2>1. \E g : Shaped(g)
    <3>1. Shaped(Goal("access", n, "none"))
      BY <1>0 DEF Shaped, Goal
    <3> QED  BY <3>1
  <2>2. /\ \A i \in DOMAIN fixes : fixes[i].err # "drop"
        /\ \A i \in DOMAIN reg : reg[i].err # "drop"
    BY <1>0, <2>1, FixAllGoal, RegisterGoal DEF fixes, reg
  <2>3. /\ \A i \in DOMAIN tmp : tmp[i].err # "drop"
        /\ \A i \in DOMAIN init : init[i].err # "drop"
    BY <1>2 DEF tmp, init
  <2>4. Late(some)
    BY <1>4, <1>5, <2>2, LateJoined DEF some
  <2>5. Late(more)
    BY <1>5, <1>6, <2>3, <2>4, LateJoined DEF more
  <2>6. Late(rest)
    BY <1>4, <1>7, <2>2, <2>5, LateJoined DEF rest
  <2> QED  BY <1>3, <1>5, <1>8, <2>3, <2>6, LateJoined
<1>10. ASSUME NEW g \in Repaired(n) \cup Registered(n, u), NEW t, ~Drops(t, g)
       PROVE  Giving(Script(c), g) /\ Safe(t, Script(c), g)
  <2>1. /\ Shaped(g) /\ g.ct = n
        /\ \/ g.goal \in {"access", "ldconf"} \/ (g.goal = "device" /\ g.by # "none")
           \/ g.goal = "user" /\ g.dev = u
           \/ g.goal = "device" /\ g.dev = "tmp" /\ g.vals = {"tmp"}
           \/ g.goal = "device" /\ g.dev = u /\ u \in g.vals
    <3>1. CASE g \in Repaired(n)
      <4>1. Shaped(g) /\ g.ct = n /\ g.goal \in {"device", "access", "ldconf"}
        BY <1>0, <3>1, RepairedShape
      <4>2. g.goal = "device" => g.by # "none"
        BY <3>1 DEF Repaired, DeviceGoal, Goal
      <4> QED  BY <4>1, <4>2
    <3>2. CASE g \in Registered(n, u)
      BY <1>0, <3>2 DEF Registered, DeviceGoal, Goal, Shaped, Dev
    <3> QED  BY <1>10, <3>1, <3>2
  <2>2. /\ Safe(t, reg, g)
        /\ g.dev = u /\ (g.goal = "user" \/ (g.goal = "device" /\ u \in g.vals))
           => Giving(reg, g)
    BY <1>0, <2>1, RegisterGoal DEF reg
  <2>3. Safe(t, last, g)
    <3>1. Still(end)
      BY <1>2 DEF Still
    <3> QED  BY <1>1, <3>1, StillSafe, OneGoal DEF last
  <2>4. /\ Safe(t, tmp, g)
        /\ g.goal = "device" /\ g.dev = "tmp" /\ "tmp" \in g.vals => Giving(tmp, g)
    <3>1. g.goal = "device" /\ g.dev = "tmp" => "tmp" \in g.vals
      BY <2>1, DeviceServes DEF EditInv
    <3>2. ~Drops(add, g)
      BY <1>2, <3>1 DEF Drops, DropsDevice
    <3>3. g.goal = "device" /\ g.dev = "tmp" /\ "tmp" \in g.vals => Gives(add, g)
      BY <1>2, <2>1 DEF Gives, GivesDevice
    <3> QED  BY <1>1, <3>2, <3>3, OneGoal DEF tmp
  <2>5. Safe(t, some, g) /\ (Giving(reg, g) => Giving(some, g))
    BY <1>4, <1>5, <2>2, <2>3, TogetherSafe DEF some
  <2>6. Safe(t, more, g) /\ (Giving(reg, g) \/ Giving(tmp, g) => Giving(more, g))
    BY <1>5, <1>6, <2>4, <2>5, TogetherSafe DEF more
  <2>7. Safe(t, rest, g) /\ Giving(rest, g)
    <3>1. CASE g.goal \in {"access", "ldconf"} \/ (g.goal = "device" /\ g.by # "none")
      <4>1. Giving(fixes, g) /\ Safe(t, fixes, g)
        BY <1>0, <2>1, <3>1, FixAllGoal DEF fixes
      <4> QED  BY <1>4, <1>7, <2>6, <4>1, TogetherSafe DEF rest
    <3>2. CASE Giving(more, g)
      BY <1>4, <1>7, <2>6, <3>2, GivenBehind DEF rest
    <3> QED  BY <2>1, <2>2, <2>4, <2>6, <3>1, <3>2
  <2> QED  BY <1>3, <1>5, <1>8, <2>7, GivenBehind
<1> QED  BY <1>9, <1>10

LEMMA AutofixGoals ==
  ASSUME EditInv, NamesApart, NEW c \in Command, c.kind = "autofix", NEW n \in Names,
         NEW g \in Repaired(n) \cup {Goal("running", n, "none"), Goal("loaded", n, "none")},
         NEW t
  PROVE  Giving(Script(c), g) /\ Safe(t, Script(c), g)
<1> DEFINE end == Do("targets", c.ct, "fail")
           fixes == FixAll(c.ct, "fail")
           last == <<end>>
<1>1. /\ c.ct \in Names /\ "fail" \in OnError /\ end \in Call /\ end.op = "targets"
  BY DoType DEF Command, OnError, PlainOps, Ops, Do
<1>2. Script(c) = fixes \o last
  BY DEF Script
<1> HIDE DEF end
<1>3. last \in Seq(Call)
  BY <1>1, OneGoal
<1>4. /\ Shaped(g)
      /\ \/ g.goal \in {"running", "loaded"}
         \/ g.goal \in {"access", "ldconf"} \/ (g.goal = "device" /\ g.by # "none")
  <2>1. CASE g \in Repaired(n)
    <3>1. Shaped(g) /\ g.goal \in {"device", "access", "ldconf"}
      BY <2>1, RepairedShape
    <3>2. g.goal = "device" => g.by # "none"
      BY <2>1 DEF Repaired, DeviceGoal, Goal
    <3> QED  BY <3>1, <3>2
  <2>2. CASE g \in {Goal("running", n, "none"), Goal("loaded", n, "none")}
    BY <2>2 DEF Goal, Shaped
  <2> QED  BY <2>1, <2>2
<1>5. Safe(t, last, g)
  <2>1. Still(end)
    BY <1>1 DEF Still
  <2> QED  BY <1>1, <2>1, StillSafe, OneGoal
<1>6. fixes \in Seq(Call)
  BY <1>1, <1>4, FixAllGoal
<1>7. CASE g.goal \in {"running", "loaded"}
  <2>1. Gives(end, g)
    BY <1>1, <1>7 DEF Gives
  <2>2. Giving(last, g)
    BY <1>1, <2>1, OneGoal
  <2> HIDE DEF fixes, last
  <2> QED  BY <1>2, <1>3, <1>5, <1>6, <2>2, GivenBehind
<1>8. CASE g.goal \in {"access", "ldconf"} \/ (g.goal = "device" /\ g.by # "none")
  <2>1. Giving(fixes, g) /\ Safe(t, fixes, g)
    BY <1>1, <1>4, <1>8, FixAllGoal
  <2> HIDE DEF fixes, last
  <2> QED  BY <1>2, <1>3, <1>5, <1>6, <2>1, TogetherSafe
<1> QED  BY <1>4, <1>7, <1>8

LEMMA InvokeDelivers ==
  ASSUME EditInv, NamesApart, NEW p \in Procs, Invoke(p), Delivers(p)'
  PROVE  Delivering(p)'
<1>1. PICK c \in Menu :
           /\ c \in Command /\ cmd'[p] = c /\ todo'[p] = Script(c)
           /\ \A k \in Calls(p)' : Asks(c, k)
           /\ UNCHANGED ct
  BY Invoked DEF EditInv
<1>2. /\ c.ct \in Names /\ c.kind \in {"create", "autofix"} /\ Script(c) \in Seq(Call)
      /\ UNCHANGED <<host, nv>>
  BY <1>1, ScriptType DEF Delivers, Command, Invoke, world
<1>3. \A k \in Calls(p)' : k.op # "init" => Minded(p, k)'
  BY <1>1, <1>2 DEF Asks, Minded, RepairOps, Restarting, Creating
<1>4. \A n : Repaired(n)' = Repaired(n)
  BY <1>2 DEF Repaired, Dir, Sound, Mounted
<1> DEFINE calm == Do("lookup", c.ct, "fail")
<1>5. \A g : ~Drops(calm, g)
  <2>1. Still(calm)
    BY DEF Still, Do
  <2> QED  BY <2>1, StillSafe
<1> HIDE DEF calm
<1>6. ASSUME NEW g, Giving(Script(c), g), Safe(calm, Script(c), g)
      PROVE  Assured(p, g)' /\ Guarded(p, g)'
  BY <1>1, <1>5, <1>6 DEF Giving, Safe, Assured, Guarded, Calls
<1>7. CASE c.kind = "create"
  <2> DEFINE begin == DoVal("init", c.ct, c.flag, "fail")
             rest == AfterInit(c)
  <2>1. /\ Script(c) = <<begin>> \o rest /\ rest \in Seq(Call)
        /\ \A i \in DOMAIN rest : rest[i].op # "init"
    <3>1. rest \in Seq(Follow("rollback"))
      BY <1>1, AfterInitType
    <3>2. \A i \in DOMAIN rest : rest[i] \in Follow("rollback")
      BY <3>1
    <3> QED  BY <1>7, <3>1, <3>2, FollowIsCall DEF Script, Create, Follow
  <2>2. begin.op = "init" /\ begin.ct = c.ct /\ begin.val = c.flag /\ begin.err = "fail"
    BY DEF DoVal, Do
  <2> HIDE DEF begin, rest
  <2>3. /\ Script(c)[1] = begin
        /\ \A i \in DOMAIN Script(c) : i # 1 =>
              i - 1 \in DOMAIN rest /\ Script(c)[i] = rest[i - 1]
    BY <2>1
  <2>4. InitOnce(p)'
    BY <1>1, <2>1, <2>3 DEF InitOnce
  <2>5. ASSUME NEW k \in Calls(p)', k.op = "init" PROVE Minded(p, k)'
    <3>1. k = begin
      <4>1. PICK i \in DOMAIN Script(c) : k = Script(c)[i]
        BY <1>1 DEF Calls
      <4>2. i = 1
        BY <2>1, <2>3, <2>5, <4>1
      <4> QED  BY <2>3, <4>1, <4>2
    <3> QED  BY <1>1, <1>7, <2>2, <3>1 DEF Minded, RepairOps, Creating
  <2>6. /\ Creating(p)' /\ At(p, "init")'
        /\ Goals(p)' = Repaired(c.ct) \cup Registered(c.ct, c.user)
    <3>1. At(p, "init")'
      BY <1>1, <1>7, CreateBegins DEF At
    <3>2. Registered(c.ct, c.user)' = Registered(c.ct, c.user)
      BY DEF Registered
    <3> QED  BY <1>1, <1>4, <1>7, <3>1, <3>2 DEF Goals, Creating
  <2>7. ASSUME NEW g \in Goals(p)' PROVE Assured(p, g)' /\ Guarded(p, g)'
    BY <1>1, <1>5, <1>6, <1>7, <2>6, <2>7, CreateGoals
  <2>8. DropsLast(p)'
    BY <1>1, <1>7, CreateGoals DEF Late, DropsLast
  <2> QED  BY <1>3, <2>4, <2>5, <2>6, <2>7, <2>8 DEF Delivering
<1>8. CASE c.kind = "autofix"
  <2>1. \A k \in Calls(p)' : k.op # "init" /\ k.err = "fail"
    BY <1>1, <1>8 DEF Asks
  <2>2. \A i \in DOMAIN todo'[p] : todo'[p][i] \in Calls(p)'
    BY DEF Calls
  <2>3. InitOnce(p)' /\ DropsLast(p)'
    BY <2>1, <2>2 DEF InitOnce, DropsLast
  <2>4. ~Creating(p)'
    BY <1>1, <1>8 DEF Creating
  <2>5. ASSUME NEW g \in Goals(p)' PROVE Assured(p, g)' /\ Guarded(p, g)'
    <3>1. PICK n \in Names :
             g \in Repaired(n) \cup {Goal("running", n, "none"), Goal("loaded", n, "none")}
      BY <1>4, <2>4, <2>5 DEF Goals, ClickTargets
    <3> QED  BY <1>1, <1>6, <1>8, <3>1, AutofixGoals
  <2> QED  BY <1>3, <2>1, <2>3, <2>4, <2>5 DEF Delivering
<1> QED  BY <1>2, <1>7, <1>8

--------------------------------------------------------------------------------
(* Only a run that was not being undone goes on, or ends well.              *)
LEMMA EndsWell ==
  ASSUME TypeInv, NEW p \in Procs, Active(p), todo[p] # <<>>, Moves(p) \/ Raise(p),
         res'[p] \in {"running", "ok"}
  PROVE  res[p] = "running"
<1>1. res \in [Procs -> Results] /\ res[p] \in {"running", "undoing"}
  BY DEF TypeInv, TypeOK, Active
<1>2. ASSUME NEW ts, Continue(p, ts) PROVE res[p] = "running"
  BY <1>1, <1>2 DEF Continue
<1>3. CASE Raise(p)
  BY <1>1, <1>2, <1>3 DEF Raise
<1> QED  BY <1>2, <1>3 DEF Moves

(* What a command that is under way, or ends well, has done so far.         *)
LEMMA OnItsWay ==
  ASSUME GoalInv, NamesApart, NEW p \in Procs, Step(p) \/ Break(p), Active(p),
         cmd[p].kind \in {"create", "autofix"}, res'[p] \in {"running", "ok"}
  PROVE  Delivering(p)' /\ res[p] = "running"
<1>1. EditInv /\ TypeInv /\ res'[p] # "killed"
  BY DEF GoalInv, EditInv
<1>2. todo[p] # <<>> /\ (Moves(p) \/ Raise(p))
  <2>1. CASE Step(p)
    BY <1>1, <2>1, StepMoves
  <2>2. CASE Break(p)
    BY <1>1, <2>2, BrokenOff
  <2> QED  BY <2>1, <2>2
<1>3. Delivers(p) /\ Delivering(p)
  BY <1>1, <1>2, EndsWell DEF GoalInv, Delivers
<1> QED  BY <1>1, <1>3, StepDelivers, BreakDelivers DEF Delivers

LEMMA ActiveHere ==
  ASSUME EditInv, NEW p \in Procs, Step(p) \/ Break(p)
  PROVE  /\ Active(p) /\ UNCHANGED <<cmd, host, nv>>
         /\ \A q \in Procs \ {p} : res'[q] = res[q] /\ ~Active(q)
<1>1. CASE Step(p)
  BY <1>1, StepMoves DEF EditInv, Alone, Step
<1>2. CASE Break(p)
  <2>1. /\ UNCHANGED <<cmd, host, nv>> /\ Active(p)
        /\ \A q \in Procs \ {p} : res'[q] = res[q]
    BY <1>2, BrokenOff DEF EditInv, Alone, Break
  <2> QED  BY <2>1 DEF EditInv, Alone
<1> QED  BY <1>1, <1>2

LEMMA GoalNextInv ==
  ASSUME Exclusive, HomesThere, NamesApart, GoalInv, [Next]_vars
  PROVE  GoalInv'
<1>1. EditInv /\ EditInv'
  BY EditNext DEF GoalInv
<1> SUFFICES ASSUME NEW p \in Procs, Delivers(p)' PROVE Delivering(p)'
  BY <1>1 DEF GoalInv
<1>2. ASSUME NEW q \in Procs, Step(q) \/ Break(q) PROVE Delivering(p)'
  <2>1. CASE p = q
    <3>1. cmd[p].kind \in {"create", "autofix"} /\ Active(p)
      BY <1>1, <1>2, <2>1, ActiveHere DEF Delivers
    <3> QED  BY <1>2, <2>1, <3>1, OnItsWay DEF Delivers
  <2>2. CASE p # q
    BY <1>1, <1>2, <2>2, ActiveHere DEF Delivers, Active
  <2> QED  BY <2>1, <2>2
<1>3. ASSUME NEW q \in Procs, Invoke(q) PROVE Delivering(p)'
  <2>1. CASE p = q
    BY <1>1, <1>3, <2>1, InvokeDelivers
  <2>2. CASE p # q
    <3>1. res'[p] = res[p] /\ ~Active(p)
      BY <1>1, <1>3, <2>2, Invoked DEF EditInv, Invoke, Quiet
    <3> QED  BY <3>1 DEF Delivers, Active
  <2> QED  BY <2>1, <2>2
<1>4. CASE Replug \/ UpgradeDriver
  <2>1. res' = res /\ ~Active(p)
    BY <1>4 DEF Replug, UpgradeDriver, ChangeHost, Quiet
  <2> QED  BY <2>1 DEF Delivers, Active
<1>5. CASE UNCHANGED vars
  <2>1. UNCHANGED <<ct, host, nv, cmd, todo, res>>
    BY <1>5 DEF vars
  <2>2. Delivering(p)
    BY <2>1 DEF GoalInv, Delivers
  <2>3. Calls(p)' = Calls(p) /\ \A c : Minded(p, c)' = Minded(p, c)
    BY <2>1 DEF Calls, Minded, Creating
  <2>4. Goals(p)' = Goals(p)
    <3>1. \A n : Repaired(n)' = Repaired(n)
      BY <2>1 DEF Repaired, Dir, Sound, Mounted
    <3> QED  BY <2>1, <3>1 DEF Goals, Creating, ClickTargets, Present, Registered
  <2>5. \A g : Assured(p, g)' = Assured(p, g) /\ Guarded(p, g)' = Guarded(p, g)
    BY <2>1, <2>3 DEF Assured, Guarded, Have
  <2>6. /\ InitOnce(p)' = InitOnce(p) /\ DropsLast(p)' = DropsLast(p)
        /\ Made(p)' = Made(p) /\ At(p, "init")' = At(p, "init")
        /\ Creating(p)' = Creating(p)
    BY <2>1 DEF InitOnce, DropsLast, Made, At, Creating
  <2> QED  BY <2>2, <2>3, <2>4, <2>5, <2>6 DEF Delivering
<1> QED  BY <1>2, <1>3, <1>4, <1>5 DEF Next

(* Nothing is left to do, so every goal is reached.                         *)
LEMMA AllReached ==
  ASSUME Exclusive, HomesThere, NamesApart, GoalInv, [Next]_vars, NEW p \in Procs,
         Active(p), cmd[p].kind \in {"create", "autofix"}, res'[p] = "ok"
  PROVE  /\ cmd'[p] = cmd[p] /\ TypeInv' /\ NvidiaDir(p)' = Dir'
         /\ \A g \in Goals(p)' : Have(g)'
         /\ Creating(p)' => Made(p)'
<1>1. EditInv /\ EditInv' /\ TypeInv /\ TypeInv' /\ res[p] \in {"running", "undoing"}
  BY EditNext DEF GoalInv, EditInv, Active
<1>2. Step(p) \/ Break(p)
  <2>1. ~ UNCHANGED res
    BY <1>1
  <2>2. ASSUME NEW q \in Procs, Invoke(q) PROVE FALSE
    <3>1. res[q] = "idle" /\ (q # p => res'[p] = res[p])
      BY <1>1, <2>2, Invoked
    <3> QED  BY <1>1, <3>1
  <2>3. ASSUME NEW q \in Procs, Step(q) \/ Break(q) PROVE q = p
    BY <1>1, <2>3, ActiveHere
  <2> QED  BY <2>1, <2>2, <2>3, NextCases
<1>3. Delivering(p)' /\ UNCHANGED <<cmd, host, nv>>
  BY <1>1, <1>2, OnItsWay, ActiveHere
<1>4. todo'[p] = <<>> /\ Calls(p)' = {} /\ ~At(p, "init")'
  <2>1. todo'[p] = <<>>
    BY <1>1 DEF EditInv, Alone, Active
  <2> QED  BY <2>1 DEF Calls, At
<1>5. \A g \in Goals(p)' : Have(g)'
  BY <1>3, <1>4 DEF Delivering, Assured
<1>6. Creating(p)' => Made(p)'
  BY <1>3, <1>4 DEF Delivering
<1>7. NvidiaDir(p)' = Dir'
  <2>1. nvDir'[p] = nvDir[p] \/ nvDir'[p] = NvidiaDir(p)
    <3>1. CASE Step(p)
      BY <1>1, <3>1, StepCaches
    <3>2. CASE Break(p)
      BY <3>2 DEF Break, Fault, Kill
    <3> QED  BY <1>2, <3>1, <3>2
  <2>2. nvDir[p] = "none" \/ (nvDir[p] = nv /\ nv \in host)
    BY <1>1 DEF EditInv, Cached
  <2>3. nvDir'[p] = "none" \/ (nvDir'[p] = nv /\ nv \in host)
    BY <2>1, <2>2 DEF NvidiaDir
  <2>4. "none" \notin host
    BY <1>1, LxdAssumption DEF TypeInv, TypeOK, LxdTypeOK
  <2>5. Dir' = Dir
    BY <1>3 DEF Dir
  <2>6. NvidiaDir(p)' = IF nv = "none" THEN "none"
                        ELSE IF nvDir'[p] # "none" THEN nvDir'[p]
                        ELSE IF nv \in host THEN nv ELSE "none"
    BY <1>3 DEF NvidiaDir
  <2> QED  BY <2>3, <2>4, <2>5, <2>6 DEF Dir
<1> QED  BY <1>1, <1>3, <1>5, <1>6, <1>7

(* No fixable complains of a container with these goals.                    *)
LEMMA RepairedHealthy ==
  ASSUME TypeInv', NEW p, NEW n \in Names, NvidiaDir(p)' = Dir',
         \A g \in Repaired(n)' : Have(g)'
  PROVE  Healthy(p, n)'
<1> DEFINE cfg == ct[n].cfg
<1>1. /\ \A d \in Dev : DeviceGoal(n, d, Sound', "devices") \in Repaired(n)'
      /\ \A d \in Cards \cap host' : DeviceGoal(n, d, Mounted, "dri") \in Repaired(n)'
      /\ Goal("access", n, "none") \in Repaired(n)'
  BY DEF Repaired, Mounted
<1>2. ASSUME Dir' # "none"
      PROVE  /\ DeviceGoal(n, "nv-bin", {Dir'}, "nvidia") \in Repaired(n)'
             /\ Goal("ldconf", n, "none") \in Repaired(n)'
             /\ \A d \in NvNodes \cap host' :
                  DeviceGoal(n, d, Mounted, "nvidia") \in Repaired(n)'
  BY <1>2 DEF Repaired, Mounted
<1>3. ASSUME NEW d, NEW vals, NEW by, DeviceGoal(n, d, vals, by) \in Repaired(n)'
      PROVE  cfg'.devs[d] \in vals
  <2>1. Have(DeviceGoal(n, d, vals, by))'
    BY <1>3
  <2>2. /\ DeviceGoal(n, d, vals, by).goal = "device" /\ DeviceGoal(n, d, vals, by).ct = n
        /\ DeviceGoal(n, d, vals, by).dev = d /\ DeviceGoal(n, d, vals, by).vals = vals
    BY DEF DeviceGoal
  <2> QED  BY <2>1, <2>2 DEF Have
<1>4. ASSUME NEW what, Goal(what, n, "none") \in Repaired(n)'
      PROVE  /\ what = "access" => ct'[n].access
             /\ what = "ldconf" => ct'[n].ldconf # "absent"
  <2>1. Have(Goal(what, n, "none"))'
    BY <1>4
  <2>2. Goal(what, n, "none").goal = what /\ Goal(what, n, "none").ct = n
    BY DEF Goal
  <2> QED  BY <2>1, <2>2 DEF Have
<1>5. ~Problem(p, "access", n, cfg)'
  BY <1>1, <1>4 DEF Problem
<1>6. ~Problem(p, "devices", n, cfg)'
  <2>1. \A d \in Dev : cfg'.devs[d] \notin Path \ host'
    BY <1>1, <1>3 DEF Sound
  <2>2. Broken(cfg)' = {}
    BY <2>1 DEF Broken, Checked
  <2> QED  BY <2>2 DEF Problem
<1>7. ~Problem(p, "dri", n, cfg)'
  <2>1. \A d \in Cards \cap host' : cfg'.devs[d] # "none"
    BY <1>1, <1>3 DEF Mounted
  <2>2. MissingNodes(cfg, Cards)' = {}
    BY <2>1 DEF MissingNodes
  <2> QED  BY <2>2 DEF Problem
<1>8. ~Problem(p, "nvidia", n, cfg)'
  <2>1. CASE Dir' = "none"
    BY <2>1 DEF Problem
  <2>2. CASE Dir' # "none"
    <3>1. cfg'.devs["nv-bin"] = Dir' /\ ct'[n].ldconf # "absent"
      <4>1. cfg'.devs["nv-bin"] \in {Dir'}
        BY <1>2, <1>3, <2>2
      <4> QED  BY <1>2, <1>4, <2>2, <4>1
    <3>2. \A d \in NvNodes \cap host' : cfg'.devs[d] # "none"
      BY <1>2, <1>3, <2>2 DEF Mounted
    <3>3. MissingNodes(cfg, NvNodes)' = {}
      BY <3>2 DEF MissingNodes
    <3> QED  BY <3>1, <3>3 DEF Problem
  <2> QED  BY <2>1, <2>2
<1> QED  BY <1>5, <1>6, <1>7, <1>8 DEF Healthy, Fixables

LEMMA GoalInit ==
  ASSUME HomesThere, Init
  PROVE  GoalInv
<1>1. \A p \in Procs : res[p] = "idle"
  BY DEF Init
<1> QED  BY <1>1, EditInit DEF GoalInv, Delivers

(* One command at a time, a create that succeeds has done all of its work:  *)
(* the target is a click target with the flag of its image, /tmp and the    *)
(* home are mounted, the user is registered, and no fixable would complain  *)
(* - whatever requests failed on the way, or lost their answer.             *)
THEOREM CreateDoesAll ==
  ASSUME Exclusive, HomesThere, NamesApart
  PROVE  Spec => CreateDelivers
<1>1. Init => GoalInv
  BY GoalInit
<1>2. GoalInv /\ [Next]_vars => GoalInv'
  BY GoalNextInv
<1>3. GoalInv /\ [Next]_vars =>
        \A p \in Procs : Finishes(p, "create") =>
          LET n == cmd[p].ct  u == cmd[p].user
          IN  /\ n \in ClickTargets'
              /\ ct'[n].cfg.devs["tmp"] = "tmp" /\ ct'[n].cfg.devs[u] = u
              /\ ct'[n].cfg.updates = (cmd[p].flag = "true")
              /\ u \in ct'[n].users
              /\ Healthy(p, n)'
  <2> SUFFICES ASSUME GoalInv, [Next]_vars, NEW p \in Procs, Finishes(p, "create")
               PROVE  LET n == cmd[p].ct  u == cmd[p].user
                      IN  /\ n \in ClickTargets'
                          /\ ct'[n].cfg.devs["tmp"] = "tmp" /\ ct'[n].cfg.devs[u] = u
                          /\ ct'[n].cfg.updates = (cmd[p].flag = "true")
                          /\ u \in ct'[n].users
                          /\ Healthy(p, n)'
    OBVIOUS
  <2>1. cmd[p].kind = "create" /\ Active(p) /\ res'[p] = "ok"
    BY DEF Finishes
  <2>2. /\ cmd'[p] = cmd[p] /\ TypeInv' /\ NvidiaDir(p)' = Dir'
        /\ \A g \in Goals(p)' : Have(g)'
        /\ Creating(p)' => Made(p)'
    BY <2>1, AllReached
  <2>3. Creating(p)' /\ Made(p)'
    BY <2>1, <2>2 DEF Creating
  <2>4. cmd[p].ct \in Names /\ cmd[p].user \in Users
    <3>1. cmd[p] \in Command
      BY <2>1 DEF GoalInv, EditInv, TypeInv, TypeOK, NoCommand, Command
    <3> QED  BY <3>1 DEF Command
  <2>5. PICK n \in Names, u \in Users : n = cmd[p].ct /\ u = cmd[p].user
    BY <2>4
  <2>6. n \in ClickTargets' /\ ct'[n].cfg.updates = (cmd[p].flag = "true")
    BY <2>2, <2>3, <2>5 DEF Made, ClickTargets, Present
  <2>7. Goals(p)' = Repaired(n)' \cup Registered(n, u)
    BY <2>2, <2>3, <2>5 DEF Goals, Registered
  <2>8. Healthy(p, n)'
    BY <2>2, <2>7, RepairedHealthy
  <2>9. ct'[n].cfg.devs["tmp"] \in {"tmp"} /\ ct'[n].cfg.devs[u] \in {u} /\ u \in ct'[n].users
    <3> DEFINE tmp == DeviceGoal(n, "tmp", {"tmp"}, "none")
               home == DeviceGoal(n, u, {u}, "none")
               user == Goal("user", n, u)
    <3>1. Have(tmp)' /\ Have(home)' /\ Have(user)'
      BY <2>2, <2>7 DEF Registered
    <3>2. /\ tmp.goal = "device" /\ tmp.ct = n /\ tmp.dev = "tmp" /\ tmp.vals = {"tmp"}
          /\ home.goal = "device" /\ home.ct = n /\ home.dev = u /\ home.vals = {u}
          /\ user.goal = "user" /\ user.ct = n /\ user.dev = u
      BY DEF DeviceGoal, Goal
    <3> HIDE DEF tmp, home, user
    <3> QED  BY <3>1, <3>2 DEF Have
  <2>10. Healthy(p, cmd[p].ct)'
    <3>1. n = cmd'[p].ct
      BY <2>2, <2>5
    <3> QED  BY <2>8, <3>1
  <2> QED  BY <2>5, <2>6, <2>9, <2>10
<1> QED  BY <1>1, <1>2, <1>3, PTL DEF Spec, CreateDelivers

(* One command at a time, an autofix that succeeds leaves every click       *)
(* target running, its loader cache rebuilt, and no fixable with a          *)
(* complaint: no repair or restart undoes what one before it did.           *)
THEOREM AutofixDoesAll ==
  ASSUME Exclusive, HomesThere, NamesApart
  PROVE  Spec => AutofixHeals
<1>1. Init => GoalInv
  BY GoalInit
<1>2. GoalInv /\ [Next]_vars => GoalInv'
  BY GoalNextInv
<1>3. GoalInv /\ [Next]_vars =>
        \A p \in Procs : Finishes(p, "autofix") =>
          \A n \in ClickTargets' :
             /\ ct'[n].status = "Running" /\ ct'[n].ldconf # "written"
             /\ Healthy(p, n)'
  <2> SUFFICES ASSUME GoalInv, [Next]_vars, NEW p \in Procs, Finishes(p, "autofix"),
                      NEW n \in ClickTargets'
               PROVE  /\ ct'[n].status = "Running" /\ ct'[n].ldconf # "written"
                      /\ Healthy(p, n)'
    OBVIOUS
  <2>1. cmd[p].kind = "autofix" /\ Active(p) /\ res'[p] = "ok" /\ n \in Names
    BY DEF Finishes, ClickTargets
  <2>2. /\ cmd'[p] = cmd[p] /\ NvidiaDir(p)' = Dir' /\ TypeInv'
        /\ \A g \in Goals(p)' : Have(g)'
    BY <2>1, AllReached
  <2> DEFINE up == Goal("running", n, "none")
             fresh == Goal("loaded", n, "none")
  <2>3. Repaired(n)' \cup {up, fresh} \subseteq Goals(p)'
    BY <2>1, <2>2 DEF Goals, Creating
  <2>4. Healthy(p, n)'
    BY <2>1, <2>2, <2>3, RepairedHealthy
  <2>5. up.goal = "running" /\ up.ct = n /\ fresh.goal = "loaded" /\ fresh.ct = n
    BY DEF Goal
  <2> HIDE DEF up, fresh
  <2>6. Have(up)' /\ Have(fresh)'
    BY <2>2, <2>3
  <2> QED  BY <2>4, <2>5, <2>6 DEF Have
<1> QED  BY <1>1, <1>2, <1>3, PTL DEF Spec, AutofixHeals
================================================================================
