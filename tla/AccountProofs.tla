------------------------------ MODULE AccountProofs -----------------------------
(****************************************************************************)
(* What TLAPS proves about register: which groups an account is given and   *)
(* which it keeps, that it has its home, and why a register may fail, for   *)
(* any users and groups of host and container, any number of registers at   *)
(* once and of faults.                                                      *)
(****************************************************************************)
EXTENDS MainProofs

(* The groups that a user may be put into: those of the host that have her, *)
(* with -g.                                                                 *)
Allowed(p) == IF line[p].sup THEN MemberOf(User(p)) ELSE {}
AllowedNames(p) == {scene.groups[i].name : i \in Allowed(p)}

(* The inductive invariant of NoForeignGroup: what is left to be added is a *)
(* primary group or allowed, and only allowed groups are remembered.        *)
GroupsOf(p) ==
    /\ left[p] \subseteq Primary(User(p)) \cup Allowed(p)
    /\ suppl[p] \subseteq AllowedNames(p)
    /\ pc[p] = "idle" => left[p] = {} /\ suppl[p] = {}

MadeRightly(a) ==
    /\ a.by \in Runs /\ pc[a.by] # "idle" /\ a.name = User(a.by)
    /\ a.groups \subseteq {"video"} \cup AllowedNames(a.by)

GroupsInv ==
    /\ \A p \in Runs : GroupsOf(p)
    /\ \A a \in accounts : a.by # "nobody" => MadeRightly(a)

LEMMA GroupsSuffice == GroupsInv => NoForeignGroup
  BY DEF GroupsInv, MadeRightly, NoForeignGroup, AllowedNames, Allowed, HostMember

(* What is read off the command lines stays.                                *)
LEMMA LinesStay ==
  ASSUME UNCHANGED fixed
  PROVE  /\ \A p : User(p)' = User(p) /\ Allowed(p)' = Allowed(p) /\ Cmd(p)' = Cmd(p)
         /\ \A p : AllowedNames(p)' = AllowedNames(p)
         /\ \A u : Primary(u)' = Primary(u) /\ Uid(u)' = Uid(u)
         /\ OneUser' = OneUser /\ scene' = scene
  BY DEF fixed, User, UserFromEnv, Allowed, AllowedNames, MemberOf, Primary, PwGid, Uid,
         Positions, Cmd, OneUser

LEMMA GroupsKept ==
  ASSUME GroupsInv, UNCHANGED <<accounts, left, suppl, fixed>>,
         \A q \in Runs : (pc'[q] = "idle") <=> (pc[q] = "idle")
  PROVE  GroupsInv'
<1>1. \A q \in Runs : GroupsOf(q)'
  BY LinesStay DEF GroupsInv, GroupsOf
<1>2. \A a \in accounts : MadeRightly(a) => MadeRightly(a)'
  BY LinesStay DEF MadeRightly
<1>. QED  BY <1>1, <1>2 DEF GroupsInv

--------------------------------------------------------------------------------
LEMMA GroupsInvoke ==
  ASSUME TypeOK, GroupsInv, NEW p \in Runs, Invoke(p)
  PROVE  GroupsInv'
<1>1. pc[p] = "idle" /\ pc' = [pc EXCEPT ![p] = "load"]
      /\ UNCHANGED <<scene, accounts, left, suppl>>
  BY DEF Invoke, Go, guest, registering
<1>2. \A q \in Runs : q # p => line'[q] = line[q] /\ pc'[q] = pc[q]
  BY <1>1 DEF Invoke, TypeOK
<1>3. \A q \in Runs : q # p => /\ User(q)' = User(q) /\ Allowed(q)' = Allowed(q)
                               /\ AllowedNames(q)' = AllowedNames(q)
                               /\ Primary(User(q))' = Primary(User(q))
  <2>1. \A q \in Runs : q # p => User(q)' = User(q)
    BY <1>2 DEF User, UserFromEnv
  <2>2. \A u : MemberOf(u)' = MemberOf(u) /\ Primary(u)' = Primary(u)
    BY <1>1 DEF MemberOf, Primary, PwGid, Uid, Positions
  <2>3. \A q \in Runs : q # p => Allowed(q)' = Allowed(q) /\ Primary(User(q))' = Primary(User(q))
    BY <1>2, <2>1, <2>2 DEF Allowed
  <2>. QED  BY <1>1, <2>1, <2>3 DEF AllowedNames
<1>4. \A q \in Runs : GroupsOf(q)'
  BY <1>1, <1>2, <1>3 DEF GroupsInv, GroupsOf, TypeOK
<1>5. \A a \in accounts : MadeRightly(a) => a.by # p /\ MadeRightly(a)'
  BY <1>1, <1>2, <1>3 DEF MadeRightly
<1>. QED  BY <1>1, <1>4, <1>5 DEF GroupsInv

(* Only a group that is not the primary one is remembered.                  *)
LEMMA GroupsAdd ==
  ASSUME TypeOK, GroupsInv, NEW p \in Runs, GroupAdd(p), UNCHANGED fixed
  PROVE  (\A q \in Runs : left'[q] \subseteq left[q] /\ suppl'[q] \subseteq AllowedNames(q))
<1>1. PICK i \in left[p] :
        /\ left' = [left EXCEPT ![p] = @ \ {i}]
        /\ suppl' = [suppl EXCEPT ![p] =
                       IF Remembered(ExitCode(scene.groups[i])) /\ ~MustWork(p, scene.groups[i])
                       THEN @ \cup {scene.groups[i].name} ELSE @]
  BY DEF GroupAdd, First
<1>2. ~MustWork(p, scene.groups[i]) => i \in Allowed(p)
  BY DEF GroupsInv, GroupsOf, MustWork, Primary
<1>3. ~MustWork(p, scene.groups[i]) => scene.groups[i].name \in AllowedNames(p)
  BY <1>2 DEF AllowedNames
<1>4. \A q \in Runs : left'[q] \subseteq left[q]
  BY <1>1 DEF TypeOK
<1>5. \A q \in Runs : suppl'[q] \subseteq AllowedNames(q)
  BY <1>1, <1>3 DEF TypeOK, GroupsInv, GroupsOf
<1>. QED  BY <1>4, <1>5

LEMMA GroupsRegister ==
  ASSUME TypeOK, GroupsInv, NEW p \in Runs, RegisterStep(p) \/ RegisterFault(p),
         UNCHANGED fixed
  PROVE  GroupsInv'
<1>1. /\ \A q \in Runs : (pc'[q] = "idle") <=> (pc[q] = "idle")
      /\ pc[p] # "idle"
  BY RegisterGoes, OneGoes DEF Active
<1>2. \A q \in Runs : left'[q] \subseteq Primary(User(q)) \cup Allowed(q)
  <2>1. CASE QueryUser(p)
    <3>1. RequiredGroups(User(p), line[p].sup) \subseteq Primary(User(p)) \cup Allowed(p)
      BY DEF RequiredGroups, Allowed, First
    <3>. QED  BY <2>1, <3>1 DEF QueryUser, GroupsInv, GroupsOf, TypeOK
  <2>2. CASE GroupAdd(p)
    BY <2>2, GroupsAdd DEF GroupsInv, GroupsOf
  <2>3. CASE RegisterFault(p)
    <3>1. left' = left \/ \E i : left' = [left EXCEPT ![p] = @ \ {i}]
      BY <2>3 DEF RegisterFault
    <3>. QED  BY <3>1 DEF GroupsInv, GroupsOf, TypeOK
  <2>. QED  BY <2>1, <2>2, <2>3 DEF RegisterStep, Boot, GetDevices, PutDevices, UserAdd,
                registering, GroupsInv, GroupsOf
<1>3. \A q \in Runs : suppl'[q] \subseteq AllowedNames(q)
  <2>1. CASE GroupAdd(p)
    BY <2>1, GroupsAdd
  <2>. QED  BY <2>1 DEF RegisterStep, RegisterFault, Boot, QueryUser, GetDevices, PutDevices,
                UserAdd, registering, GroupsInv, GroupsOf
<1>4. \A q \in Runs : pc'[q] = "idle" => left'[q] = {} /\ suppl'[q] = {}
  <2>1. \A q \in Runs : q # p => left'[q] = left[q] /\ suppl'[q] = suppl[q]
    BY DEF RegisterStep, RegisterFault, Boot, QueryUser, GetDevices, PutDevices, GroupAdd,
           UserAdd, registering, TypeOK
  <2>. QED  BY <1>1, <2>1 DEF GroupsInv, GroupsOf
<1>5. \A q \in Runs : GroupsOf(q)'
  BY <1>2, <1>3, <1>4, LinesStay DEF GroupsOf
<1>6. accounts' \subseteq accounts \cup {Account(p)}
  BY DEF RegisterStep, RegisterFault, Boot, QueryUser, GetDevices, PutDevices, GroupAdd,
         UserAdd, guest
<1>7. MadeRightly(Account(p))
  BY <1>1 DEF MadeRightly, Account, GroupsInv, GroupsOf
<1>8. \A a : MadeRightly(a) => MadeRightly(a)'
  BY <1>1, LinesStay DEF MadeRightly
<1>. QED  BY <1>5, <1>6, <1>7, <1>8 DEF GroupsInv

LEMMA GroupsNext ==
  ASSUME TypeOK, GroupsInv, Next
  PROVE  GroupsInv'
<1>1. ASSUME NEW p \in Runs, StartupStep(p), UNCHANGED <<guest, registering, fixed>>
      PROVE  GroupsInv'
  BY <1>1, StartupGoes, OneGoes, GroupsKept DEF Elsewhere, guest, registering
<1>2. ASSUME NEW p \in Runs, CommandStep(p), UNCHANGED <<guest, registering, fixed>>
      PROVE  GroupsInv'
  BY <1>2, CommandGoes, OneGoes, GroupsKept DEF Elsewhere, guest, registering
<1>3. ASSUME NEW p \in Runs, Fault(p) \/ Kill(p), UNCHANGED <<guest, registering, fixed>>
      PROVE  GroupsInv'
  BY <1>3, FaultGoes, OneGoes, GroupsKept DEF Places, Ended, guest, registering
<1>4. ASSUME StopContainer, UNCHANGED fixed
      PROVE  GroupsInv'
  BY <1>4, GroupsKept DEF StopContainer, registering
<1>5. ASSUME NEW p \in Runs, WriteFails(p) \/ RemovalFails(p),
             UNCHANGED <<guest, registering, fixed>>
      PROVE  GroupsInv'
  BY <1>5, WriteFailsGoes, RemovalFailsGoes, OneGoes, GroupsKept DEF Elsewhere, guest, registering
<1>6. ASSUME Break, UNCHANGED fixed
      PROVE  GroupsInv'
  BY <1>3, <1>4, <1>5, <1>6, GroupsRegister DEF Break
<1>. QED  BY StepCases, <1>1, <1>2, <1>6, GroupsInvoke, GroupsRegister

(* A register never puts an account into a group that its user is not a     *)
(* member of on the host: the primary group is never remembered by name,    *)
(* and every other group that is gone through has the user.                 *)
THEOREM GroupsCorrect == Spec => []NoForeignGroup
<1>1. Init => GroupsInv
  <2>. SUFFICES ASSUME Init PROVE GroupsInv
    OBVIOUS
  <2>1. \A a \in accounts : a.by = "nobody"
    BY MainAssumption DEF Init, IsScenario
  <2>. QED  BY <2>1 DEF Init, GroupsInv, GroupsOf
<1>2. TypeOK /\ GroupsInv /\ [Next]_vars => GroupsInv'
  <2>1. ASSUME GroupsInv, UNCHANGED vars PROVE GroupsInv'
    BY <2>1, GroupsKept DEF vars, guest, registering, fixed
  <2>. QED  BY <2>1, GroupsNext
<1>. QED  BY <1>1, <1>2, MainTypeCorrect, GroupsSuffice, PTL DEF Spec

--------------------------------------------------------------------------------
(* The inductive invariant of HomeWithAccount.  Only registers mount homes; *)
(* and while nothing overlaps, or all registers are of one user, the PUT of *)
(* AddDeviceSync does not lose what another one has mounted.                *)
Registers == {q \in Runs : Cmd(q) = "register"}
Registered == {User(q) : q \in Registers}

OnlyRegisters ==
    /\ \A p \in Runs : pc[p] \in Registering => Cmd(p) = "register"
    /\ homes \subseteq Registered /\ \A p \in Runs : seen[p] \subseteq Registered

NothingLost == scene.alone => \A p \in Runs : pc[p] = "put" => homes \subseteq Mounted(p)

HomesThere ==
    scene.alone \/ OneUser =>
        /\ \A p \in Runs : pc[p] = "groups" => User(p) \in homes
        /\ \A a \in accounts : a.by # "nobody" => a.name \in homes

HomeInv == OnlyRegisters /\ NothingLost /\ HomesThere

LEMMA RegistersStay ==
  ASSUME UNCHANGED fixed
  PROVE  Registers' = Registers /\ Registered' = Registered
  BY LinesStay DEF Registers, Registered

(* A step that leaves homes, seen and accounts alone, and brings nobody to  *)
(* the PUT or to the groups.                                                *)
LEMMA HomesKept ==
  ASSUME HomeInv, UNCHANGED <<accounts, homes, seen, fixed>>,
         \A q \in Runs : pc'[q] = pc[q] \/ pc'[q] \notin Registering
                          \/ (pc'[q] \notin {"put", "groups"} /\ Cmd(q) = "register")
                          \/ (pc'[q] = "groups" /\ pc[q] = "groups")
  PROVE  HomeInv'
<1>1. OnlyRegisters'
  BY LinesStay, RegistersStay DEF HomeInv, OnlyRegisters, Registering, Mounting
<1>2. NothingLost'
  BY LinesStay DEF HomeInv, NothingLost, Mounted, Registering, Mounting
<1>3. HomesThere'
  BY LinesStay DEF HomeInv, HomesThere, Registering, Mounting
<1>. QED  BY <1>1, <1>2, <1>3 DEF HomeInv

LEMMA HomesInvoke ==
  ASSUME TypeOK, HomeInv, NEW p \in Runs, Invoke(p)
  PROVE  HomeInv'
<1>1. /\ pc[p] = "idle" /\ pc' = [pc EXCEPT ![p] = "load"]
      /\ UNCHANGED <<scene, accounts, homes, seen>>
  BY DEF Invoke, Go, guest, registering
<1>2. /\ \A q \in Runs : q # p => line'[q] = line[q] /\ pc'[q] = pc[q]
      /\ pc'[p] = "load" /\ Cmd(p) = "none"
  BY <1>1 DEF Invoke, TypeOK, Cmd, NoLine
<1>3. \A q \in Runs : q # p => User(q)' = User(q) /\ Cmd(q)' = Cmd(q)
  BY <1>2 DEF User, UserFromEnv, Cmd
<1>4. Registered \subseteq Registered'
  <2>1. \A q \in Registers : q # p /\ q \in Registers' /\ User(q)' = User(q)
    BY <1>2, <1>3 DEF Registers
  <2>. QED  BY <2>1 DEF Registered
<1>5. OnlyRegisters'
  BY <1>1, <1>2, <1>3, <1>4 DEF HomeInv, OnlyRegisters, Registering, Mounting
<1>6. NothingLost'
  BY <1>1, <1>2, <1>3 DEF HomeInv, NothingLost, Mounted
<1>7. OneUser' => OneUser
  BY <1>2, <1>3 DEF OneUser
<1>8. HomesThere'
  BY <1>1, <1>2, <1>3, <1>7 DEF HomeInv, HomesThere
<1>. QED  BY <1>5, <1>6, <1>8 DEF HomeInv

(* The PUT, whether the answer arrives or not.                              *)
LEMMA HomesPut ==
  ASSUME TypeOK, Apart, HomeInv, NEW p \in Runs, pc[p] = "put", homes' = Mounted(p),
         UNCHANGED <<accounts, seen, fixed>>, NEW place \in {"groups", "error"}, Go(p, place)
  PROVE  HomeInv'
<1>1. /\ Active(p) /\ p \in Registers /\ User(p) \in Registered
      /\ Mounted(p) \subseteq Registered
  BY DEF HomeInv, OnlyRegisters, Registering, Mounting, Registers, Registered, Mounted,
         Active, Ended
<1>2. /\ \A q \in Runs : Active(q)' => Active(q)
      /\ pc'[p] = place /\ \A q \in Runs : q # p => pc'[q] = pc[q]
  BY <1>1, OneGoes DEF Places, Ended
<1>3. OnlyRegisters'
  BY <1>1, <1>2, LinesStay, RegistersStay DEF HomeInv, OnlyRegisters, Registering, Mounting
<1>4. NothingLost'
  BY <1>1, <1>2, LinesStay DEF HomeInv, Apart, NothingLost, Active, Ended
<1>5. scene.alone \/ OneUser => homes \subseteq Mounted(p)
  <2>1. OneUser => Registered \subseteq {User(p)}
    BY <1>1 DEF OneUser, Registers, Registered
  <2>. QED  BY <2>1 DEF HomeInv, OnlyRegisters, NothingLost, Mounted
<1>6. User(p) \in Mounted(p)
  BY DEF Mounted
<1>7. HomesThere'
  BY <1>2, <1>5, <1>6, LinesStay DEF HomeInv, HomesThere
<1>. QED  BY <1>3, <1>4, <1>7 DEF HomeInv

(* useradd comes after the PUT of the register.                             *)
LEMMA HomesUser ==
  ASSUME TypeOK, HomeInv, NEW p \in Runs, pc[p] = "groups",
         accounts' \in {accounts, accounts \cup {Account(p)}},
         UNCHANGED <<homes, seen, fixed>>, NEW place \in {"ok", "error"}, Go(p, place)
  PROVE  HomeInv'
<1>1. /\ pc'[p] = place /\ \A q \in Runs : q # p => pc'[q] = pc[q]
  BY OneGoes DEF Places, Ended, Active
<1>2. OnlyRegisters' /\ NothingLost'
  BY <1>1, LinesStay, RegistersStay
     DEF HomeInv, OnlyRegisters, NothingLost, Mounted, Registering, Mounting
<1>3. Account(p).name = User(p)
  BY DEF Account
<1>4. HomesThere'
  BY <1>1, <1>3, LinesStay DEF HomeInv, HomesThere
<1>. QED  BY <1>2, <1>4 DEF HomeInv

(* The GET remembers what is mounted.                                       *)
LEMMA HomesGet ==
  ASSUME TypeOK, HomeInv, NEW p \in Runs, GetDevices(p), UNCHANGED fixed
  PROVE  HomeInv'
<1>1. /\ pc[p] = "get" /\ UNCHANGED <<homes, accounts>> /\ seen' = [seen EXCEPT ![p] = homes]
      /\ \E place \in {"put", "error"} : Go(p, place)
  BY DEF GetDevices, guest
<1>2. /\ pc'[p] \in {"put", "error"} /\ \A q \in Runs : q # p => pc'[q] = pc[q]
  BY <1>1, OneGoes DEF Places, Ended, Active
<1>3. seen'[p] = homes /\ \A q \in Runs : q # p => seen'[q] = seen[q]
  BY <1>1 DEF TypeOK
<1>4. OnlyRegisters'
  BY <1>1, <1>2, <1>3, LinesStay, RegistersStay DEF HomeInv, OnlyRegisters, Registering, Mounting
<1>5. NothingLost'
  BY <1>1, <1>2, <1>3, LinesStay DEF HomeInv, NothingLost, Mounted
<1>6. HomesThere'
  BY <1>1, <1>2, LinesStay DEF HomeInv, HomesThere
<1>. QED  BY <1>4, <1>5, <1>6 DEF HomeInv

--------------------------------------------------------------------------------
LEMMA HomesRegister ==
  ASSUME TypeOK, Apart, HomeInv, NEW p \in Runs, RegisterStep(p) \/ RegisterFault(p),
         UNCHANGED fixed
  PROVE  HomeInv'
<1>1. pc[p] \in Registering /\ Cmd(p) = "register" /\ Active(p)
  BY RegisterGoes DEF HomeInv, OnlyRegisters
<1>2. ASSUME UNCHANGED <<accounts, homes, seen>>,
             NEW place \in Places \ {"idle", "put"}, Go(p, place),
             place = "groups" => pc[p] = "groups"
      PROVE  HomeInv'
  <2>1. pc'[p] = place /\ \A q \in Runs : q # p => pc'[q] = pc[q]
    BY <1>1, <1>2, OneGoes
  <2>. QED  BY <1>1, <1>2, <2>1, HomesKept
<1>. USE DEF Places, Ended, guest, registering
<1>3. CASE Boot(p)
  BY <1>3, <1>2 DEF Boot
<1>4. CASE QueryUser(p)
  BY <1>4, <1>2 DEF QueryUser
<1>5. CASE GetDevices(p)
  BY <1>5, HomesGet
<1>6. CASE PutDevices(p)
  BY <1>6, HomesPut DEF PutDevices
<1>7. CASE GroupAdd(p)
  <2>1. \E place \in {"groups", "error"} : Go(p, place)
    BY <1>7 DEF GroupAdd
  <2>. QED  BY <1>7, <1>2, <2>1 DEF GroupAdd
<1>8. CASE UserAdd(p)
  BY <1>8, HomesUser DEF UserAdd
<1>9. CASE RegisterFault(p)
  BY <1>9, <1>2, HomesPut, HomesUser DEF RegisterFault
<1>. QED  BY <1>3, <1>4, <1>5, <1>6, <1>7, <1>8, <1>9 DEF RegisterStep

LEMMA HomesNext ==
  ASSUME TypeOK, Apart, HomeInv, Next
  PROVE  HomeInv'
<1>1. ASSUME NEW p \in Runs, Active(p), NEW place \in Elsewhere, Go(p, place),
             place \in Registering => Cmd(p) = "register",
             UNCHANGED <<guest, registering, fixed>>
      PROVE  HomeInv'
  <2>1. place \in Places \ {"idle"} /\ place \notin Mounting
    BY DEF Elsewhere
  <2>2. pc'[p] = place /\ \A q \in Runs : q # p => pc'[q] = pc[q]
    BY <1>1, <2>1, OneGoes
  <2>. QED  BY <1>1, <2>1, <2>2, HomesKept DEF Mounting, Registering, guest, registering
<1>2. ASSUME NEW p \in Runs, StartupStep(p), UNCHANGED <<guest, registering, fixed>>
      PROVE  HomeInv'
  BY <1>1, <1>2, StartupGoes DEF Registering, Elsewhere
<1>3. ASSUME NEW p \in Runs, CommandStep(p), UNCHANGED <<guest, registering, fixed>>
      PROVE  HomeInv'
  BY <1>1, <1>3, CommandGoes DEF Registering, Elsewhere
<1>4. ASSUME NEW p \in Runs, Fault(p) \/ Kill(p), UNCHANGED <<guest, registering, fixed>>
      PROVE  HomeInv'
  BY <1>1, <1>4, FaultGoes DEF Registering, Elsewhere, Mounting, Places, Ended
<1>5. ASSUME StopContainer, UNCHANGED fixed
      PROVE  HomeInv'
  BY <1>5, HomesKept DEF StopContainer, registering
<1>6. ASSUME NEW p \in Runs, WriteFails(p) \/ RemovalFails(p),
             UNCHANGED <<guest, registering, fixed>>
      PROVE  HomeInv'
  BY <1>1, <1>6, WriteFailsGoes, RemovalFailsGoes DEF Registering, Elsewhere
<1>7. ASSUME Break, UNCHANGED fixed
      PROVE  HomeInv'
  BY <1>4, <1>5, <1>6, <1>7, HomesRegister DEF Break
<1>. QED  BY StepCases, <1>2, <1>3, <1>7, HomesInvoke, HomesRegister

(* An account that a register made has its home, at every moment of any     *)
(* number of registers of one user, or of users one after the other, and    *)
(* whatever fails, is killed or stops in between.                           *)
THEOREM HomesCorrect == Spec => []HomeWithAccount
<1>1. Init => HomeInv
  <2>. SUFFICES ASSUME Init PROVE HomeInv
    OBVIOUS
  <2>1. \A a \in accounts : a.by = "nobody"
    BY MainAssumption DEF Init, IsScenario
  <2>. QED  BY <2>1 DEF Init, HomeInv, OnlyRegisters, NothingLost, HomesThere,
                Registering, Mounting
<1>2. TypeOK /\ Apart /\ HomeInv /\ [Next]_vars => HomeInv'
  <2>1. ASSUME HomeInv, UNCHANGED vars PROVE HomeInv'
    BY <2>1, HomesKept DEF vars, guest, registering, fixed
  <2>. QED  BY <2>1, HomesNext
<1>3. HomeInv => HomeWithAccount
  BY DEF HomeInv, HomesThere, HomeWithAccount
<1>. QED  BY <1>1, <1>2, <1>3, MainTypeCorrect, ApartCorrect, PTL DEF Spec

--------------------------------------------------------------------------------
(* The inductive invariant of MembershipsKept: while nothing has failed, a  *)
(* group of the user that the container had before is still to be gone      *)
(* through, or is remembered, or bears the number of her primary group.     *)
Before == {g.name : g \in scene.guest.groups}
LeftNames(p) == {scene.groups[i].name : i \in left[p]}
Later == {"look"} \cup Mounting

KeptBy(p) ==
    line[p].sup =>
        HostMember(User(p)) \cap Before
            \subseteq suppl[p] \cup HostNames(PwGid(User(p))) \cup LeftNames(p)

KeptIn(a) ==
    /\ pc[a.by] = "ok"
    /\ line[a.by].sup =>
         HostMember(a.name) \cap Before \subseteq a.groups \cup HostNames(a.uid)

KeptInv ==
    faults = 0 =>
        /\ Before \subseteq GroupNames
        /\ \A p \in Runs : pc[p] \in Later => running
        /\ \A p \in Runs : pc[p] \in Mounting => KeptBy(p)
        /\ \A a \in accounts : a.by \in Runs => KeptIn(a)

LEMMA NamesStay ==
  ASSUME UNCHANGED scene
  PROVE  /\ Before' = Before
         /\ \A u : HostMember(u)' = HostMember(u) /\ PwGid(u)' = PwGid(u)
         /\ \A g : HostNames(g)' = HostNames(g)
  BY DEF Before, HostMember, HostNames, MemberOf, Positions, PwGid, Uid

(* A step that leaves groups, accounts and the container alone, and brings  *)
(* nobody to the groups.                                                    *)
LEMMA KeptStays ==
  ASSUME KeptInv, UNCHANGED <<groups, accounts, running, left, suppl, scene>>,
         faults' = faults,
         \A q \in Runs :
            /\ pc'[q] = pc[q] \/ pc'[q] \notin Later \/ (pc'[q] \in Mounting /\ pc[q] \in Mounting)
            /\ pc[q] # "idle" => line'[q] = line[q] /\ (pc[q] = "ok" => pc'[q] = "ok")
  PROVE  KeptInv'
<1>. SUFFICES ASSUME faults = 0 PROVE KeptInv'
  BY DEF KeptInv
<1>1. Before' = Before /\ GroupNames' = GroupNames
  BY NamesStay DEF GroupNames
<1>2. \A q \in Runs : pc[q] # "idle" => User(q)' = User(q)
  BY DEF User, UserFromEnv
<1>3. \A q \in Runs : pc'[q] \in Later => pc[q] \in Later
  BY DEF Later
<1>4. \A q \in Runs : pc'[q] \in Mounting => pc[q] \in Mounting
  BY DEF Later
<1>5. ASSUME NEW q \in Runs, pc'[q] \in Mounting PROVE KeptBy(q)'
  <2>1. KeptBy(q) /\ pc[q] # "idle"
    BY <1>4, <1>5 DEF KeptInv, Mounting
  <2>2. LeftNames(q)' = LeftNames(q)
    BY DEF LeftNames
  <2>. QED  BY <1>1, <1>2, <2>1, <2>2, NamesStay DEF KeptBy
<1>6. ASSUME NEW a \in accounts, a.by \in Runs PROVE KeptIn(a)'
  BY <1>1, <1>6, NamesStay DEF KeptInv, KeptIn
<1>. QED  BY <1>1, <1>3, <1>5, <1>6 DEF KeptInv

(* One round of the loop of groups: a group that was there before is there, *)
(* so its groupadd ends with 9.                                             *)
LEMMA KeptAdd ==
  ASSUME TypeOK, KeptInv, faults = 0, NEW p \in Runs, GroupAdd(p), UNCHANGED fixed
  PROVE  /\ KeptBy(p)' /\ \A q \in Runs : q # p => left'[q] = left[q] /\ suppl'[q] = suppl[q]
         /\ GroupNames \subseteq GroupNames'
<1>1. PICK i \in left[p] :
        /\ left' = [left EXCEPT ![p] = @ \ {i}]
        /\ suppl' = [suppl EXCEPT ![p] =
                       IF Remembered(ExitCode(scene.groups[i])) /\ ~MustWork(p, scene.groups[i])
                       THEN @ \cup {scene.groups[i].name} ELSE @]
        /\ groups' = WithGroup(scene.groups[i])
  BY DEF GroupAdd, First
<1> DEFINE g == scene.groups[i]
<1>2. KeptBy(p) /\ running /\ Before \subseteq GroupNames
  BY DEF KeptInv, GroupAdd, Later, Mounting
<1>3. g.name \in Before => ExitCode(g) = 9
  <2>1. g.name \in Before => \E h \in groups : h.name = g.name
    BY <1>2 DEF GroupNames
  <2>2. \A x : running /\ (\E h \in groups : h.name = x.name) => ExitCode(x) = 9
    BY DEF ExitCode
  <2>. QED  BY <1>2, <2>1, <2>2
<1>4. MustWork(p, g) => g.name \in HostNames(PwGid(User(p)))
  <2>1. i \in Positions
    BY DEF TypeOK
  <2>. QED  BY <2>1 DEF MustWork, HostNames
<1>5. g.name \in Before => g.name \in suppl'[p] \cup HostNames(PwGid(User(p)))
  BY <1>1, <1>3, <1>4 DEF Remembered, TypeOK
<1>6. suppl[p] \subseteq suppl'[p] /\ left'[p] = left[p] \ {i}
  BY <1>1 DEF TypeOK
<1>7. LeftNames(p) \subseteq LeftNames(p)' \cup {g.name}
  BY <1>6 DEF LeftNames, fixed
<1>8. KeptBy(p)'
  BY <1>2, <1>5, <1>6, <1>7, LinesStay, NamesStay DEF KeptBy, fixed
<1>9. \A q \in Runs : q # p => left'[q] = left[q] /\ suppl'[q] = suppl[q]
  BY <1>1 DEF TypeOK
<1>10. GroupNames \subseteq GroupNames'
  BY <1>1, GroupsGrow
<1>. QED  BY <1>8, <1>9, <1>10

LEMMA KeptRegister ==
  ASSUME TypeOK, KeptInv, faults = 0, NEW p \in Runs, RegisterStep(p), UNCHANGED fixed
  PROVE  KeptInv'
<1>1. /\ Active(p) /\ pc[p] \in Registering /\ pc[p] # "idle" /\ pc[p] # "ok"
      /\ \A q \in Runs : q # p => pc'[q] = pc[q]
      /\ scene' = scene /\ line' = line /\ Before' = Before
  BY RegisterGoes, OneGoes, NamesStay DEF Active, fixed, Ended
<1>u. \A q \in Runs : User(q)' = User(q) /\ KeptBy(q)' =
        (line[q].sup => HostMember(User(q)) \cap Before
            \subseteq suppl'[q] \cup HostNames(PwGid(User(q))) \cup LeftNames(q)')
  BY <1>1, LinesStay, NamesStay DEF KeptBy
<1>2. ASSUME NEW q \in Runs, left'[q] = left[q], suppl'[q] = suppl[q], KeptBy(q)
      PROVE  KeptBy(q)'
  BY <1>1, <1>2, <1>u DEF KeptBy, LeftNames
<1>3. GroupNames \subseteq GroupNames'
  <2>1. CASE GroupAdd(p)
    BY <2>1, KeptAdd
  <2>. QED  BY <2>1 DEF RegisterStep, Boot, QueryUser, GetDevices, PutDevices, UserAdd,
                        guest, GroupNames
<1>4. \A q \in Runs : pc'[q] \in Later => running'
  <2>1. CASE Boot(p)
    BY <2>1 DEF Boot
  <2>2. CASE ~Boot(p)
    <3>1. pc[p] # "boot" /\ running' = running
      BY <2>2 DEF RegisterStep, Boot, QueryUser, GetDevices, PutDevices, GroupAdd, UserAdd, guest
    <3>2. pc[p] \in Later
      BY <1>1, <3>1 DEF Registering, Later
    <3>. QED  BY <1>1, <3>1, <3>2 DEF KeptInv
  <2>. QED  BY <2>1, <2>2
<1>5. ASSUME NEW q \in Runs, pc'[q] \in Mounting PROVE KeptBy(q)'
  <2>1. CASE q # p
    <3>1. left'[q] = left[q] /\ suppl'[q] = suppl[q]
      BY <2>1 DEF RegisterStep, Boot, QueryUser, GetDevices, PutDevices, GroupAdd, UserAdd,
                  guest, registering, TypeOK
    <3>. QED  BY <1>1, <1>2, <1>5, <2>1, <3>1 DEF KeptInv
  <2>2. CASE q = p /\ QueryUser(p)
    <3>1. pc'[p] # "error"
      BY <1>5, <2>2 DEF Mounting
    <3>2. left'[p] = RequiredGroups(User(p), line[p].sup)
      BY <3>1, <2>2 DEF QueryUser, Go, TypeOK
    <3>3. line[p].sup => HostMember(User(p)) \subseteq LeftNames(p)'
      BY <1>1, <3>2 DEF RequiredGroups, HostMember, LeftNames
    <3>. QED  BY <1>u, <2>2, <3>3
  <2>3. CASE q = p /\ GroupAdd(p)
    BY <2>3, KeptAdd
  <2>4. CASE q = p /\ (GetDevices(p) \/ PutDevices(p) \/ UserAdd(p))
    <3>1. pc[p] \in Mounting /\ UNCHANGED <<left, suppl>>
      BY <2>4 DEF GetDevices, PutDevices, UserAdd, guest, registering, Mounting
    <3>. QED  BY <1>2, <2>4, <3>1 DEF KeptInv
  <2>5. CASE q = p /\ Boot(p)
    BY <1>5, <2>5 DEF Boot, Go, TypeOK, Mounting
  <2>. QED  BY <2>1, <2>2, <2>3, <2>4, <2>5 DEF RegisterStep
<1>6. ASSUME NEW a \in accounts', a.by \in Runs PROVE KeptIn(a)'
  <2>1. CASE a \in accounts
    <3>1. KeptIn(a) /\ a.by # p
      BY <1>1, <1>6, <2>1 DEF KeptInv, KeptIn
    <3>. QED  BY <1>1, <1>6, <3>1, NamesStay DEF KeptIn
  <2>2. CASE a \notin accounts
    <3>1. pc[p] = "groups" /\ left[p] = {} /\ a = Account(p) /\ Go(p, "ok")
      BY <2>2 DEF RegisterStep, Boot, QueryUser, GetDevices, PutDevices, GroupAdd, UserAdd, guest
    <3>2. KeptBy(p) /\ LeftNames(p) = {}
      BY <3>1 DEF KeptInv, Mounting, LeftNames
    <3>3. /\ a.by = p /\ a.name = User(p) /\ suppl[p] \subseteq a.groups
          /\ a.uid = PwGid(User(p))
      BY <3>1 DEF Account, PwGid
    <3>4. pc'[p] = "ok"
      BY <3>1 DEF Go, TypeOK
    <3>. QED  BY <1>1, <3>2, <3>3, <3>4, NamesStay DEF KeptIn, KeptBy
  <2>. QED  BY <2>1, <2>2
<1>. QED  BY <1>1, <1>3, <1>4, <1>5, <1>6 DEF KeptInv

LEMMA KeptNext ==
  ASSUME TypeOK, KeptInv, Next
  PROVE  KeptInv'
<1>1. ASSUME NEW p \in Runs, Invoke(p) PROVE KeptInv'
  <2>1. /\ pc[p] = "idle" /\ pc' = [pc EXCEPT ![p] = "load"]
        /\ UNCHANGED <<scene, groups, accounts, running, left, suppl, faults>>
    BY <1>1 DEF Invoke, Go, guest, registering
  <2>2. \A q \in Runs : q # p => line'[q] = line[q] /\ pc'[q] = pc[q]
    BY <1>1, <2>1 DEF Invoke, TypeOK
  <2>3. pc'[p] = "load"
    BY <2>1 DEF TypeOK
  <2>. QED  BY <2>1, <2>2, <2>3, KeptStays DEF Later, Mounting
<1>2. ASSUME NEW p \in Runs, Active(p), NEW place \in Elsewhere \ {"look"}, Go(p, place),
             UNCHANGED <<guest, registering, faults, fixed>>
      PROVE  KeptInv'
  <2>1. pc'[p] = place /\ pc[p] # "ok" /\ \A q \in Runs : q # p => pc'[q] = pc[q]
    BY <1>2, OneGoes DEF Elsewhere, Active, Ended
  <2>. QED  BY <1>2, <2>1, KeptStays DEF guest, registering, fixed, Elsewhere, Later
<1>3. ASSUME NEW p \in Runs, StartupStep(p), UNCHANGED <<guest, registering, faults, fixed>>
      PROVE  KeptInv'
  BY <1>2, <1>3, StartupGoes
<1>4. ASSUME NEW p \in Runs, CommandStep(p), UNCHANGED <<guest, registering, faults, fixed>>
      PROVE  KeptInv'
  BY <1>2, <1>4, CommandGoes
<1>5. ASSUME NEW p \in Runs, RegisterStep(p), UNCHANGED <<faults, fixed>>
      PROVE  KeptInv'
  BY <1>5, KeptRegister DEF KeptInv
<1>6. ASSUME faults' = faults + 1 PROVE KeptInv'
  BY <1>6 DEF KeptInv, TypeOK
<1>. QED  BY StepCases, <1>1, <1>3, <1>4, <1>5, <1>6

LEMMA KeptInit == Init => KeptInv
<1>. SUFFICES ASSUME Init PROVE KeptInv
  OBVIOUS
<1>1. \A a \in accounts : a.by = "nobody"
  BY MainAssumption DEF Init, IsScenario
<1>2. Before = GroupNames /\ \A p \in Runs : pc[p] = "idle"
  BY DEF Init, Before, GroupNames
<1>. QED  BY <1>1, <1>2, AccountsAssumption DEF KeptInv, Later, Mounting

LEMMA KeptCorrect == Spec => []KeptInv
<1>1. TypeOK /\ KeptInv /\ [Next]_vars => KeptInv'
  <2>1. ASSUME KeptInv, UNCHANGED vars PROVE KeptInv'
    BY <2>1, KeptStays DEF vars, guest, registering
  <2>. QED  BY <2>1, KeptNext
<1>. QED  BY <1>1, KeptInit, MainTypeCorrect, PTL DEF Spec

(* A register with -g that met no fault has put its user into every group   *)
(* of hers that the container had before (or that bears the number of her   *)
(* primary group): in whatever order the groups are gone through, and       *)
(* whatever other registers add in between, the groupadd of such a group    *)
(* ends with 9, and so it is remembered.                                    *)
THEOREM MembershipsCorrect == Spec => []MembershipsKept
<1>1. KeptInv => MembershipsKept
  BY DEF KeptInv, KeptIn, MembershipsKept, Before
<1>. QED  BY <1>1, KeptCorrect, PTL

--------------------------------------------------------------------------------
(* On the host only root has the number 0, and a number is of one group.    *)
PlainHosts ==
    \A s \in Scenarios :
        /\ \A u \in DOMAIN s.users : s.users[u].uid = 0 => u = "root"
        /\ \A i, j \in DOMAIN s.groups :
             s.groups[i].gid = s.groups[j].gid => s.groups[i].name = s.groups[j].name

(* A register that fails, step by step.                                     *)
LEMMA FailsFor ==
  ASSUME PlainHosts, TypeOK, KeptInv, faults = 0, NEW p \in Runs, RegisterStep(p),
         pc[p] # "boot", pc'[p] = "error"
  PROVE  Unregistrable(p)
<1> DEFINE u == User(p)
<1>1. /\ pc \in [Runs -> Places] /\ scene \in Scenarios
      /\ pc[p] = "groups" => running /\ u \in Known
  BY DEF TypeOK, KeptInv, Later, Mounting
<1>2. CASE QueryUser(p)
  BY <1>1, <1>2 DEF QueryUser, Go, PlainHosts, Uid, Unregistrable
<1>3. CASE GetDevices(p)
  BY <1>1, <1>3 DEF GetDevices, Go, Unregistrable
<1>4. CASE PutDevices(p)
  BY <1>1, <1>4 DEF PutDevices, Go
<1>5. CASE GroupAdd(p)
  <2>1. PICK i \in left[p] :
          Go(p, IF ExitCode(scene.groups[i]) \in {1, 4} /\ MustWork(p, scene.groups[i])
                THEN "error" ELSE "groups")
    BY <1>5 DEF GroupAdd, First
  <2> DEFINE g == scene.groups[i]
  <2>2. ExitCode(g) \in {1, 4} /\ MustWork(p, g) /\ pc[p] = "groups" /\ i \in Positions
    BY <1>1, <1>5, <2>1 DEF Go, GroupAdd, TypeOK
  <2>3. \A h \in groups : h.name # g.name
    BY <1>1, <2>2 DEF ExitCode
  <2>4. \A j \in Positions : scene.groups[j].gid = PwGid(u) => scene.groups[j].name = g.name
    BY <1>1, <2>2 DEF MustWork, PlainHosts, Positions
  <2>5. HostNames(PwGid(u)) \subseteq {g.name}
    BY <2>4 DEF HostNames
  <2>6. {h.name : h \in {k \in groups : k.gid = PwGid(u)}} \cap HostNames(PwGid(u)) = {}
    BY <2>3, <2>5
  <2>. QED  BY <2>2, <2>6 DEF Unregistrable
<1>6. CASE UserAdd(p)
  <2>1. ~CanAdd(p) /\ pc[p] = "groups"
    BY <1>1, <1>6 DEF UserAdd, Go
  <2>2. CASE \E a \in accounts : a.name = u \/ a.uid = Uid(u)
    BY <2>1, <2>2 DEF Unregistrable
  <2>3. CASE ~\E h \in groups : h.gid = PwGid(u)
    <3>1. {h.name : h \in {k \in groups : k.gid = PwGid(u)}} = {}
      BY <2>3
    <3>. QED  BY <2>1, <3>1 DEF Unregistrable
  <2>4. CASE \E n \in Account(p).groups : ~\E h \in groups : h.name = n
    <3>1. \A n \in suppl[p] : \E h \in groups : h.name = n
      BY DEF TypeOK
    <3>2. \A h \in groups : h.name # "video"
      BY <2>4, <3>1 DEF Account
    <3>. QED  BY <2>1, <3>2 DEF Unregistrable
  <2>. QED  BY <1>1, <2>1, <2>2, <2>3, <2>4 DEF CanAdd
<1>7. CASE Boot(p)
  BY <1>7 DEF Boot
<1>. QED  BY <1>2, <1>3, <1>4, <1>5, <1>6, <1>7 DEF RegisterStep

(* With no fault a register only fails because its user is unknown, root or *)
(* there already, because the number of her primary group is not to be had, *)
(* or for want of the group video; no supplementary group can make it fail, *)
(* and no other register that runs at the same time can, but by adding the  *)
(* user, her number or her home first.                                      *)
THEOREM FailuresCorrect ==
  ASSUME PlainHosts
  PROVE  Spec => RegisterFailsFor
<1>1. TypeOK /\ KeptInv /\ [Next]_vars =>
        \A p \in Runs :
          /\ Cmd(p) = "register" /\ faults' = 0
          /\ pc[p] \in {"look", "get", "put", "groups"} /\ pc'[p] = "error"
          => Unregistrable(p)
  <2>. SUFFICES ASSUME TypeOK, KeptInv, [Next]_vars, NEW p \in Runs, faults' = 0,
                       pc[p] \in Later, pc'[p] = "error"
                PROVE  Unregistrable(p)
    BY DEF Later, Mounting
  <2>1. /\ faults \in 0..MaxFaults /\ faults' # faults + 1
        /\ pc'[p] # pc[p] /\ pc[p] # "boot" /\ pc[p] \notin Starting /\ pc[p] # "idle"
    BY DEF TypeOK, Later, Mounting, Starting, Pairing, Writing
  <2>2. ASSUME NEW q \in Runs, q # p, Active(q), NEW place \in Places \ {"idle"}, Go(q, place)
        PROVE  FALSE
    BY <2>1, <2>2, OneGoes
  <2>3. ASSUME NEW q \in Runs, Invoke(q) PROVE FALSE
    <3>1. pc[q] = "idle" /\ pc' = [pc EXCEPT ![q] = "load"]
      BY <2>3 DEF Invoke, Go
    <3>. QED  BY <2>1, <3>1 DEF TypeOK
  <2>4. ASSUME NEW q \in Runs, StartupStep(q) PROVE FALSE
    <3>1. q = p
      BY <2>2, <2>4, StartupGoes DEF Elsewhere
    <3>2. pc[q] \in Starting
      BY <2>4 DEF StartupStep, LoadConfig, FindOrGenCert, GenCert, CheckRemote, LxcLoad,
                  LxcRemoteRemove, LxcRemoteAdd, Starting, Pairing, Writing
    <3>. QED  BY <2>1, <3>1, <3>2
  <2>5. ASSUME NEW q \in Runs, CommandStep(q) PROVE FALSE
    <3>1. q = p
      BY <2>2, <2>5, CommandGoes DEF Elsewhere
    <3>2. pc[q] \notin Later
      BY <2>5, ArtifactPlaces
         DEF CommandStep, Lookup, NewClient, Query, InitRequest, Event, Made, StatCache,
             RemoveArtifact, Execute, Later, Mounting
    <3>. QED  BY <3>1, <3>2
  <2>6. ASSUME NEW q \in Runs, RegisterStep(q), faults' = faults PROVE Unregistrable(p)
    <3>1. q = p
      BY <2>2, <2>6, RegisterGoes
    <3>. QED  BY <2>1, <2>6, <3>1, FailsFor
  <2>7. pc' # pc
    BY <2>1
  <2>. QED  BY <2>1, <2>3, <2>4, <2>5, <2>6, <2>7, StepCases DEF vars
<1>. QED  BY <1>1, KeptCorrect, MainTypeCorrect, PTL DEF RegisterFailsFor, Spec
================================================================================
