------------------------------- MODULE MainProofs ------------------------------
(****************************************************************************)
(* What TLAPS proves about Main, for any number of invocations and faults,  *)
(* every scenario, every menu of command lines and all images of servers.   *)
(****************************************************************************)
EXTENDS AccountProperties, TLAPS

(* What the steps of the beginning and of the commands leave alone.         *)
fixed == <<want, scene, line>>

--------------------------------------------------------------------------------
(* Where the steps may go.                                                  *)
LEMMA ArtifactPlaces ==
  /\ DOMAIN Artifacts = 1..4 /\ Len(Artifacts) = 4
  /\ ToSet(Artifacts) = {"CMakeFiles", "CMakeCache", "cmake_install", "Makefile"}
  /\ \A i \in 1..4 : /\ Artifacts[i] \in ToSet(Artifacts)
                     /\ AfterArtifact(i) \in ToSet(Artifacts) \cup {"shell"}
<1>1. \A i \in 1..4 : i \in {1, 2, 3, 4}
  OBVIOUS
<1>. QED  BY <1>1 DEF Artifacts, AfterArtifact, ToSet

LEMMA RequestEnds ==
  ASSUME NEW images, NEW fp
  PROVE  Request(images, fp).end \in {"ok", "panic", "error"}
<1>1. ASSUME NEW a PROVE ParseAlias(a).end \in {"ok", "panic", "error"}
  BY Zenon DEF ParseAlias, Failed
<1>2. Failed("error").end = "error"
  BY DEF Failed
<1>. QED  BY <1>1, <1>2 DEF Request

LEMMA RemotePlaces ==
  ASSUME NEW p PROVE NextForRemote(p) \in {"lookup", "addload", "rmload"}
  BY DEF NextForRemote

LEMMA FlagsPlaces ==
  ASSUME NEW l PROVE Flags(l) \in {"panic", "die", "load"}
  BY Zenon DEF Flags

LEMMA FaultPlaces ==
  ASSUME NEW p PROVE FailsWith(p) \subseteq {"die", "error", "ok"}
  BY DEF FailsWith

(* What the type invariant says of places and command lines.                *)
PlacesType ==
    /\ pc \in [Runs -> Places] /\ DOMAIN line = Runs
    /\ want \in [Runs -> Addrs \cup {"none"}]
    /\ \A q \in Runs :
         /\ pc[q] = "idle" <=> line[q] = NoLine
         /\ pc[q] # "idle" => line[q].cmd \in Commands /\ want[q] = line[q].want
         /\ pc[q] \in {"get", "put", "groups"} => User(q) \in Known

Mounting == {"get", "put", "groups"}
Elsewhere == Places \ ({"idle"} \cup Mounting)

(* An invocation that goes somewhere keeps it.                              *)
LEMMA GoType ==
  ASSUME PlacesType, NEW p \in Runs, pc[p] # "idle", NEW place \in Places \ {"idle"},
         place \in Mounting => User(p) \in Known,
         Go(p, place), UNCHANGED fixed
  PROVE  PlacesType'
<1>1. pc' = [pc EXCEPT ![p] = place]
  BY DEF Go
<1>2. \A q \in Runs : User(q)' = User(q) /\ Known' = Known
  BY DEF fixed, User, UserFromEnv, Known
<1>3. pc' \in [Runs -> Places]
  BY <1>1 DEF PlacesType
<1>4. \A q \in Runs : q # p => pc'[q] = pc[q]
  BY <1>1 DEF PlacesType
<1>5. pc'[p] = place
  BY <1>1 DEF PlacesType
<1>. QED  BY <1>2, <1>3, <1>4, <1>5 DEF PlacesType, fixed, Mounting

--------------------------------------------------------------------------------
(* The steps of the beginning.                                              *)
LEMMA StartupGoes ==
  ASSUME NEW p \in Runs, StartupStep(p)
  PROVE  Active(p) /\ \E place \in Elsewhere \ {"boot", "look"} : Go(p, place)
<1>. USE DEF Active, Elsewhere, Mounting, Places, Starting, Pairing, Writing, Ended
<1>1. CASE LoadConfig(p)
  BY <1>1 DEF LoadConfig
<1>2. CASE FindOrGenCert(p)
  BY <1>2 DEF FindOrGenCert, Caller
<1>3. CASE GenCert(p)
  BY <1>3 DEF GenCert, Caller
<1>4. CASE CheckRemote(p)
  BY <1>4, RemotePlaces DEF CheckRemote
<1>5. CASE LxcLoad(p)
  BY <1>5 DEF LxcLoad
<1>6. CASE LxcRemoteRemove(p)
  BY <1>6 DEF LxcRemoteRemove
<1>7. CASE LxcRemoteAdd(p)
  BY <1>7 DEF LxcRemoteAdd
<1>. QED  BY <1>1, <1>2, <1>3, <1>4, <1>5, <1>6, <1>7 DEF StartupStep

LEMMA StartupType ==
  ASSUME TypeOK, NEW p \in Runs, StartupStep(p),
         UNCHANGED <<output, build, guest, registering>>, UNCHANGED <<faults, fixed>>
  PROVE  TypeOK'
<1>. USE DEF output, guest, registering, fixed
<1>1. PlacesType'
  <2>1. PlacesType
    BY DEF TypeOK, PlacesType
  <2>. QED  BY <2>1, StartupGoes, GoType DEF fixed, Elsewhere, Active
<1>2. want[p] \in Addrs \cup {"none"}
  BY DEF TypeOK
<1>3. /\ remote' \in Addrs \cup {"none"}
      /\ {crt', key'} \subseteq Runs \cup Torn \cup {"none", "old"}
      /\ ensured' \in [Runs -> BOOLEAN]
      /\ conf' \in [Runs -> Addrs \cup {"none"}]
      /\ lxc' \in [Runs -> Addrs \cup {"none", "unread"}]
  <2>1. CASE LoadConfig(p)
    BY <2>1 DEF LoadConfig, TypeOK, files
  <2>2. CASE FindOrGenCert(p)
    BY <2>2 DEF FindOrGenCert, TypeOK, files
  <2>3. CASE GenCert(p)
    BY <2>3 DEF GenCert, TypeOK, Torn
  <2>4. CASE CheckRemote(p)
    BY <2>4 DEF CheckRemote, TypeOK, files
  <2>5. CASE LxcLoad(p)
    BY <2>5 DEF LxcLoad, TypeOK, files
  <2>6. CASE LxcRemoteRemove(p)
    BY <2>6 DEF LxcRemoteRemove, TypeOK
  <2>7. CASE LxcRemoteAdd(p)
    BY <2>7, <1>2 DEF LxcRemoteAdd, TypeOK
  <2>. QED  BY <2>1, <2>2, <2>3, <2>4, <2>5, <2>6, <2>7 DEF StartupStep
<1>. QED  BY <1>1, <1>3 DEF TypeOK, PlacesType, Known, Positions

(* The commands other than register.                                        *)
CommandStep(p) ==
    \/ Lookup(p) \/ NewClient(p) \/ Query(p) \/ InitRequest(p) \/ Event(p)
    \/ Made(p) \/ StatCache(p) \/ RemoveArtifact(p) \/ Execute(p)

LEMMA CommandGoes ==
  ASSUME NEW p \in Runs, CommandStep(p)
  PROVE  Active(p) /\ \E place \in Elsewhere \ {"look"} :
                        Go(p, place) /\ (place = "boot" => Cmd(p) = "register")
<1>. USE DEF Active, Elsewhere, Mounting, Places, Starting, Pairing, Writing, Ended
<1>1. CASE Lookup(p)
  <2>1. \E place \in {"die", "shell", "load", "panic"} : Go(p, place)
    BY <1>1, FlagsPlaces, Zenon DEF Lookup
  <2>. QED  BY <1>1, <2>1 DEF Lookup
<1>2. CASE NewClient(p)
  BY <1>2 DEF NewClient
<1>3. CASE Query(p)
  BY <1>3, RequestEnds DEF Query
<1>4. CASE InitRequest(p)
  BY <1>4 DEF InitRequest
<1>5. CASE Event(p)
  BY <1>5 DEF Event
<1>6. CASE Made(p)
  BY <1>6 DEF Made
<1>7. CASE StatCache(p)
  BY <1>7, ArtifactPlaces DEF StatCache
<1>8. CASE RemoveArtifact(p)
  BY <1>8, ArtifactPlaces DEF RemoveArtifact
<1>9. CASE Execute(p)
  BY <1>9 DEF Execute
<1>. QED  BY <1>1, <1>2, <1>3, <1>4, <1>5, <1>6, <1>7, <1>8, <1>9 DEF CommandStep

LEMMA CommandType ==
  ASSUME TypeOK, NEW p \in Runs, CommandStep(p),
         UNCHANGED <<files, ensured, conf, lxc, guest, registering>>,
         UNCHANGED <<faults, fixed>>
  PROVE  TypeOK'
<1>. USE DEF guest, registering, fixed, files
<1>1. PlacesType'
  <2>1. PlacesType
    BY DEF TypeOK, PlacesType
  <2>. QED  BY <2>1, CommandGoes, GoType DEF fixed, Elsewhere, Active
<1>2. build' \in [ToSet(Artifacts) -> {"made", "kept", "gone"}]
  <2>1. CASE RemoveArtifact(p)
    BY <2>1 DEF RemoveArtifact, TypeOK
  <2>2. CASE Execute(p)
    BY <2>2 DEF Execute, AllMade, TypeOK
  <2>. QED  BY <2>1, <2>2 DEF CommandStep, Lookup, NewClient, Query, InitRequest, Event,
                Made, StatCache, TypeOK
<1>. QED  BY <1>1, <1>2 DEF TypeOK, PlacesType, Known, Positions

--------------------------------------------------------------------------------
(* register.                                                                *)
GroupNames == {g.name : g \in groups}

LEMMA ExitCodes ==
  ASSUME NEW g
  PROVE  /\ ExitCode(g) \in {0, 1, 4, 9}
         /\ Remembered(ExitCode(g)) => g.name \in GroupNames
         /\ WithGroup(g) \in {groups, groups \cup {Added(g)}}
<1>1. /\ ExitCode(g) \in {0, 1, 4, 9}
      /\ ExitCode(g) = 9 => \E h \in groups : h.name = g.name
  BY DEF ExitCode
<1>. QED  BY <1>1 DEF Remembered, GroupNames, WithGroup

(* Groups are only added.                                                   *)
LEMMA GroupsGrow ==
  ASSUME TypeOK, NEW g, groups' \in {groups, WithGroup(g)}
  PROVE  GroupNames \subseteq GroupNames'
  BY ExitCodes DEF GroupNames

LEMMA RequiredPositions ==
  ASSUME NEW u, NEW sup PROVE RequiredGroups(u, sup) \subseteq Positions
  BY DEF RequiredGroups, Primary, MemberOf, First

Registering == {"boot", "look"} \cup Mounting

LEMMA RegisterGoes ==
  ASSUME NEW p \in Runs, RegisterStep(p) \/ RegisterFault(p)
  PROVE  /\ Active(p) /\ pc[p] \in Registering
         /\ \E place \in Places \ {"idle"} :
              /\ Go(p, place)
              /\ place \in Mounting => pc[p] \in Mounting \/ User(p) \in Known
<1>. USE DEF Active, Places, Starting, Pairing, Writing, Ended, Registering, Mounting, Known
<1>1. CASE Boot(p)
  BY <1>1 DEF Boot
<1>2. CASE QueryUser(p)
  BY <1>2 DEF QueryUser
<1>3. CASE GetDevices(p)
  BY <1>3 DEF GetDevices
<1>4. CASE PutDevices(p)
  BY <1>4 DEF PutDevices
<1>5. CASE GroupAdd(p)
  BY <1>5 DEF GroupAdd
<1>6. CASE UserAdd(p)
  BY <1>6 DEF UserAdd
<1>7. CASE RegisterFault(p)
  BY <1>7 DEF RegisterFault
<1>. QED  BY <1>1, <1>2, <1>3, <1>4, <1>5, <1>6, <1>7 DEF RegisterStep

LEMMA RegisterType ==
  ASSUME TypeOK, NEW p \in Runs, RegisterStep(p) \/ RegisterFault(p),
         UNCHANGED <<files, ensured, conf, lxc, build, fixed>>, faults' \in 0..MaxFaults
  PROVE  TypeOK'
<1>. USE DEF guest, registering
<1>1. PlacesType'
  <2>1. PlacesType
    BY DEF TypeOK, PlacesType
  <2>. QED  BY <2>1, RegisterGoes, GoType DEF fixed, Active, PlacesType, Mounting
<1>2. /\ Known' = Known /\ Positions' = Positions /\ scene' = scene
      /\ pc[p] \in Mounting => User(p) \in Known
  BY DEF Known, Positions, fixed, TypeOK, Mounting
<1>3. homes' \subseteq Known /\ running' \in BOOLEAN /\ seen' \in [Runs -> SUBSET Known]
  <2>. USE <1>2 DEF TypeOK, Mounting, Mounted
  <2>1. CASE Boot(p)
    BY <2>1 DEF Boot
  <2>2. CASE QueryUser(p)
    BY <2>2 DEF QueryUser
  <2>3. CASE GetDevices(p)
    BY <2>3 DEF GetDevices
  <2>4. CASE PutDevices(p)
    BY <2>4 DEF PutDevices
  <2>5. CASE GroupAdd(p)
    BY <2>5 DEF GroupAdd
  <2>6. CASE UserAdd(p)
    BY <2>6 DEF UserAdd
  <2>7. CASE RegisterFault(p)
    BY <2>7 DEF RegisterFault
  <2>. QED  BY <2>1, <2>2, <2>3, <2>4, <2>5, <2>6, <2>7 DEF RegisterStep
<1>4. left' \in [Runs -> SUBSET Positions]
  <2>1. CASE QueryUser(p)
    BY <2>1, RequiredPositions DEF QueryUser, TypeOK
  <2>2. CASE GroupAdd(p)
    BY <2>2 DEF GroupAdd, TypeOK
  <2>3. CASE RegisterFault(p)
    BY <2>3 DEF RegisterFault, TypeOK
  <2>. QED  BY <2>1, <2>2, <2>3 DEF RegisterStep, Boot, GetDevices, PutDevices, UserAdd, TypeOK
<1>5. GroupNames \subseteq GroupNames'
  <2>1. groups' = groups \/ \E g : groups' \in {groups, WithGroup(g)}
    BY DEF RegisterStep, Boot, QueryUser, GetDevices, PutDevices, GroupAdd, UserAdd,
           RegisterFault
  <2>. QED  BY <2>1, GroupsGrow DEF GroupNames
<1>6. suppl' \in [Runs -> SUBSET GroupNames']
  <2>1. CASE GroupAdd(p)
    <3>1. PICK i \in left[p] :
            suppl' = [suppl EXCEPT ![p] =
                        IF Remembered(ExitCode(scene.groups[i])) /\ ~MustWork(p, scene.groups[i])
                        THEN @ \cup {scene.groups[i].name} ELSE @]
      BY <2>1 DEF GroupAdd, First
    <3>2. Remembered(ExitCode(scene.groups[i])) => scene.groups[i].name \in GroupNames
      BY ExitCodes
    <3>. QED  BY <3>1, <3>2, <1>5, ZenonT(40) DEF TypeOK, GroupNames
  <2>2. CASE UNCHANGED suppl
    BY <2>2, <1>5 DEF TypeOK, GroupNames
  <2>. QED  BY <2>1, <2>2 DEF RegisterStep, Boot, QueryUser, GetDevices, PutDevices,
                UserAdd, RegisterFault
<1>. QED  BY <1>1, <1>2, <1>3, <1>4, <1>6 DEF TypeOK, PlacesType, GroupNames, fixed, files

--------------------------------------------------------------------------------
(* What may happen to an invocation at any time, and its start.             *)
LEMMA FaultGoes ==
  ASSUME NEW p \in Runs, Fault(p) \/ Kill(p)
  PROVE  Active(p) /\ \E place \in Ended : Go(p, place)
<1>1. \E place \in Ended : Go(p, place)
  BY FaultPlaces DEF Fault, Kill, Ended
<1>2. pc[p] \in Ended \cup {"idle"} => FailsWith(p) = {}
  <2>1. pc[p] \in Ended \cup {"idle"} =>
          /\ pc[p] \notin Starting \ ({"cert", "check"} \cup Writing)
          /\ pc[p] # "client" /\ pc[p] # "query" /\ pc[p] # "init" /\ pc[p] # "wait"
          /\ pc[p] # "shell"
    BY DEF Starting, Pairing, Ended
  <2>. QED  BY <2>1, Zenon DEF FailsWith
<1>. QED  BY <1>1, <1>2 DEF Fault, Kill, Active

(* A call fails, and the invocation goes on as if it had not.               *)
LEMMA WriteFailsGoes ==
  ASSUME NEW p \in Runs, WriteFails(p)
  PROVE  Active(p) /\ \E place \in Elsewhere \ {"boot", "look"} : Go(p, place)
  BY DEF WriteFails, Caller, Active, Elsewhere, Mounting, Places, Starting, Pairing, Writing, Ended

LEMMA RemovalFailsGoes ==
  ASSUME NEW p \in Runs, RemovalFails(p)
  PROVE  /\ Active(p) /\ pc[p] \in ToSet(Artifacts) \cup {"stat"}
         /\ \E place \in ToSet(Artifacts) \cup {"shell"} :
              Go(p, place) /\ place \in Elsewhere \ {"boot", "look"}
  BY ArtifactPlaces DEF RemovalFails, Active, Elsewhere, Mounting, Places, Ended

LEMMA BreakType ==
  ASSUME TypeOK, Break, faults' \in 0..MaxFaults,
         UNCHANGED <<ensured, conf, lxc, output, fixed>>
  PROVE  TypeOK'
<1>1. CASE StopContainer /\ UNCHANGED <<files, build>>
  <2>1. UNCHANGED <<groups, homes, seen, left, suppl, pc>> /\ running' \in BOOLEAN
    BY <1>1 DEF StopContainer, registering
  <2>2. \A q \in Runs : User(q)' = User(q)
    BY DEF User, UserFromEnv, fixed
  <2>. QED  BY <1>1, <2>1, <2>2 DEF TypeOK, Known, Positions, fixed, files
<1>2. ASSUME NEW p \in Runs, RegisterFault(p), UNCHANGED <<files, build>> PROVE TypeOK'
  BY <1>2, RegisterType DEF fixed
<1>3. PlacesType
  BY DEF TypeOK, PlacesType
<1>4. ASSUME NEW p \in Runs, Fault(p) \/ Kill(p), UNCHANGED <<files, build, guest, registering>>
      PROVE  TypeOK'
  <2>1. PlacesType'
    BY <1>4, <1>3, FaultGoes, GoType DEF Mounting, Places, Ended, Active
  <2>. QED  BY <2>1, <1>4 DEF TypeOK, PlacesType, guest, registering, Known, Positions, fixed, files
<1>5. ASSUME NEW p \in Runs, WriteFails(p), UNCHANGED <<build, guest, registering>>
      PROVE  TypeOK'
  <2>1. PlacesType'
    BY <1>5, <1>3, WriteFailsGoes, GoType DEF Elsewhere, Active
  <2>2. {crt', key'} \subseteq Runs \cup Torn \cup {"none", "old"} /\ remote' = remote
    BY <1>5 DEF WriteFails, TypeOK, Torn
  <2>. QED  BY <2>1, <2>2, <1>5 DEF TypeOK, PlacesType, guest, registering, Known, Positions, fixed
<1>6. ASSUME NEW p \in Runs, RemovalFails(p), UNCHANGED <<files, guest, registering>>
      PROVE  TypeOK'
  <2>1. PlacesType'
    BY <1>6, <1>3, RemovalFailsGoes, GoType DEF Elsewhere, Active
  <2>2. build' \in [ToSet(Artifacts) -> {"made", "kept", "gone"}]
    BY <1>6 DEF RemovalFails, Kept, TypeOK
  <2>. QED  BY <2>1, <2>2, <1>6 DEF TypeOK, PlacesType, guest, registering, Known, Positions, fixed,
                files
<1>. QED  BY <1>1, <1>2, <1>4, <1>5, <1>6 DEF Break

LEMMA LineType ==
  ASSUME scene \in Scenarios, NEW l \in Menu(scene.menu)
  PROVE  l.cmd \in Commands /\ l.want \in Addrs /\ l # NoLine
<1>1. l.cmd \in Commands /\ l.want \in Addrs
  BY MainAssumption DEF IsScenario
<1>2. NoLine.cmd \notin Commands
  BY DEF NoLine, Commands
<1>. QED  BY <1>1, <1>2

LEMMA InvokeType ==
  ASSUME TypeOK, NEW p \in Runs, Invoke(p)
  PROVE  TypeOK'
<1>1. PICK l \in Menu(scene.menu) :
        /\ line' = [line EXCEPT ![p] = l]
        /\ want' = [want EXCEPT ![p] = l.want]
        /\ ensured' = [ensured EXCEPT ![p] = l.cmd = "wrapper"]
  BY DEF Invoke
<1>2. /\ pc' = [pc EXCEPT ![p] = "load"]
      /\ UNCHANGED <<files, conf, lxc, faults, scene, build, guest, registering>>
  BY DEF Invoke, Go
<1>3. l.cmd \in Commands /\ l.want \in Addrs /\ l # NoLine
  BY LineType DEF TypeOK
<1>4. \A q \in Runs : q # p => User(q)' = User(q) /\ line'[q] = line[q] /\ want'[q] = want[q]
                                /\ pc'[q] = pc[q]
  BY <1>1, <1>2 DEF User, UserFromEnv, TypeOK
<1>5. line'[p] = l /\ want'[p] = l.want /\ pc'[p] = "load" /\ DOMAIN line' = Runs
  BY <1>1, <1>2 DEF TypeOK
<1>6. /\ pc' \in [Runs -> Places] /\ ensured' \in [Runs -> BOOLEAN]
      /\ want' \in [Runs -> Addrs \cup {"none"}]
  BY <1>1, <1>2, <1>3 DEF TypeOK, Places, Starting, Pairing
<1>. QED  BY <1>2, <1>3, <1>4, <1>5, <1>6 DEF TypeOK, files, guest, registering, Known, Positions

LEMMA InitType == Init => TypeOK
<1>. SUFFICES ASSUME Init PROVE TypeOK
  OBVIOUS
<1>1. IsScenario(scene)
  BY MainAssumption DEF Init
<1>2. scene.remote \in Addrs \cup {"none"} /\ {scene.crt, scene.key} \subseteq {"old", "none"}
  BY <1>1 DEF IsScenario
<1>3. 0 \in 0..MaxFaults
  BY StartupAssumption
<1>. QED  BY <1>2, <1>3 DEF Init, AllMade, TypeOK, Places, Known, Positions

(* What Next does, by the kind of its steps.                                *)
LEMMA StepCases ==
  ASSUME Next
  PROVE  \/ \E p \in Runs : Invoke(p)
         \/ \E p \in Runs : /\ StartupStep(p)
                            /\ UNCHANGED <<output, build, guest, registering>>
                            /\ UNCHANGED <<faults, fixed>>
         \/ \E p \in Runs : /\ CommandStep(p)
                            /\ UNCHANGED <<files, ensured, conf, lxc, guest, registering>>
                            /\ UNCHANGED <<faults, fixed>>
         \/ \E p \in Runs : /\ RegisterStep(p)
                            /\ UNCHANGED <<files, ensured, conf, lxc, output, build, fixed>>
                            /\ UNCHANGED faults
         \/ /\ Break /\ faults < MaxFaults /\ faults' = faults + 1
            /\ UNCHANGED <<ensured, conf, lxc, output, fixed>>
  BY DEF Next, Step, CommandStep, fixed

(* The type invariant of Main holds of every behaviour: an invocation is    *)
(* somewhere main, GetConfigOrDie, EnsureLXDInitializedOrDie and the run of *)
(* its command know, only names and groups of the host's databases are used.*)
THEOREM MainTypeCorrect == Spec => []TypeOK
<1>1. TypeOK /\ Next => TypeOK'
  <2>. SUFFICES ASSUME TypeOK, Next PROVE TypeOK'
    OBVIOUS
  <2>1. faults \in 0..MaxFaults /\ (faults < MaxFaults => faults + 1 \in 0..MaxFaults)
    BY StartupAssumption DEF TypeOK
  <2>. QED  BY <2>1, StepCases, InvokeType, StartupType, CommandType, RegisterType, BreakType
<1>2. TypeOK /\ UNCHANGED vars => TypeOK'
  BY DEF TypeOK, vars, files, output, guest, registering, Known, Positions, User, UserFromEnv
<1>. QED  BY <1>1, <1>2, InitType, PTL DEF Spec

--------------------------------------------------------------------------------
(* No step but Invoke takes an invocation from where it has not begun, or    *)
(* moves another.                                                           *)
LEMMA OneGoes ==
  ASSUME TypeOK, NEW p \in Runs, Active(p), NEW place \in Places \ {"idle"}, Go(p, place)
  PROVE  /\ \A q \in Runs : (pc'[q] = "idle") <=> (pc[q] = "idle")
         /\ \A q \in Runs : Active(q)' => Active(q)
         /\ pc'[p] = place /\ \A q \in Runs : q # p => pc'[q] = pc[q]
<1>1. pc' = [pc EXCEPT ![p] = place] /\ pc \in [Runs -> Places]
  BY DEF Go, TypeOK
<1>2. pc'[p] = place /\ \A q \in Runs : q # p => pc'[q] = pc[q]
  BY <1>1
<1>3. pc[p] # "idle" /\ place # "idle"
  BY DEF Active
<1>. QED  BY <1>2, <1>3 DEF Active

(* In a scenario in which invocations do not overlap one of them is active. *)
Apart == scene.alone => \A p, q \in Runs : Active(p) /\ Active(q) => p = q

LEMMA ApartKept ==
  ASSUME Apart, UNCHANGED scene, \A q \in Runs : Active(q)' => Active(q)
  PROVE  Apart'
  BY DEF Apart

LEMMA ApartNext ==
  ASSUME TypeOK, Apart, Next
  PROVE  Apart'
<1>1. ASSUME NEW p \in Runs, Invoke(p) PROVE Apart'
  <2>1. /\ pc' = [pc EXCEPT ![p] = "load"] /\ scene' = scene
        /\ scene.alone => Quiet
    BY <1>1 DEF Invoke, Go
  <2>. QED  BY <2>1 DEF Apart, Quiet, Active, TypeOK
<1>2. ASSUME NEW p \in Runs, StartupStep(p), UNCHANGED fixed PROVE Apart'
  BY <1>2, StartupGoes, OneGoes, ApartKept DEF Elsewhere, fixed
<1>3. ASSUME NEW p \in Runs, CommandStep(p), UNCHANGED fixed PROVE Apart'
  BY <1>3, CommandGoes, OneGoes, ApartKept DEF Elsewhere, fixed
<1>4. ASSUME NEW p \in Runs, RegisterStep(p) \/ RegisterFault(p), UNCHANGED fixed
      PROVE  Apart'
  BY <1>4, RegisterGoes, OneGoes, ApartKept DEF fixed
<1>5. ASSUME NEW p \in Runs, Fault(p) \/ Kill(p), UNCHANGED fixed PROVE Apart'
  BY <1>5, FaultGoes, OneGoes, ApartKept DEF Places, Ended, fixed
<1>6. ASSUME StopContainer, UNCHANGED fixed PROVE Apart'
  BY <1>6, ApartKept DEF StopContainer, fixed, Active
<1>7. ASSUME NEW p \in Runs, WriteFails(p) \/ RemovalFails(p), UNCHANGED fixed PROVE Apart'
  BY <1>7, WriteFailsGoes, RemovalFailsGoes, OneGoes, ApartKept DEF Elsewhere, fixed
<1>8. ASSUME Break, UNCHANGED fixed PROVE Apart'
  BY <1>4, <1>5, <1>6, <1>7, <1>8 DEF Break
<1>. QED  BY StepCases, <1>1, <1>2, <1>3, <1>4, <1>8

LEMMA ApartCorrect == Spec => []Apart
<1>1. Init => Apart
  BY DEF Init, Apart, Active
<1>2. TypeOK /\ Apart /\ [Next]_vars => Apart'
  <2>1. ASSUME Apart, UNCHANGED vars PROVE Apart'
    BY <2>1, ApartKept DEF vars, Active
  <2>. QED  BY <2>1, ApartNext
<1>. QED  BY <1>1, <1>2, MainTypeCorrect, PTL DEF Spec

================================================================================
