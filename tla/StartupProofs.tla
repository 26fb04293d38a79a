------------------------------ MODULE StartupProofs -----------------------------
(****************************************************************************)
(* What TLAPS proves about the way every invocation begins: the remote is   *)
(* registered when a command needs it, and the key belongs to the           *)
(* certificate, for any number of invocations, kills and faults.  And about *)
(* what follows without register: the artifacts a cmake finds, the image    *)
(* create asks for, and the commands that panic.                            *)
(****************************************************************************)
EXTENDS MainProofs, MainProperties, WellFoundedInduction

Reading == {"cert", "crt", "key"} \cup Writing
Ensuring == {"check", "rmload", "rmsave", "addload", "addsave"}
Connected == {"client", "query", "init", "wait"}

(* The steps of the beginning, and of it when a write fails.                *)
BeginStep(p) == StartupStep(p) \/ WriteFails(p)

(* The steps that follow the beginning do not return to it, but for one: a  *)
(* command calls GetConfigOrDie again.                                      *)
LaterStep(p) ==
    \/ CommandStep(p) \/ RegisterStep(p) \/ RegisterFault(p) \/ RemovalFails(p)
    \/ Fault(p) \/ Kill(p)

LEMMA BeginGoes ==
  ASSUME NEW p \in Runs, BeginStep(p)
  PROVE  Active(p) /\ \E place \in Elsewhere \ {"boot", "look"} : Go(p, place)
  BY StartupGoes, WriteFailsGoes DEF BeginStep

LEMMA CommandLater ==
  ASSUME NEW p \in Runs, CommandStep(p)
  PROVE  /\ pc[p] \notin Starting
         /\ \E place : /\ Go(p, place) /\ place \notin Starting \ {"load"}
                       /\ place \in Connected => pc[p] \in Connected
<1>. USE DEF Starting, Pairing, Writing, Connected
<1>1. CASE Lookup(p)
  <2>1. \E place \in {"die", "shell", "load", "panic"} : Go(p, place)
    BY <1>1, FlagsPlaces, Zenon DEF Lookup
  <2>. QED  BY <1>1, <2>1 DEF Lookup
<1>2. CASE NewClient(p)
  BY <1>2 DEF NewClient
<1>3. CASE Query(p)
  BY <1>3, RequestEnds DEF Query
<1>4. CASE InitRequest(p)
  BY <1>4 DEF InitRequest
<1>5. CASE Event(p)
  BY <1>5 DEF Event
<1>6. CASE Made(p)
  BY <1>6 DEF Made
<1>7. CASE StatCache(p)
  BY <1>7, ArtifactPlaces DEF StatCache
<1>8. CASE RemoveArtifact(p)
  BY <1>8, ArtifactPlaces DEF RemoveArtifact
<1>9. CASE Execute(p)
  BY <1>9 DEF Execute
<1>. QED  BY <1>1, <1>2, <1>3, <1>4, <1>5, <1>6, <1>7, <1>8, <1>9 DEF CommandStep

LEMMA RegisterLater ==
  ASSUME NEW p \in Runs, RegisterStep(p) \/ RegisterFault(p)
  PROVE  \E place : Go(p, place) /\ place \notin Starting \cup Connected
  BY DEF RegisterStep, RegisterFault, Boot, QueryUser, GetDevices, PutDevices, GroupAdd,
         UserAdd, Starting, Pairing, Writing, Connected

LEMMA LaterGoes ==
  ASSUME TypeOK, NEW p \in Runs, LaterStep(p)
  PROVE  /\ Active(p) /\ pc'[p] # "idle"
         /\ \A q \in Runs : q # p => pc'[q] = pc[q]
         /\ \/ pc'[p] \in Ended
            \/ /\ pc[p] \notin Starting
               /\ pc'[p] \notin Starting \ {"load"}
               /\ pc'[p] \in Connected => pc[p] \in Connected
<1>1. /\ Active(p) /\ \E place \in Places \ {"idle"} : Go(p, place)
  BY CommandGoes, RegisterGoes, RemovalFailsGoes, FaultGoes DEF LaterStep, Elsewhere, Places, Ended
<1>2. \A place : Go(p, place) => pc'[p] = place /\ \A q \in Runs : q # p => pc'[q] = pc[q]
  BY DEF Go, TypeOK
<1>3. CASE CommandStep(p)
  BY <1>1, <1>2, <1>3, CommandLater
<1>4. CASE RegisterStep(p) \/ RegisterFault(p)
  <2>1. pc[p] \notin Starting
    BY <1>4, RegisterGoes DEF Registering, Mounting, Starting, Pairing, Writing
  <2>. QED  BY <1>1, <1>2, <1>4, <2>1, RegisterLater
<1>5. CASE Fault(p) \/ Kill(p)
  BY <1>1, <1>2, <1>5, FaultGoes
<1>6. CASE RemovalFails(p)
  BY <1>1, <1>2, <1>6, RemovalFailsGoes, ArtifactPlaces DEF Starting, Pairing, Writing, Connected
<1>. QED  BY <1>3, <1>4, <1>5, <1>6 DEF LaterStep

(* What Next does to the files and to what was read of them.  Only a fault  *)
(* takes an invocation out of its beginning.                                *)
LEMMA FaultCases ==
  ASSUME TypeOK, Next
  PROVE  \/ \E p \in Runs : Invoke(p)
         \/ \E p \in Runs : /\ BeginStep(p) /\ UNCHANGED fixed
                            /\ \/ StartupStep(p) /\ UNCHANGED faults
                               \/ WriteFails(p) /\ faults' = faults + 1
         \/ \E p \in Runs : /\ LaterStep(p) /\ UNCHANGED <<files, ensured, conf, lxc, fixed>>
                            /\ faults' \in {faults, faults + 1}
                            /\ pc[p] \in Starting => faults' = faults + 1
         \/ /\ UNCHANGED <<pc, files, ensured, conf, lxc, fixed>>
            /\ faults' = faults + 1
<1>1. ASSUME NEW p \in Runs, CommandStep(p) \/ RegisterStep(p) PROVE pc[p] \notin Starting
  BY <1>1, CommandLater, RegisterGoes DEF Registering, Mounting, Starting, Pairing, Writing
<1>2. ASSUME Break, UNCHANGED <<ensured, conf, lxc, fixed>>
      PROVE  \/ \E p \in Runs : WriteFails(p)
             \/ \E p \in Runs : LaterStep(p) /\ UNCHANGED <<files, ensured, conf, lxc, fixed>>
             \/ UNCHANGED <<pc, files, ensured, conf, lxc, fixed>>
  BY <1>2 DEF Break, LaterStep, StopContainer
<1>. QED  BY StepCases, <1>1, <1>2 DEF BeginStep, LaterStep

LEMMA FileCases ==
  ASSUME TypeOK, Next
  PROVE  \/ \E p \in Runs : Invoke(p)
         \/ \E p \in Runs : BeginStep(p) /\ UNCHANGED fixed
         \/ \E p \in Runs : LaterStep(p) /\ UNCHANGED <<files, ensured, conf, lxc, fixed>>
         \/ UNCHANGED <<pc, files, ensured, conf, lxc, fixed>>
  BY FaultCases

LEMMA InvokeBegins ==
  ASSUME TypeOK, NEW p \in Runs, Invoke(p)
  PROVE  /\ pc[p] = "idle" /\ pc'[p] = "load" /\ UNCHANGED <<files, scene>>
         /\ want'[p] = line'[p].want /\ line'[p] \in Menu(scene.menu)
         /\ ensured'[p] = (Cmd(p)' = "wrapper")
         /\ \A q \in Runs : q # p =>
              /\ pc'[q] = pc[q] /\ want'[q] = want[q] /\ ensured'[q] = ensured[q]
              /\ conf'[q] = conf[q] /\ line'[q] = line[q]
  BY DEF Invoke, Go, TypeOK, Cmd

--------------------------------------------------------------------------------
(* The inductive invariant of CommandHasPair: the key is only there with    *)
(* its certificate, unless one of them is torn.  A file that is torn is one *)
(* that an invocation is about to write, or a fault has left it.            *)
AnyTorn == {crt, key} \cap Torn # {}

PairFiles ==
    /\ key = "none" \/ (crt # "none" /\ (crt = key \/ AnyTorn))
    /\ AnyTorn => faults > 0 \/ \E p \in Runs : pc[p] \in Writing

PairOf(p) ==
    /\ pc[p] \in {"crt", "crtwrite", "key"} => key = "none"
    /\ pc[p] = "crtwrite" => crt = "empty"
    /\ pc[p] = "key" => crt \in {p} \cup Torn
    /\ pc[p] = "keywrite" => /\ key = "empty" /\ crt \in {p} \cup Torn
                             /\ crt \in Torn => faults > 0
    /\ Active(p) /\ pc[p] \notin Pairing => key # "none"

PairInv == scene.alone => PairFiles /\ \A p \in Runs : PairOf(p)

(* Where nothing overlaps, the files of an invocation that has begun are    *)
(* nobody else's.                                                           *)
LEMMA PairAlone ==
  ASSUME TypeOK, Apart, NEW p \in Runs, Active(p), UNCHANGED scene,
         \A q \in Runs : q # p => pc'[q] = pc[q],
         scene.alone => PairFiles' /\ PairOf(p)'
  PROVE  PairInv'
<1>1. scene.alone => \A q \in Runs : q # p => ~Active(q)
  BY DEF Apart
<1>2. scene.alone => \A q \in Runs : q # p => PairOf(q)'
  BY <1>1 DEF PairOf, Active, Ended
<1>. QED  BY <1>2 DEF PairInv

(* Nor does any other write them.                                           *)
LEMMA WritesAlone ==
  ASSUME Apart, scene.alone, NEW p \in Runs, Active(p), \E q \in Runs : pc[q] \in Writing
  PROVE  pc[p] \in Writing
  BY DEF Apart, Active, Writing, Ended

LEMMA PairBegin ==
  ASSUME TypeOK, Apart, PairInv, NEW p \in Runs, UNCHANGED fixed,
         \/ StartupStep(p) /\ UNCHANGED faults
         \/ WriteFails(p) /\ faults' = faults + 1
  PROVE  PairInv'
<1>1. /\ Active(p) /\ scene' = scene /\ pc \in [Runs -> Places] /\ faults \in Nat
      /\ \A q \in Runs : q # p => pc'[q] = pc[q]
  BY BeginGoes, OneGoes, StartupAssumption DEF BeginStep, fixed, Elsewhere, TypeOK
<1>2. p \notin {"none", "old"} \cup Torn
  BY StartupAssumption DEF Torn
<1>. SUFFICES ASSUME scene.alone PROVE PairFiles' /\ PairOf(p)'
  BY <1>1, PairAlone
<1>3. /\ key = "none" \/ (crt # "none" /\ (crt = key \/ AnyTorn))
      /\ AnyTorn => faults > 0 \/ pc[p] \in Writing
      /\ PairOf(p)
  BY <1>1, WritesAlone DEF PairInv, PairFiles
<1>. SUFFICES /\ key' = "none" \/ (crt' # "none" /\ (crt' = key' \/ AnyTorn'))
              /\ AnyTorn' => faults' > 0 \/ pc'[p] \in Writing
              /\ PairOf(p)'
  BY DEF PairFiles
<1>. USE <1>1, <1>2, <1>3 DEF PairOf, AnyTorn, Torn, Active, Ended, Pairing, Writing, Go, files
<1>4. CASE LoadConfig(p) /\ UNCHANGED faults
  BY <1>4 DEF LoadConfig
<1>5. CASE FindOrGenCert(p) /\ UNCHANGED faults
  BY <1>5 DEF FindOrGenCert, NeedsCert, Caller
<1>6. CASE GenCert(p) /\ UNCHANGED faults
  BY <1>6 DEF GenCert, Caller
<1>7. CASE CheckRemote(p) /\ UNCHANGED faults
  BY <1>7, RemotePlaces DEF CheckRemote
<1>8. CASE LxcLoad(p) /\ UNCHANGED faults
  BY <1>8 DEF LxcLoad
<1>9. CASE LxcRemoteRemove(p) /\ UNCHANGED faults
  BY <1>9 DEF LxcRemoteRemove
<1>10. CASE LxcRemoteAdd(p) /\ UNCHANGED faults
  BY <1>10 DEF LxcRemoteAdd
<1>11. CASE WriteFails(p) /\ faults' = faults + 1
  <2>1. faults' > 0
    BY <1>11
  <2>2. CASE pc[p] = "crtwrite"
    BY <1>11, <2>1, <2>2 DEF WriteFails
  <2>3. CASE pc[p] = "keywrite"
    BY <1>11, <2>1, <2>3 DEF WriteFails, Caller
  <2>. QED  BY <1>11, <2>2, <2>3 DEF WriteFails
<1>. HIDE DEF PairOf, AnyTorn, Torn, Active, Go, files
<1>. QED  BY <1>4, <1>5, <1>6, <1>7, <1>8, <1>9, <1>10, <1>11 DEF StartupStep

LEMMA PairNext ==
  ASSUME TypeOK, Apart, PairInv, Next
  PROVE  PairInv'
<1>0. faults \in Nat
  BY StartupAssumption DEF TypeOK
<1>1. ASSUME NEW p \in Runs, Invoke(p) PROVE PairInv'
  <2>1. UNCHANGED <<files, faults, scene>>
    BY <1>1 DEF Invoke
  <2>2. \A q \in Runs : PairOf(q) => PairOf(q)'
    BY <1>1, <2>1, InvokeBegins DEF PairOf, Active, Pairing, files
  <2>3. PairFiles => PairFiles'
    BY <1>1, <2>1, InvokeBegins DEF PairFiles, AnyTorn, Writing, files
  <2>. QED  BY <2>1, <2>2, <2>3 DEF PairInv
<1>2. ASSUME NEW p \in Runs, LaterStep(p), UNCHANGED <<files, fixed>>,
             faults' \in {faults, faults + 1}, pc[p] \in Starting => faults' = faults + 1
      PROVE  PairInv'
  <2>1. ASSUME scene.alone PROVE PairFiles' /\ PairOf(p)'
    <3>1. PairFiles /\ PairOf(p) /\ Active(p)
      BY <1>2, <2>1, LaterGoes DEF PairInv
    <3>2. PairFiles'
      BY <1>0, <1>2, <2>1, <3>1, WritesAlone DEF PairFiles, AnyTorn, Starting, Pairing, files
    <3>3. PairOf(p)'
      BY <1>2, <3>1, LaterGoes DEF PairOf, Active, Starting, Pairing, Writing, Ended, files
    <3>. QED  BY <3>2, <3>3
  <2>. QED  BY <1>2, <2>1, LaterGoes, PairAlone DEF fixed
<1>3. ASSUME UNCHANGED <<pc, files, fixed>>, faults' = faults + 1 PROVE PairInv'
  BY <1>0, <1>3 DEF PairInv, PairFiles, AnyTorn, PairOf, Active, files, fixed
<1>. QED  BY FaultCases, PairBegin, <1>1, <1>2, <1>3

(* Where invocations do not overlap, no command goes on without a pair, or  *)
(* with a certificate and a key that do not belong together, wherever one   *)
(* before was killed or failed, but for files that were torn by this.       *)
THEOREM PairCorrect == Spec => []CommandHasPair
<1>1. Init => PairInv
  <2>. SUFFICES ASSUME Init PROVE PairInv
    OBVIOUS
  <2>1. scene.key \in {"none", scene.crt} /\ scene.crt \in {"old", "none"}
    BY MainAssumption DEF Init, IsScenario
  <2>. QED  BY <2>1 DEF Init, PairInv, PairFiles, AnyTorn, Torn, PairOf, Active
<1>2. TypeOK /\ Apart /\ PairInv /\ [Next]_vars => PairInv'
  <2>1. ASSUME PairInv, UNCHANGED vars PROVE PairInv'
    BY <2>1 DEF PairInv, PairFiles, AnyTorn, PairOf, Active, vars, files
  <2>. QED  BY <2>1, PairNext
<1>3. Apart /\ PairInv => CommandHasPair
  <2>. SUFFICES ASSUME Apart, PairInv, scene.alone, NEW p \in Runs, Active(p), pc[p] \notin Pairing
                PROVE  /\ "none" \notin {crt, key}
                       /\ crt = key \/ AnyTorn
                       /\ AnyTorn => faults > 0
    BY DEF CommandHasPair, AnyTorn
  <2>1. PairFiles /\ PairOf(p)
    BY DEF PairInv
  <2>. QED  BY <2>1, WritesAlone DEF PairFiles, PairOf, Pairing
<1>. QED  BY <1>1, <1>2, <1>3, MainTypeCorrect, ApartCorrect, PTL DEF Spec

--------------------------------------------------------------------------------
(* The inductive invariant of EnsuredRemote: what an invocation has read is *)
(* true of the file when it decides by it.  Of first runs none has read     *)
(* another address than its own, so none removes the remote.                *)
RemoteOf(p) ==
    /\ pc[p] \in Ensuring => ~ensured[p]
    /\ pc[p] \in Reading \cup {"check"} => (conf[p] = want[p] => remote = want[p])
    /\ ensured[p] /\ Cmd(p) # "wrapper" =>
         /\ remote = want[p]
         /\ pc[p] \in Reading \cup Connected => conf[p] = want[p]
    /\ FirstRuns =>
         /\ pc[p] \notin {"rmload", "rmsave"} /\ remote \in {"none", want[p]}
         /\ pc[p] \in Reading \cup {"check"} => conf[p] \in {"none", want[p]}

OneServer ==
    FirstRuns =>
        /\ \A l \in Menu(scene.menu) :
             /\ remote \in {"none", l.want}
             /\ \A p \in Runs : pc[p] # "idle" => want[p] = l.want
        /\ \A p, q \in Runs : pc[p] # "idle" /\ pc[q] # "idle" => want[p] = want[q]

RemoteInv ==
    /\ OneServer
    /\ scene.alone \/ FirstRuns => \A p \in Runs : Active(p) => RemoteOf(p)

(* A step of one invocation that at most registers its own server.          *)
LEMMA RemoteOne ==
  ASSUME TypeOK, Apart, RemoteInv, NEW p \in Runs, Active(p), UNCHANGED fixed,
         \A q \in Runs : q # p => /\ pc'[q] = pc[q] /\ conf'[q] = conf[q]
                                  /\ ensured'[q] = ensured[q],
         pc'[p] # "idle", FirstRuns => remote' \in {remote, want[p]},
         scene.alone \/ FirstRuns => (Active(p)' => RemoteOf(p)')
  PROVE  RemoteInv'
<1>1. FirstRuns' = FirstRuns /\ \A q : Cmd(q)' = Cmd(q)
  BY DEF FirstRuns, fixed, Cmd
<1>2. pc[p] # "idle"
  BY DEF Active
<1>3. OneServer'
  BY <1>1, <1>2 DEF RemoteInv, OneServer, fixed
<1>4. ASSUME scene.alone, NEW q \in Runs, q # p PROVE ~Active(q)'
  BY <1>4 DEF Apart, Active
<1>5. ASSUME FirstRuns, NEW q \in Runs, q # p, Active(q)' PROVE RemoteOf(q)'
  <2>1. Active(q) /\ RemoteOf(q) /\ remote' \in {remote, want[q]}
    BY <1>2, <1>5 DEF RemoteInv, OneServer, Active
  <2>. QED  BY <1>1, <1>5, <2>1 DEF RemoteOf, fixed
<1>. QED  BY <1>1, <1>3, <1>4, <1>5 DEF RemoteInv, fixed

LEMMA RemoteBegin ==
  ASSUME TypeOK, Apart, RemoteInv, NEW p \in Runs, BeginStep(p), UNCHANGED fixed
  PROVE  RemoteInv'
<1>1. /\ Active(p) /\ UNCHANGED <<scene, want>> /\ Cmd(p)' = Cmd(p) /\ FirstRuns' = FirstRuns
      /\ pc \in [Runs -> Places] /\ pc'[p] # "idle"
      /\ \A q \in Runs : q # p => pc'[q] = pc[q]
  BY BeginGoes, OneGoes DEF fixed, Elsewhere, TypeOK, Cmd, FirstRuns
<1>2. /\ conf \in [Runs -> Addrs \cup {"none"}] /\ ensured \in [Runs -> BOOLEAN]
      /\ \A q \in Runs : q # p => conf'[q] = conf[q] /\ ensured'[q] = ensured[q]
  BY DEF TypeOK, BeginStep, StartupStep, LoadConfig, FindOrGenCert, GenCert, CheckRemote, LxcLoad,
         LxcRemoteRemove, LxcRemoteAdd, WriteFails
<1>3. scene.alone \/ FirstRuns => RemoteOf(p)
  BY <1>1 DEF RemoteInv
<1>4. FirstRuns => remote' \in {remote, want[p]}
  BY <1>3 DEF RemoteOf, files, BeginStep, StartupStep, LoadConfig, FindOrGenCert, GenCert,
              CheckRemote, LxcLoad, LxcRemoteRemove, LxcRemoteAdd, WriteFails
<1>. SUFFICES ASSUME scene.alone \/ FirstRuns, Active(p)' PROVE RemoteOf(p)'
  BY <1>1, <1>2, <1>4, RemoteOne
<1>. USE <1>1, <1>2, <1>3 DEF RemoteOf, Reading, Writing, Ensuring, Connected, Active, Ended, Go, files
<1>5. CASE LoadConfig(p)
  BY <1>5 DEF LoadConfig
<1>6. CASE FindOrGenCert(p)
  BY <1>6 DEF FindOrGenCert, Caller
<1>7. CASE GenCert(p)
  BY <1>7 DEF GenCert, Caller
<1>8. CASE CheckRemote(p)
  BY <1>8 DEF CheckRemote, NextForRemote
<1>9. CASE LxcLoad(p)
  BY <1>9 DEF LxcLoad
<1>10. CASE LxcRemoteRemove(p)
  BY <1>10 DEF LxcRemoteRemove
<1>11. CASE LxcRemoteAdd(p)
  BY <1>11 DEF LxcRemoteAdd
<1>12. CASE WriteFails(p)
  BY <1>12 DEF WriteFails, Caller
<1>. QED  BY <1>5, <1>6, <1>7, <1>8, <1>9, <1>10, <1>11, <1>12 DEF BeginStep, StartupStep

LEMMA RemoteInvoke ==
  ASSUME TypeOK, RemoteInv, NEW p \in Runs, Invoke(p)
  PROVE  RemoteInv'
<1>1. FirstRuns' = FirstRuns
  BY InvokeBegins DEF FirstRuns
<1>2. OneServer'
  <2>1. ASSUME FirstRuns, NEW l \in Menu(scene.menu)
        PROVE  want'[p] = l.want /\ remote' \in {"none", l.want}
    BY <2>1, InvokeBegins DEF FirstRuns, RemoteInv, OneServer, files
  <2>2. line'[p] \in Menu(scene.menu) /\ want'[p] = line'[p].want
    BY InvokeBegins
  <2>. QED  BY <1>1, <2>1, <2>2, InvokeBegins DEF RemoteInv, OneServer
<1>3. FirstRuns => remote' \in {"none", want'[p]}
  BY <1>1, <1>2, InvokeBegins DEF OneServer
<1>4. RemoteOf(p)'
  BY <1>1, <1>3, InvokeBegins DEF RemoteOf, Reading, Writing, Ensuring, Connected
<1>5. \A q \in Runs : q # p /\ Active(q)' => Active(q) /\ (RemoteOf(q) => RemoteOf(q)')
  BY <1>1, InvokeBegins DEF RemoteOf, Active, Cmd, files
<1>. QED  BY <1>1, <1>2, <1>4, <1>5, InvokeBegins DEF RemoteInv

LEMMA RemoteNext ==
  ASSUME TypeOK, Apart, RemoteInv, Next
  PROVE  RemoteInv'
<1>1. ASSUME NEW p \in Runs, LaterStep(p), UNCHANGED <<files, ensured, conf, fixed>>
      PROVE  RemoteInv'
  <2>1. FirstRuns' = FirstRuns /\ Cmd(p)' = Cmd(p)
    BY <1>1 DEF FirstRuns, fixed, Cmd
  <2>2. scene.alone \/ FirstRuns => (Active(p)' => RemoteOf(p)')
    BY <1>1, <2>1, LaterGoes DEF RemoteInv, RemoteOf, Active, Starting, Pairing, Writing,
                                 Reading, Ensuring, Connected, files, fixed
  <2>. QED  BY <1>1, <2>2, LaterGoes, RemoteOne DEF files
<1>2. ASSUME UNCHANGED <<pc, files, ensured, conf, fixed>> PROVE RemoteInv'
  BY <1>2 DEF RemoteInv, OneServer, FirstRuns, RemoteOf, Active, Cmd, files, fixed
<1>. QED  BY FileCases, RemoteBegin, RemoteInvoke, <1>1, <1>2

(* Whatever overlaps - unless an invocation replaces another address -, is  *)
(* killed or fails: behind EnsureLXDInitializedOrDie the remote stays       *)
(* registered with its address, and the command connects to this address.   *)
THEOREM RemoteCorrect == Spec => []EnsuredRemote
<1>1. Init => RemoteInv
  BY DEF Init, RemoteInv, OneServer, FirstRuns, Active
<1>2. TypeOK /\ Apart /\ RemoteInv /\ [Next]_vars => RemoteInv'
  <2>1. ASSUME RemoteInv, UNCHANGED vars PROVE RemoteInv'
    BY <2>1 DEF RemoteInv, OneServer, FirstRuns, RemoteOf, Active, Cmd, vars, files
  <2>. QED  BY <2>1, RemoteNext
<1>3. RemoteInv => EnsuredRemote
  BY DEF RemoteInv, RemoteOf, EnsuredRemote, Connected
<1>. QED  BY <1>1, <1>2, <1>3, MainTypeCorrect, ApartCorrect, PTL DEF Spec

--------------------------------------------------------------------------------
(* The inductive invariant of RunsRecover: where nothing overlaps, lxc finds*)
(* the remote that the invocation has read, or the removal of it.           *)
LxcOf(p) ==
    /\ pc[p] \in Reading \cup {"check"} => conf[p] = remote
    /\ pc[p] = "rmload" => remote # "none"
    /\ pc[p] = "rmsave" => lxc[p] # "none"
    /\ pc[p] = "addload" => remote = "none"
    /\ pc[p] = "addsave" => lxc[p] = "none"

LxcInv == scene.alone => \A p \in Runs : LxcOf(p)

LEMMA LxcAlone ==
  ASSUME TypeOK, Apart, NEW p \in Runs, Active(p), UNCHANGED scene,
         \A q \in Runs : q # p => pc'[q] = pc[q],
         scene.alone => LxcOf(p)'
  PROVE  LxcInv'
<1>1. ASSUME scene.alone, NEW q \in Runs, q # p PROVE LxcOf(q)'
  <2>1. pc'[q] \in Ended \cup {"idle"}
    BY <1>1 DEF Apart, Active
  <2>. QED  BY <2>1 DEF LxcOf, Reading, Writing, Ended
<1>. QED  BY <1>1 DEF LxcInv

LEMMA LxcBegin ==
  ASSUME TypeOK, Apart, LxcInv, NEW p \in Runs, BeginStep(p), UNCHANGED fixed
  PROVE  LxcInv' /\ (scene.alone => pc'[p] # "die")
<1>1. /\ Active(p) /\ scene' = scene /\ pc \in [Runs -> Places]
      /\ \A q \in Runs : q # p => pc'[q] = pc[q]
  BY BeginGoes, OneGoes DEF fixed, Elsewhere, TypeOK
<1>2. conf \in [Runs -> Addrs \cup {"none"}] /\ lxc \in [Runs -> Addrs \cup {"none", "unread"}]
  BY DEF TypeOK
<1>. SUFFICES ASSUME scene.alone PROVE LxcOf(p)' /\ pc'[p] # "die"
  BY <1>1, LxcAlone DEF LxcInv
<1>3. LxcOf(p)
  BY DEF LxcInv
<1>. USE <1>1, <1>2, <1>3 DEF LxcOf, Reading, Writing, Go, files
<1>4. CASE LoadConfig(p)
  BY <1>4 DEF LoadConfig
<1>5. CASE FindOrGenCert(p)
  BY <1>5 DEF FindOrGenCert, Caller
<1>6. CASE GenCert(p)
  BY <1>6 DEF GenCert, Caller
<1>7. CASE CheckRemote(p)
  <2>1. /\ UNCHANGED <<remote, conf, lxc>> /\ pc'[p] = NextForRemote(p) /\ conf[p] = remote
        /\ pc'[p] \in {"lookup", "addload", "rmload"}
    BY <1>7, RemotePlaces DEF CheckRemote
  <2>2. /\ NextForRemote(p) = "rmload" => conf[p] # "none"
        /\ NextForRemote(p) = "addload" => conf[p] = "none"
    BY DEF NextForRemote
  <2>. QED  BY <2>1, <2>2
<1>8. CASE LxcLoad(p)
  BY <1>8 DEF LxcLoad
<1>9. CASE LxcRemoteRemove(p)
  BY <1>9 DEF LxcRemoteRemove
<1>10. CASE LxcRemoteAdd(p)
  BY <1>10 DEF LxcRemoteAdd
<1>11. CASE WriteFails(p)
  BY <1>11 DEF WriteFails, Caller
<1>. QED  BY <1>4, <1>5, <1>6, <1>7, <1>8, <1>9, <1>10, <1>11 DEF BeginStep, StartupStep

LEMMA LxcNext ==
  ASSUME TypeOK, Apart, LxcInv, Next
  PROVE  LxcInv'
<1>1. ASSUME NEW p \in Runs, Invoke(p) PROVE LxcInv'
  <2>1. \A q \in Runs : LxcOf(q) => LxcOf(q)'
    BY <1>1, InvokeBegins DEF LxcOf, Reading, Writing, files, Invoke
  <2>. QED  BY <1>1, <2>1, InvokeBegins DEF LxcInv
<1>2. ASSUME NEW p \in Runs, LaterStep(p), UNCHANGED <<files, conf, lxc, fixed>>
      PROVE  LxcInv'
  <2>1. scene.alone => LxcOf(p)'
    BY <1>2, LaterGoes DEF LxcOf, Reading, Starting, Pairing, Writing, Ended
  <2>. QED  BY <1>2, <2>1, LaterGoes, LxcAlone DEF fixed
<1>3. ASSUME UNCHANGED <<pc, files, conf, lxc, fixed>> PROVE LxcInv'
  BY <1>3 DEF LxcInv, LxcOf, files, fixed
<1>. QED  BY FileCases, LxcBegin, <1>1, <1>2, <1>3

(* Where invocations do not overlap, none is turned away before its command *)
(* unless something fails in it, whatever one before it has left behind.    *)
THEOREM RecoverCorrect == Spec => RunsRecover
<1>1. Init => LxcInv
  BY DEF Init, LxcInv, LxcOf, Reading, Writing
<1>2. TypeOK /\ Apart /\ LxcInv /\ [Next]_vars => LxcInv'
  <2>1. ASSUME LxcInv, UNCHANGED vars PROVE LxcInv'
    BY <2>1 DEF LxcInv, LxcOf, vars, files
  <2>. QED  BY <2>1, LxcNext
<1>3. ASSUME TypeOK, Apart, LxcInv, Next, scene.alone, NEW p \in Runs,
             pc[p] \in Starting, pc'[p] = "die"
      PROVE  faults' > faults
  <2>1. pc[p] # "die"
    BY <1>3 DEF Starting, Pairing, Writing
  <2>2. ASSUME NEW q \in Runs, Invoke(q) PROVE FALSE
    BY <1>3, <2>1, <2>2, InvokeBegins
  <2>3. ASSUME NEW q \in Runs, StartupStep(q), UNCHANGED fixed PROVE FALSE
    <3>1. pc'[q] # "die" /\ \A r \in Runs : r # q => pc'[r] = pc[r]
      BY <1>3, <2>3, LxcBegin, StartupGoes, OneGoes DEF BeginStep, Elsewhere
    <3>. QED  BY <1>3, <2>1, <3>1
  <2>4. ASSUME NEW q \in Runs, CommandStep(q) PROVE FALSE
    <3>1. pc[q] \notin Starting /\ \A r \in Runs : r # q => pc'[r] = pc[r]
      BY <1>3, <2>4, CommandLater, LaterGoes DEF LaterStep
    <3>. QED  BY <1>3, <2>1, <3>1
  <2>5. ASSUME NEW q \in Runs, RegisterStep(q) PROVE FALSE
    <3>1. pc[q] \notin Starting /\ \A r \in Runs : r # q => pc'[r] = pc[r]
      BY <1>3, <2>5, RegisterGoes, LaterGoes
         DEF LaterStep, Registering, Mounting, Starting, Pairing, Writing
    <3>. QED  BY <1>3, <2>1, <3>1
  <2>6. faults \in Nat
    BY <1>3, StartupAssumption DEF TypeOK
  <2>. QED  BY <1>3, StepCases, <2>2, <2>3, <2>4, <2>5, <2>6
<1>4. TypeOK /\ Apart /\ LxcInv /\ [Next]_vars =>
        [scene.alone =>
           \A p \in Runs : pc[p] \in Starting /\ pc'[p] = "die" => faults' > faults]_vars
  BY <1>3
<1>. QED  BY <1>1, <1>2, <1>4, MainTypeCorrect, ApartCorrect, PTL DEF Spec, RunsRecover

--------------------------------------------------------------------------------
(* An invocation keeps the command line that it was given.                  *)
Given == \A p \in Runs : pc[p] # "idle" => line[p] \in Menu(scene.menu)

LEMMA GivenCorrect == Spec => []Given
<1>1. TypeOK /\ Given /\ [Next]_vars => Given'
  <2>. SUFFICES ASSUME TypeOK, Given, [Next]_vars PROVE Given'
    OBVIOUS
  <2>1. ASSUME NEW p \in Runs, Invoke(p) PROVE Given'
    BY <2>1, InvokeBegins DEF Given
  <2>2. ASSUME NEW p \in Runs, BeginStep(p) \/ LaterStep(p), UNCHANGED fixed PROVE Given'
    <3>1. \A q \in Runs : (pc'[q] = "idle") <=> (pc[q] = "idle")
      <4>1. CASE BeginStep(p)
        BY <4>1, BeginGoes, OneGoes DEF Elsewhere
      <4>2. CASE LaterStep(p)
        BY <4>2, LaterGoes DEF Active
      <4>. QED  BY <2>2, <4>1, <4>2
    <3>. QED  BY <2>2, <3>1 DEF Given, fixed
  <2>3. ASSUME UNCHANGED <<pc, fixed>> PROVE Given'
    BY <2>3 DEF Given, fixed
  <2>. QED  BY FileCases, <2>1, <2>2, <2>3 DEF vars, fixed
<1>2. Init => Given
  BY DEF Init, Given
<1>. QED  BY <1>1, <1>2, MainTypeCorrect, PTL DEF Spec

--------------------------------------------------------------------------------
(* The inductive invariant of ConfigureFresh: where nothing overlaps, the   *)
(* cache is never missing while CMakeFiles are there that no wrapper failed *)
(* to remove, and a wrapper has dealt with what comes before the place where*)
(* it is.  Only a wrapper, which looks no command up, runs a cmake that     *)
(* configures.                                                              *)
Removed == build["CMakeFiles"] # "made" /\ build["CMakeCache"] # "made"

FreshOf(p) ==
    /\ Cmd(p) = "wrapper" => ensured[p] /\ pc[p] \notin Ensuring \cup {"lookup"}
    /\ scene.alone =>
         /\ pc[p] = "CMakeCache" => build["CMakeFiles"] # "made"
         /\ pc[p] \in {"cmake_install", "Makefile"} => Removed
         /\ pc[p] = "shell" /\ line[p].configures => Removed

CacheStays == scene.alone /\ build["CMakeFiles"] = "made" => build["CMakeCache"] # "gone"

FreshInv == CacheStays /\ \A p \in Runs : FreshOf(p)

(* A step of one invocation: where nothing overlaps no other is at work.    *)
LEMMA FreshOne ==
  ASSUME TypeOK, Apart, FreshInv, NEW p \in Runs, Active(p), UNCHANGED fixed,
         \A q \in Runs : q # p => pc'[q] = pc[q] /\ ensured'[q] = ensured[q],
         CacheStays', FreshOf(p)'
  PROVE  FreshInv'
<1>1. ASSUME NEW q \in Runs, q # p PROVE FreshOf(q)'
  <2>1. FreshOf(q) /\ Cmd(q)' = Cmd(q) /\ scene' = scene
    BY DEF FreshInv, fixed, Cmd
  <2>2. scene.alone => pc'[q] \notin {"CMakeCache", "cmake_install", "Makefile", "shell"}
    BY <1>1 DEF Apart, Active, Ended
  <2>. QED  BY <1>1, <2>1, <2>2 DEF FreshOf
<1>. QED  BY <1>1 DEF FreshInv

LEMMA FreshInvoke ==
  ASSUME TypeOK, FreshInv, NEW p \in Runs, Invoke(p)
  PROVE  FreshInv'
<1>1. build' = build /\ scene' = scene
  BY InvokeBegins DEF Invoke
<1>2. ASSUME NEW q \in Runs, q # p PROVE FreshOf(q)'
  <2>1. /\ FreshOf(q) /\ pc'[q] = pc[q] /\ ensured'[q] = ensured[q] /\ line'[q] = line[q]
        /\ Cmd(q)' = Cmd(q) /\ Removed' = Removed
    BY <1>1, <1>2, InvokeBegins DEF FreshInv, Cmd, Removed
  <2>. QED  BY <1>1, <2>1 DEF FreshOf
<1>3. FreshOf(p)'
  BY InvokeBegins DEF FreshOf, Ensuring
<1>. QED  BY <1>1, <1>2, <1>3 DEF FreshInv, CacheStays

LEMMA FreshBegin ==
  ASSUME TypeOK, Apart, FreshInv, NEW p \in Runs, BeginStep(p), UNCHANGED <<build, fixed>>
  PROVE  FreshInv'
<1>1. /\ Active(p) /\ pc \in [Runs -> Places] /\ ensured \in [Runs -> BOOLEAN]
      /\ \A q \in Runs : q # p => pc'[q] = pc[q] /\ ensured'[q] = ensured[q]
  <2>1. \A q \in Runs : q # p => ensured'[q] = ensured[q]
    BY DEF TypeOK, BeginStep, StartupStep, LoadConfig, FindOrGenCert, GenCert, CheckRemote,
           LxcLoad, LxcRemoteRemove, LxcRemoteAdd, WriteFails
  <2>. QED  BY <2>1, BeginGoes, OneGoes DEF Elsewhere, TypeOK
<1>2. /\ CacheStays' /\ FreshOf(p) /\ Cmd(p)' = Cmd(p)
  BY DEF FreshInv, CacheStays, fixed, Cmd
<1>3. pc'[p] \notin ToSet(Artifacts) \cup {"shell"}
  BY <1>1, RemotePlaces, ArtifactPlaces
     DEF BeginStep, StartupStep, LoadConfig, FindOrGenCert, GenCert, CheckRemote, LxcLoad,
         LxcRemoteRemove, LxcRemoteAdd, WriteFails, Go, Caller
<1>4. Cmd(p) = "wrapper" => ensured'[p] /\ pc'[p] \notin Ensuring \cup {"lookup"}
  BY <1>1, <1>2, RemotePlaces
     DEF FreshOf, Ensuring, BeginStep, StartupStep, LoadConfig, FindOrGenCert, GenCert,
         CheckRemote, LxcLoad, LxcRemoteRemove, LxcRemoteAdd, WriteFails, Go, Caller
<1>5. FreshOf(p)'
  BY <1>2, <1>3, <1>4, ArtifactPlaces DEF FreshOf
<1>. QED  BY <1>1, <1>2, <1>5, FreshOne

(* The steps of a wrapper that removes artifacts, or fails to, and of the   *)
(* shell.                                                                   *)
LEMMA FreshCommand ==
  ASSUME TypeOK, Apart, Given, FreshInv, NEW p \in Runs, CommandStep(p) \/ RemovalFails(p),
         UNCHANGED <<ensured, fixed>>
  PROVE  FreshInv'
<1>1. /\ Active(p) /\ pc \in [Runs -> Places]
      /\ build \in [ToSet(Artifacts) -> {"made", "kept", "gone"}]
      /\ \A q \in Runs : q # p => pc'[q] = pc[q]
  BY LaterGoes DEF LaterStep, TypeOK
<1>2. /\ CacheStays /\ FreshOf(p) /\ Cmd(p)' = Cmd(p) /\ UNCHANGED <<scene, line>>
      /\ ensured' = ensured
  BY DEF FreshInv, fixed, Cmd
<1>3. line[p].configures => Cmd(p) = "wrapper"
  BY <1>1, MainAssumption DEF Given, Active, TypeOK, IsScenario, Cmd
<1>. SUFFICES CacheStays' /\ FreshOf(p)'
  BY <1>1, FreshOne
<1>4. CASE build' = build /\ pc'[p] \notin ToSet(Artifacts) \cup {"shell"}
                          /\ pc'[p] \notin Ensuring \cup {"lookup"}
  BY <1>2, <1>4, ArtifactPlaces DEF CacheStays, FreshOf
<1>5. CASE Lookup(p)
  <2>1. /\ Cmd(p) # "wrapper" /\ build' = build
        /\ \E place \in {"die", "shell", "load", "panic"} : Go(p, place)
    BY <1>2, <1>5, FlagsPlaces, Zenon DEF FreshOf, Lookup
  <2>2. pc'[p] \in {"die", "shell", "load", "panic"}
    BY <1>1, <2>1 DEF Go
  <2>. QED  BY <1>2, <1>3, <2>1, <2>2 DEF FreshOf, CacheStays
<1>6. CASE NewClient(p) \/ Query(p) \/ InitRequest(p) \/ Event(p) \/ Made(p)
  <2>1. build' = build
    BY <1>6 DEF NewClient, Query, InitRequest, Event, Made
  <2>2. pc'[p] \in {"stat", "query", "boot", "die", "error", "ok", "init", "panic", "wait"}
    BY <1>1, <1>6, RequestEnds DEF NewClient, Query, InitRequest, Event, Made, Go
  <2>. QED  BY <1>4, <2>1, <2>2, ArtifactPlaces DEF Ensuring
<1>7. CASE StatCache(p)
  <2>1. /\ build' = build
        /\ pc'[p] = IF line[p].configures /\ build["CMakeCache"] # "gone"
                    THEN "CMakeFiles" ELSE "shell"
    BY <1>1, <1>7 DEF StatCache, Artifacts, Go
  <2>. QED  BY <1>1, <1>2, <1>7, <2>1, ArtifactPlaces
            DEF StatCache, CacheStays, FreshOf, Ensuring, Removed
<1>8. ASSUME NEW i \in 1..4, pc[p] = Artifacts[i], Go(p, AfterArtifact(i)),
             \A a \in ToSet(Artifacts) : a # Artifacts[i] => build'[a] = build[a],
             build'[Artifacts[i]] = "gone" \/ Kept({Artifacts[i]})[Artifacts[i]] = build'[Artifacts[i]]
      PROVE  CacheStays' /\ FreshOf(p)'
  <2>1. /\ pc'[p] = AfterArtifact(i) /\ build'[Artifacts[i]] \in {"gone", "kept"}
        /\ build'[Artifacts[i]] = "gone" \/ build[Artifacts[i]] # "gone"
    BY <1>1, <1>8, ArtifactPlaces DEF Go, Kept
  <2>2. \/ pc[p] = "CMakeFiles" /\ Artifacts[i] = "CMakeFiles" /\ pc'[p] = "CMakeCache"
        \/ pc[p] = "CMakeCache" /\ Artifacts[i] = "CMakeCache" /\ pc'[p] = "cmake_install"
        \/ pc[p] = "cmake_install" /\ Artifacts[i] = "cmake_install" /\ pc'[p] = "Makefile"
        \/ pc[p] = "Makefile" /\ Artifacts[i] = "Makefile" /\ pc'[p] = "shell"
    <3>1. i \in {1, 2, 3, 4}
      OBVIOUS
    <3>. QED  BY <1>8, <2>1, <3>1 DEF Artifacts, AfterArtifact
  <2>. QED  BY <1>2, <1>8, <2>1, <2>2, ArtifactPlaces
            DEF CacheStays, FreshOf, Ensuring, Removed
<1>9. CASE RemoveArtifact(p)
  BY <1>1, <1>8, <1>9, ArtifactPlaces DEF RemoveArtifact
<1>10. CASE RemovalFails(p)
  <2>1. CASE pc[p] = "stat" /\ build' = Kept(ToSet(Artifacts)) /\ Go(p, "shell")
    <3>1. pc'[p] = "shell" /\ \A a \in ToSet(Artifacts) : build'[a] # "made"
      BY <1>1, <2>1 DEF Go, Kept
    <3>. QED  BY <1>2, <3>1, ArtifactPlaces DEF CacheStays, FreshOf, Ensuring, Removed
  <2>2. CASE \E i \in DOMAIN Artifacts : /\ pc[p] = Artifacts[i] /\ build' = Kept({Artifacts[i]})
                                         /\ Go(p, AfterArtifact(i))
    <3>1. \A i \in 1..4 : \A a \in ToSet(Artifacts) :
            a # Artifacts[i] => Kept({Artifacts[i]})[a] = build[a]
      BY <1>1 DEF Kept
    <3>. QED  BY <1>8, <2>2, <3>1, ArtifactPlaces
  <2>. QED  BY <1>10, <2>1, <2>2 DEF RemovalFails
<1>11. CASE Execute(p)
  <2>1. pc'[p] = "ok" /\ (build' = build \/ build' = AllMade)
    BY <1>1, <1>11 DEF Execute, Go
  <2>. QED  BY <1>2, <2>1, ArtifactPlaces DEF AllMade, CacheStays, FreshOf, Ensuring
<1>. QED  BY <1>5, <1>6, <1>7, <1>9, <1>10, <1>11 DEF CommandStep

LEMMA FreshNext ==
  ASSUME TypeOK, Apart, Given, FreshInv, Next
  PROVE  FreshInv'
<1>1. ASSUME NEW p \in Runs, pc'[p] \in Ended \cup Registering, Active(p),
             \A q \in Runs : q # p => pc'[q] = pc[q],
             UNCHANGED <<ensured, build, fixed>>
      PROVE  FreshInv'
  <2>1. FreshOf(p) /\ Cmd(p)' = Cmd(p) /\ CacheStays'
    BY <1>1 DEF FreshInv, CacheStays, fixed, Cmd
  <2>2. FreshOf(p)'
    BY <1>1, <2>1 DEF FreshOf, Ended, Registering, Mounting, Ensuring
  <2>. QED  BY <1>1, <2>1, <2>2, FreshOne
<1>2. ASSUME NEW p \in Runs, RegisterStep(p) \/ RegisterFault(p),
             UNCHANGED <<ensured, build, fixed>>
      PROVE  FreshInv'
  <2>1. \E place \in Ended \cup Registering : Go(p, place)
    BY <1>2 DEF RegisterStep, RegisterFault, Boot, QueryUser, GetDevices, PutDevices, GroupAdd,
                UserAdd, Ended, Registering, Mounting
  <2>2. pc'[p] \in Ended \cup Registering
    BY <2>1 DEF Go, TypeOK
  <2>3. /\ Active(p) /\ \A q \in Runs : q # p => pc'[q] = pc[q]
    BY <1>2, LaterGoes DEF LaterStep
  <2>. QED  BY <1>1, <1>2, <2>2, <2>3
<1>3. ASSUME NEW p \in Runs, Fault(p) \/ Kill(p), UNCHANGED <<ensured, build, fixed>>
      PROVE  FreshInv'
  <2>1. pc'[p] \in Ended /\ Active(p) /\ \A q \in Runs : q # p => pc'[q] = pc[q]
    BY <1>3, FaultGoes, LaterGoes DEF LaterStep, Go, TypeOK
  <2>. QED  BY <1>1, <1>3, <2>1
<1>4. ASSUME StopContainer, UNCHANGED <<ensured, build, fixed>>
      PROVE  FreshInv'
  <2>1. UNCHANGED <<pc, ensured, build, line, scene>>
    BY <1>4 DEF StopContainer, registering, fixed
  <2>. QED  BY <2>1 DEF FreshInv, CacheStays, FreshOf, Removed, Cmd
<1>5. ASSUME NEW p \in Runs, WriteFails(p), UNCHANGED <<build, fixed>>
      PROVE  FreshInv'
  BY <1>5, FreshBegin DEF BeginStep
<1>6. ASSUME Break, UNCHANGED <<ensured, fixed>> PROVE FreshInv'
  BY <1>2, <1>3, <1>4, <1>5, <1>6, FreshCommand DEF Break
<1>. QED  BY StepCases, FreshInvoke, FreshBegin, FreshCommand, <1>2, <1>6
          DEF BeginStep, fixed

(* Where invocations do not overlap, a cmake that configures starts without *)
(* the cache and the CMakeFiles of an older one, but for what could not be  *)
(* removed, wherever a wrapper before it was killed among its removals.     *)
THEOREM FreshCorrect == Spec => ConfigureFresh
<1>1. Init => FreshInv
  <2>. SUFFICES ASSUME Init PROVE FreshInv
    OBVIOUS
  <2>1. \A p \in Runs : pc[p] = "idle" /\ Cmd(p) # "wrapper"
    BY DEF Init, Cmd, NoLine
  <2>2. build = AllMade
    BY DEF Init
  <2>. QED  BY <2>1, <2>2, ArtifactPlaces DEF AllMade, FreshInv, CacheStays, FreshOf
<1>2. TypeOK /\ Apart /\ Given /\ FreshInv /\ [Next]_vars => FreshInv'
  <2>1. ASSUME FreshInv, UNCHANGED vars PROVE FreshInv'
    BY <2>1 DEF FreshInv, CacheStays, FreshOf, Removed, Cmd, vars
  <2>. QED  BY <2>1, FreshNext
<1>3. FreshInv /\ [Next]_vars =>
        [scene.alone =>
           \A p \in Runs :
               pc[p] = "shell" /\ pc'[p] = "ok" /\ line[p].configures
                   => \A a \in {"CMakeFiles", "CMakeCache"} : build[a] # "made"]_vars
  BY DEF FreshInv, FreshOf, Removed
<1>. QED  BY <1>1, <1>2, <1>3, MainTypeCorrect, ApartCorrect, GivenCorrect, PTL
          DEF Spec, ConfigureFresh

--------------------------------------------------------------------------------
(* The first element of a sequence that fits.                               *)
LEMMA LeastIndex ==
  ASSUME NEW S \in SUBSET Nat, S # {}
  PROVE  Min(S) \in S
<1>1. PICK x \in S : \A y \in S : <<y, x>> \notin OpToRel(<, Nat)
  BY WFMin, NatLessThanWellFounded, Zenon
<1>2. \A y \in S : ~(y < x)
  BY <1>1 DEF OpToRel
<1>3. \A y \in S : x =< y
  BY <1>2
<1>. QED  BY <1>3 DEF Min

(* What SelectInSeq returns, I being the indices of the elements that fit.  *)
LEMMA FirstIndex ==
  ASSUME NEW len \in Nat, NEW I \in SUBSET (1..len), NEW n, n = IF I # {} THEN Min(I) ELSE 0
  PROVE  \/ I = {} /\ n = 0
         \/ n \in I /\ n # 0
<1>1. I \in SUBSET Nat
  OBVIOUS
<1>2. CASE I # {}
  <2>1. n \in I
    BY <1>1, <1>2, LeastIndex
  <2>. QED  BY <2>1
<1>. QED  BY <1>2

LEMMA NamedFramework ==
  ASSUME NEW alias, NEW truth, NamedAfter(alias, truth)
  PROVE  truth.fw = alias.base /\ truth.fw # "none"
  BY DEF NamedAfter

(* What findRelevantImages says of each image of a server.                  *)
LEMMA Described ==
  ASSUME NEW a \in Addrs
  PROVE  LET descs == FindRelevantImages(Catalog[a])
         IN  /\ descs \in Seq({descs[i] : i \in DOMAIN descs})
             /\ DOMAIN descs = DOMAIN Catalog[a]
             /\ \A i \in DOMAIN descs :
                  LET image == Catalog[a][i]
                  IN  \/ descs[i] = NoDesc /\ image.truth.fw = "none"
                      \/ /\ descs[i].fp = image.fp /\ image.truth.fw # "none"
                         /\ descs[i].alias \in AliasType
                         /\ NamedAfter(descs[i].alias, image.truth)
<1>. DEFINE images == Catalog[a]
            descs == FindRelevantImages(images)
<1>1. images \in Seq(ImageType)
  BY MainAssumption
<1>2. DOMAIN descs = DOMAIN images /\ DOMAIN images = 1..Len(images)
  BY <1>1 DEF FindRelevantImages
<1>3. descs \in Seq({descs[i] : i \in DOMAIN descs})
  <2>1. /\ descs = [i \in 1..Len(images) |-> descs[i]]
        /\ Len(images) \in Nat
    BY <1>1, <1>2 DEF FindRelevantImages
  <2>2. descs \in [1..Len(images) -> {descs[i] : i \in DOMAIN descs}]
    BY <1>2, <2>1
  <2>. QED  BY <2>1, <2>2
<1>4. ASSUME NEW i \in DOMAIN images
      PROVE  \/ descs[i] = NoDesc /\ images[i].truth.fw = "none"
             \/ /\ descs[i].fp = images[i].fp /\ images[i].truth.fw # "none"
                /\ descs[i].alias \in AliasType
                /\ NamedAfter(descs[i].alias, images[i].truth)
  <2>. DEFINE aliases == images[i].aliases
              suited == {j \in DOMAIN aliases : Suitable(aliases[j])}
              least == IF suited # {} THEN Min(suited) ELSE 0
  <2>1. aliases \in Seq(AliasType) /\ DOMAIN aliases = 1..Len(aliases)
    <3>1. images[i] \in ImageType
      BY <1>1
    <3>. QED  BY <3>1 DEF ImageType
  <2>2. descs[i] = IF least = 0 THEN NoDesc ELSE [alias |-> aliases[least], fp |-> images[i].fp]
    BY <2>1, Zenon DEF FindRelevantImages, SelectInSeq
  <2>3. /\ suited = {} => images[i].truth.fw = "none"
        /\ \A j \in suited : NamedAfter(aliases[j], images[i].truth)
    BY NamesAssumption DEF Suitable
  <2>4. \/ suited = {} /\ least = 0
        \/ least \in suited /\ least # 0
    <3>1. Len(aliases) \in Nat /\ suited \in SUBSET (1..Len(aliases))
      BY <2>1
    <3>. HIDE DEF suited
    <3>. QED  BY <3>1, FirstIndex
  <2>5. CASE suited = {}
    BY <2>2, <2>3, <2>4, <2>5
  <2>6. CASE suited # {}
    <3>1. PICK n \in suited : descs[i] = [alias |-> aliases[n], fp |-> images[i].fp]
      BY <2>2, <2>4, <2>6
    <3>2. aliases[n] \in AliasType /\ NamedAfter(aliases[n], images[i].truth)
      BY <2>1, <2>3
    <3>3. images[i].truth.fw # "none"
      BY <3>2, NamedFramework
    <3>. QED  BY <3>1, <3>2, <3>3
  <2>. QED  BY <2>5, <2>6
<1>. QED  BY <1>2, <1>3, <1>4

(* What create makes of the alias of an image, and of a fingerprint.        *)
Agrees(truth, request) ==
    truth = [fw |-> request.fw, minor |-> FALSE, arch |-> request.arch,
             updates |-> request.updates]

LEMMA ParsedTruth ==
  ASSUME NEW alias \in AliasType, NEW truth, NamedAfter(alias, truth)
  PROVE  LET request == ParseAlias(alias)
         IN  \/ request.end = "ok" /\ Agrees(truth, request)
             \/ request.end = "panic" /\ truth.minor = TRUE
             \/ request.end = "error" /\ truth.fw \in {"none", "odd"}
<1>1. alias.minor \in BOOLEAN
  BY DEF AliasType
<1>2. CASE Matches(alias, FALSE)
  <2>1. alias.minor = FALSE /\ ~Matches(alias, TRUE)
    BY <1>2 DEF Matches
  <2>. QED  BY <1>2, <2>1 DEF ParseAlias, NamedAfter, Agrees
<1>3. CASE Matches(alias, TRUE)
  <2>1. alias.minor = TRUE /\ ~Matches(alias, FALSE)
    BY <1>3 DEF Matches
  <2>. QED  BY <1>3, <2>1 DEF ParseAlias, NamedAfter, Failed
<1>4. CASE ~Matches(alias, FALSE) /\ ~Matches(alias, TRUE)
  <2>1. alias.base = "odd"
    BY <1>1, <1>4 DEF Matches, NamedAfter
  <2>. QED  BY <1>4, <2>1 DEF ParseAlias, NamedAfter, Failed
<1>. QED  BY <1>2, <1>3, <1>4

LEMMA RequestOf ==
  \A a \in Addrs : \A fp :
    /\ Request(Catalog[a], fp).end = "ok" =>
         \E i \in DOMAIN Catalog[a] :
             Catalog[a][i].fp = fp /\ Agrees(Catalog[a][i].truth, Request(Catalog[a], fp))
    /\ Request(Catalog[a], fp).end = "panic" =>
         \E i \in DOMAIN Catalog[a] : Catalog[a][i].fp = fp /\ Catalog[a][i].truth.minor = TRUE
    /\ Request(Catalog[a], fp).end = "error" =>
         \A i \in DOMAIN Catalog[a] :
             Catalog[a][i].fp = fp => Catalog[a][i].truth.fw \in {"none", "odd"}
<1>. TAKE a \in Addrs
<1>. TAKE fp
<1>. DEFINE images == Catalog[a]
            descs == FindRelevantImages(images)
            found == {i \in 1..Len(descs) : descs[i].fp = fp}
            n == IF found # {} THEN Min(found) ELSE 0
            request == Request(images, fp)
            named == {i \in DOMAIN images : images[i].fp = fp}
<1>1. /\ descs \in Seq({descs[i] : i \in DOMAIN descs}) /\ DOMAIN descs = DOMAIN images
      /\ \A i \in DOMAIN descs :
           \/ descs[i] = NoDesc /\ images[i].truth.fw = "none"
           \/ /\ descs[i].fp = images[i].fp /\ images[i].truth.fw # "none"
              /\ descs[i].alias \in AliasType
              /\ NamedAfter(descs[i].alias, images[i].truth)
  BY Described
<1>2. \A i \in DOMAIN images : images[i].fp # "none" /\ \A k \in named : images[i].fp = fp => k = i
  <2>1. images \in Seq(ImageType)
    BY MainAssumption
  <2>2. ASSUME NEW i \in DOMAIN images PROVE images[i].fp # "none"
    <3>1. images[i] \in ImageType
      BY <2>1
    <3>. QED  BY <3>1 DEF ImageType
  <2>. QED  BY <2>2, NamesAssumption
<1>3. \/ n = 0 /\ \A i \in DOMAIN descs : descs[i].fp # fp
      \/ n \in DOMAIN descs /\ n # 0 /\ descs[n].fp = fp
  <2>1. Len(descs) \in Nat /\ DOMAIN descs = 1..Len(descs)
    BY <1>1
  <2>2. \/ found = {} /\ n = 0
        \/ n \in found /\ n # 0
    BY <2>1, FirstIndex
  <2>. QED  BY <2>1, <2>2
<1>4. request = IF n = 0 THEN Failed("error") ELSE ParseAlias(descs[n].alias)
  BY Zenon DEF Request, SelectInSeq
<1>5. NoDesc.fp = "none" /\ NoDesc.alias.base = "odd"
  BY DEF NoDesc
<1>6. CASE n = 0
  <2>1. request.end = "error"
    BY <1>4, <1>6 DEF Failed
  <2>2. \A i \in named : descs[i].fp # fp /\ images[i].fp = fp
    BY <1>1, <1>3, <1>6
  <2>. QED  BY <1>1, <2>1, <2>2
<1>7. CASE n # 0 /\ descs[n] = NoDesc
  <2>1. request.end = "error"
    <3>1. ~Matches(NoDesc.alias, FALSE) /\ ~Matches(NoDesc.alias, TRUE)
      BY <1>5 DEF Matches
    <3>. QED  BY <1>4, <1>7, <3>1 DEF ParseAlias, Failed
  <2>2. named = {}
    BY <1>2, <1>3, <1>5, <1>7
  <2>. QED  BY <2>1, <2>2
<1>8. CASE n # 0 /\ descs[n] # NoDesc
  <2>1. n \in named /\ \A i \in named : i = n
    BY <1>1, <1>2, <1>3, <1>8
  <2>2. /\ request = ParseAlias(descs[n].alias) /\ descs[n].alias \in AliasType
        /\ NamedAfter(descs[n].alias, images[n].truth)
    BY <1>1, <1>3, <1>4, <1>8
  <2>. QED  BY <2>1, <2>2, ParsedTruth
<1>. QED  BY <1>6, <1>7, <1>8

--------------------------------------------------------------------------------
(* Who connects has been through EnsureLXDInitializedOrDie (or is a wrapper)*)
(* and only create sends a request to make a container.                     *)
ConnectedInv ==
    \A p \in Runs : /\ pc[p] \in Connected => ensured[p]
                    /\ pc[p] \in {"init", "wait"} => Cmd(p) = "create"

LEMMA ConnectedNext ==
  ASSUME TypeOK, ConnectedInv, Next
  PROVE  ConnectedInv'
<1>1. ASSUME NEW p \in Runs, Invoke(p) PROVE ConnectedInv'
  BY <1>1, InvokeBegins DEF ConnectedInv, Connected, Cmd
<1>2. ASSUME NEW p \in Runs, BeginStep(p), UNCHANGED fixed PROVE ConnectedInv'
  <2>1. /\ pc \in [Runs -> Places] /\ \A q \in Runs : q # p => pc'[q] = pc[q] /\ Cmd(q)' = Cmd(q)
        /\ ensured \in [Runs -> BOOLEAN]
    BY <1>2, BeginGoes, OneGoes DEF Elsewhere, TypeOK, fixed, Cmd
  <2>2. \A q \in Runs : q # p => ensured'[q] = ensured[q]
    BY <1>2, <2>1 DEF BeginStep, StartupStep, LoadConfig, FindOrGenCert, GenCert, CheckRemote,
                      LxcLoad, LxcRemoteRemove, LxcRemoteAdd, WriteFails
  <2>3. pc'[p] \notin {"query", "init", "wait"} /\ (pc'[p] = "client" => ensured'[p])
    BY <1>2, <2>1, RemotePlaces
       DEF BeginStep, StartupStep, LoadConfig, FindOrGenCert, GenCert, CheckRemote, LxcLoad,
           LxcRemoteRemove, LxcRemoteAdd, WriteFails, Go, Caller
  <2>. QED  BY <2>1, <2>2, <2>3 DEF ConnectedInv, Connected
<1>3. ASSUME NEW p \in Runs, LaterStep(p), UNCHANGED <<ensured, fixed>> PROVE ConnectedInv'
  <2>1. /\ \A q \in Runs : q # p => pc'[q] = pc[q]
        /\ \A q \in Runs : Cmd(q)' = Cmd(q) /\ ensured'[q] = ensured[q]
        /\ pc'[p] \in Connected => pc[p] \in Connected
    BY <1>3, LaterGoes DEF fixed, Cmd, Ended, Connected
  <2>2. pc'[p] \in {"init", "wait"} => Cmd(p) = "create"
    <3>1. CASE CommandStep(p)
      BY <1>3, <3>1, FlagsPlaces, ArtifactPlaces
         DEF CommandStep, Lookup, NewClient, Query, InitRequest, Event, Made, StatCache,
             RemoveArtifact, Execute, Go, TypeOK, ConnectedInv
    <3>2. CASE RegisterStep(p) \/ RegisterFault(p)
      <4>1. \E place : Go(p, place) /\ place \notin Connected
        BY <3>2, RegisterLater
      <4>. QED  BY <4>1 DEF Go, TypeOK, Connected
    <3>3. CASE Fault(p) \/ Kill(p)
      BY <3>3, FaultGoes DEF Go, TypeOK, Ended
    <3>4. CASE RemovalFails(p)
      BY <3>4, RemovalFailsGoes, ArtifactPlaces DEF Go, TypeOK
    <3>. QED  BY <1>3, <3>1, <3>2, <3>3, <3>4 DEF LaterStep
  <2>. QED  BY <2>1, <2>2 DEF ConnectedInv
<1>4. ASSUME UNCHANGED <<pc, ensured, fixed>> PROVE ConnectedInv'
  BY <1>4 DEF ConnectedInv, Cmd, fixed
<1>. QED  BY FileCases, <1>1, <1>2, <1>3, <1>4

LEMMA ConnectedCorrect == Spec => []ConnectedInv
<1>1. Init => ConnectedInv
  BY DEF Init, ConnectedInv, Connected
<1>2. TypeOK /\ ConnectedInv /\ [Next]_vars => ConnectedInv'
  <2>1. ASSUME ConnectedInv, UNCHANGED vars PROVE ConnectedInv'
    BY <2>1 DEF ConnectedInv, Cmd, vars
  <2>. QED  BY <2>1, ConnectedNext
<1>. QED  BY <1>1, <1>2, MainTypeCorrect, PTL DEF Spec

(* The inductive invariant of RequestTrue: what create has asked for and    *)
(* images has shown is of the server that the invocation wants.             *)
AnswerOf(p) ==
    /\ pc[p] = "idle" => asked[p] = NotAsked /\ shown[p] = <<>>
    /\ asked[p] \in {NotAsked, Request(Catalog[want[p]], line[p].fp)}
    /\ Cmd(p) = "images" => shown[p] \in {<<>>, FindRelevantImages(Catalog[want[p]])}

AnswerInv ==
    /\ DOMAIN asked = Runs /\ DOMAIN shown = Runs
    /\ scene.alone \/ FirstRuns => \A p \in Runs : AnswerOf(p)

LEMMA AnswerKept ==
  ASSUME AnswerInv, UNCHANGED <<asked, shown, fixed>>,
         \A q \in Runs : (pc'[q] = "idle") <=> (pc[q] = "idle")
  PROVE  AnswerInv'
<1>1. FirstRuns' = FirstRuns /\ scene' = scene /\ \A q \in Runs : Cmd(q)' = Cmd(q)
  BY DEF FirstRuns, fixed, Cmd
<1>2. ASSUME NEW q \in Runs, AnswerOf(q) PROVE AnswerOf(q)'
  BY <1>1, <1>2 DEF AnswerOf, fixed
<1>. QED  BY <1>1, <1>2 DEF AnswerInv

LEMMA AnswerInvoke ==
  ASSUME TypeOK, AnswerInv, NEW p \in Runs, Invoke(p)
  PROVE  AnswerInv'
<1>1. FirstRuns' = FirstRuns /\ scene' = scene /\ asked' = asked /\ shown' = shown
  BY InvokeBegins DEF FirstRuns, Invoke, output
<1>2. ASSUME NEW q \in Runs, AnswerOf(q) PROVE AnswerOf(q)'
  <2>1. CASE q = p
    BY <1>1, <1>2, <2>1, InvokeBegins DEF AnswerOf
  <2>2. CASE q # p
    BY <1>1, <1>2, <2>2, InvokeBegins DEF AnswerOf, Cmd
  <2>. QED  BY <2>1, <2>2
<1>. QED  BY <1>1, <1>2 DEF AnswerInv

(* The server that is asked is the one that is wanted.                      *)
LEMMA AnswerQuery ==
  ASSUME TypeOK, EnsuredRemote, ConnectedInv, AnswerInv, NEW p \in Runs, Query(p),
         UNCHANGED fixed
  PROVE  AnswerInv'
<1>1. FirstRuns' = FirstRuns /\ scene' = scene /\ \A q \in Runs : Cmd(q)' = Cmd(q)
  BY DEF FirstRuns, fixed, Cmd
<1>2. pc[p] = "query" /\ Active(p) /\ pc'[p] # "idle" /\ \A q \in Runs : q # p => pc'[q] = pc[q]
  BY LaterGoes DEF LaterStep, CommandStep, Query
<1>3. ASSUME scene.alone \/ FirstRuns, Cmd(p) # "wrapper" PROVE conf[p] = want[p]
  BY <1>2, <1>3 DEF EnsuredRemote, ConnectedInv, Connected
<1>4. /\ DOMAIN asked' = Runs /\ DOMAIN shown' = Runs
      /\ \A q \in Runs : q # p => asked'[q] = asked[q] /\ shown'[q] = shown[q]
  BY DEF Query, AnswerInv
<1>5. ASSUME scene.alone \/ FirstRuns, AnswerOf(p) PROVE AnswerOf(p)'
  <2>1. \/ asked'[p] = asked[p]
        \/ Cmd(p) # "wrapper" /\ asked'[p] = Request(Catalog[conf[p]], line[p].fp)
    BY DEF Query, AnswerInv
  <2>2. \/ shown'[p] = shown[p]
        \/ shown'[p] = FindRelevantImages(Catalog[conf[p]])
        \/ Cmd(p) # "images"
    BY DEF Query, AnswerInv
  <2>3. asked'[p] \in {NotAsked, Request(Catalog[want[p]], line[p].fp)}
    BY <1>3, <1>5, <2>1 DEF AnswerOf
  <2>4. Cmd(p) = "images" => shown'[p] \in {<<>>, FindRelevantImages(Catalog[want[p]])}
    BY <1>3, <1>5, <2>2 DEF AnswerOf
  <2>. QED  BY <1>1, <1>2, <2>3, <2>4 DEF AnswerOf, fixed
<1>6. ASSUME NEW q \in Runs, q # p, AnswerOf(q) PROVE AnswerOf(q)'
  BY <1>1, <1>2, <1>4, <1>6 DEF AnswerOf, fixed
<1>. QED  BY <1>1, <1>4, <1>5, <1>6 DEF AnswerInv

LEMMA AnswerNext ==
  ASSUME TypeOK, EnsuredRemote, ConnectedInv, AnswerInv, Next
  PROVE  AnswerInv'
<1>1. ASSUME NEW p \in Runs, BeginStep(p), UNCHANGED <<output, fixed>> PROVE AnswerInv'
  BY <1>1, BeginGoes, OneGoes, AnswerKept DEF Elsewhere, output
<1>2. ASSUME NEW p \in Runs, CommandStep(p), UNCHANGED fixed PROVE AnswerInv'
  <2>1. CASE Query(p)
    BY <1>2, <2>1, AnswerQuery
  <2>2. CASE ~Query(p)
    <3>1. asked' = asked /\ shown' = shown
      BY <1>2, <2>2 DEF CommandStep, Lookup, NewClient, InitRequest, Event, Made, StatCache,
                        RemoveArtifact, Execute
    <3>. QED  BY <1>2, <3>1, CommandGoes, OneGoes, AnswerKept DEF Elsewhere
  <2>. QED  BY <2>1, <2>2
<1>3. ASSUME NEW p \in Runs, UNCHANGED <<output, fixed>>,
             RegisterStep(p) \/ RegisterFault(p) \/ RemovalFails(p) \/ Fault(p) \/ Kill(p)
      PROVE  AnswerInv'
  <2>1. \A q \in Runs : (pc'[q] = "idle") <=> (pc[q] = "idle")
    BY <1>3, LaterGoes DEF LaterStep, Active
  <2>. QED  BY <1>3, <2>1, AnswerKept DEF output
<1>4. ASSUME UNCHANGED <<pc, output, fixed>> PROVE AnswerInv'
  BY <1>4, AnswerKept DEF output
<1>5. ASSUME Break, UNCHANGED <<output, fixed>> PROVE AnswerInv'
  BY <1>1, <1>3, <1>4, <1>5 DEF Break, BeginStep, StopContainer, registering
<1>. QED  BY StepCases, AnswerInvoke, <1>1, <1>2, <1>3, <1>5 DEF BeginStep

(* What create asks for is what the image with its fingerprint was named    *)
(* after, and images shows the SDK images of the server that is wanted,     *)
(* whatever images the servers have.                                        *)
THEOREM RequestCorrect == Spec => []RequestTrue
<1>1. Init => AnswerInv
  BY DEF Init, AnswerInv, AnswerOf
<1>2. TypeOK /\ EnsuredRemote /\ ConnectedInv /\ AnswerInv /\ [Next]_vars => AnswerInv'
  <2>1. ASSUME AnswerInv, UNCHANGED vars PROVE AnswerInv'
    BY <2>1 DEF AnswerInv, AnswerOf, FirstRuns, Cmd, vars, output
  <2>. QED  BY <2>1, AnswerNext
<1>3. TypeOK /\ Given /\ AnswerInv => RequestTrue
  <2>. SUFFICES ASSUME TypeOK, Given, AnswerInv, scene.alone \/ FirstRuns, NEW p \in Runs
                PROVE  /\ asked[p].end = "ok" =>
                            \E i \in Named(want[p], p) :
                                Truth(want[p], i) =
                                  [fw |-> asked[p].fw, minor |-> FALSE,
                                   arch |-> asked[p].arch, updates |-> asked[p].updates]
                       /\ asked[p].end = "error" =>
                            \A i \in Named(want[p], p) : Truth(want[p], i).fw \in {"none", "odd"}
                       /\ Cmd(p) = "images" => \A i \in DOMAIN shown[p] :
                            (shown[p][i].fp = Catalog[want[p]][i].fp)
                              <=> (Truth(want[p], i).fw # "none")
    BY DEF RequestTrue
  <2>1. AnswerOf(p)
    BY DEF AnswerInv
  <2>2. CASE pc[p] = "idle"
    BY <2>1, <2>2 DEF AnswerOf, NotAsked, Failed
  <2>3. CASE pc[p] # "idle"
    <3>1. want[p] \in Addrs
      BY <2>3, MainAssumption DEF TypeOK, Given, IsScenario
    <3>2. asked[p].end = "none" \/ asked[p] = Request(Catalog[want[p]], line[p].fp)
      BY <2>1 DEF AnswerOf, NotAsked, Failed
    <3>3. /\ asked[p].end = "ok" =>
               \E i \in Named(want[p], p) :
                   Truth(want[p], i) =
                     [fw |-> asked[p].fw, minor |-> FALSE,
                      arch |-> asked[p].arch, updates |-> asked[p].updates]
          /\ asked[p].end = "error" =>
               \A i \in Named(want[p], p) : Truth(want[p], i).fw \in {"none", "odd"}
      <4>1. CASE asked[p].end = "none"
        BY <4>1
      <4>2. CASE asked[p] = Request(Catalog[want[p]], line[p].fp)
        <5>1. /\ asked[p].end = "ok" =>
                   \E i \in Named(want[p], p) : Agrees(Truth(want[p], i), asked[p])
              /\ asked[p].end = "error" =>
                   \A i \in Named(want[p], p) : Truth(want[p], i).fw \in {"none", "odd"}
          BY <3>1, <4>2, RequestOf DEF Named, Truth
        <5>. QED  BY <5>1 DEF Agrees
      <4>. QED  BY <3>2, <4>1, <4>2
    <3>4. ASSUME Cmd(p) = "images", NEW i \in DOMAIN shown[p]
          PROVE  (shown[p][i].fp = Catalog[want[p]][i].fp) <=> (Truth(want[p], i).fw # "none")
      <4>1. shown[p] = FindRelevantImages(Catalog[want[p]])
        BY <2>1, <3>4 DEF AnswerOf
      <4>2. Catalog[want[p]] \in Seq(ImageType) /\ i \in DOMAIN Catalog[want[p]]
        BY <3>1, <3>4, <4>1, Described, MainAssumption
      <4>3. Catalog[want[p]][i].fp # "none"
        <5>1. Catalog[want[p]][i] \in ImageType
          BY <4>2
        <5>. QED  BY <5>1 DEF ImageType
      <4>4. \/ shown[p][i] = NoDesc /\ Catalog[want[p]][i].truth.fw = "none"
            \/ /\ shown[p][i].fp = Catalog[want[p]][i].fp
               /\ Catalog[want[p]][i].truth.fw # "none"
        BY <3>1, <3>4, <4>1, Described
      <4>5. NoDesc.fp = "none"
        BY DEF NoDesc
      <4>. QED  BY <4>3, <4>4, <4>5 DEF Truth
    <3>. QED  BY <3>3, <3>4
  <2>. QED  BY <2>2, <2>3
<1>. QED  BY <1>1, <1>2, <1>3, MainTypeCorrect, GivenCorrect, RemoteCorrect, ConnectedCorrect, PTL
          DEF Spec

--------------------------------------------------------------------------------
(* The inductive invariant of PanicsKnown: a panic is explained by what does*)
(* not change any more when the invocation has ended, and create only asks  *)
(* a server it knows.                                                       *)
PanicOf(p) ==
    CASE Cmd(p) = "create" ->
            \/ \E i \in Named(conf[p], p) : Truth(conf[p], i).minor
            \/ \E e \in scene.events :
                 e.own /\ e.metadata /\ ~e.final /\ e.progress = "none"
      [] Cmd(p) = "register" -> {line[p].sudo, line[p].pkexec} = {"none"}
      [] OTHER -> FALSE

PanicInv ==
    \A p \in Runs : /\ pc[p] = "panic" => PanicOf(p)
                    /\ pc[p] = "query" /\ Cmd(p) = "create" => conf[p] # "none"

LEMMA PanicQuery ==
  ASSUME TypeOK, PanicInv, NEW p \in Runs, Query(p), pc'[p] = "panic"
  PROVE  PanicOf(p)
<1>1. pc \in [Runs -> Places] /\ conf[p] \in Addrs \cup {"none"}
  BY DEF TypeOK
<1>2. /\ pc[p] = "query" /\ Cmd(p) = "create"
      /\ Request(Catalog[conf[p]], line[p].fp).end = "panic"
  BY <1>1 DEF Query, Go
<1>3. conf[p] \in Addrs
  BY <1>1, <1>2 DEF PanicInv
<1>4. \E i \in Named(conf[p], p) : Truth(conf[p], i).minor
  <2>1. \E i \in DOMAIN Catalog[conf[p]] :
          Catalog[conf[p]][i].fp = line[p].fp /\ Catalog[conf[p]][i].truth.minor
    BY <1>2, <1>3, RequestOf, SMTT(30)
  <2>. QED  BY <2>1 DEF Named, Truth
<1>. QED  BY <1>2, <1>4 DEF PanicOf

LEMMA PanicCommand ==
  ASSUME TypeOK, ConnectedInv, PanicInv, NEW p \in Runs, CommandStep(p), pc'[p] = "panic"
  PROVE  PanicOf(p)
<1>1. pc \in [Runs -> Places]
  BY DEF TypeOK
<1>2. CASE Lookup(p)
  <2>1. Cmd(p) = "register" /\ Flags(line[p]) = "panic"
    BY <1>1, <1>2 DEF Lookup, Go
  <2>2. {line[p].sudo, line[p].pkexec} = {"none"}
    BY <2>1 DEF Flags, UserFromEnv
  <2>. QED  BY <2>1, <2>2 DEF PanicOf
<1>3. CASE Query(p)
  BY <1>3, PanicQuery
<1>4. CASE Event(p)
  <2>1. PICK e \in scene.events : Progress(e) = "panic"
    BY <1>1, <1>4 DEF Event, Go
  <2>2. e.own /\ e.metadata /\ ~e.final /\ e.progress = "none"
    BY <2>1 DEF Progress
  <2>3. Cmd(p) = "create"
    BY <1>4 DEF Event, ConnectedInv
  <2>. QED  BY <2>2, <2>3 DEF PanicOf
<1>5. ~(NewClient(p) \/ InitRequest(p) \/ Made(p) \/ StatCache(p) \/ RemoveArtifact(p) \/ Execute(p))
  BY <1>1, ArtifactPlaces DEF NewClient, InitRequest, Made, StatCache, RemoveArtifact, Execute, Go
<1>. QED  BY <1>2, <1>3, <1>4, <1>5 DEF CommandStep

(* A step of one invocation that has not ended.                             *)
LEMMA PanicOne ==
  ASSUME TypeOK, PanicInv, NEW p \in Runs, UNCHANGED fixed,
         \A q \in Runs : q # p => pc'[q] = pc[q] /\ conf'[q] = conf[q],
         pc'[p] = "panic" => PanicOf(p) /\ conf'[p] = conf[p],
         pc'[p] = "query" /\ Cmd(p) = "create" => conf'[p] # "none"
  PROVE  PanicInv'
<1>1. \A q \in Runs : conf'[q] = conf[q] => (PanicOf(q) => PanicOf(q)')
  BY DEF PanicOf, Named, Truth, Cmd, fixed
<1>2. \A q \in Runs : Cmd(q)' = Cmd(q)
  BY DEF Cmd, fixed
<1>. QED  BY <1>1, <1>2 DEF PanicInv

LEMMA PanicNext ==
  ASSUME TypeOK, ConnectedInv, PanicInv, Next
  PROVE  PanicInv'
<1>0. pc \in [Runs -> Places]
  BY DEF TypeOK
<1>1. ASSUME NEW p \in Runs, Invoke(p) PROVE PanicInv'
  <2>1. \A q \in Runs : q # p => Cmd(q)' = Cmd(q) /\ (PanicOf(q) => PanicOf(q)')
    BY <1>1, InvokeBegins DEF PanicOf, Named, Truth, Cmd
  <2>. QED  BY <1>1, <2>1, InvokeBegins DEF PanicInv
<1>2. ASSUME NEW p \in Runs, BeginStep(p), UNCHANGED fixed PROVE PanicInv'
  <2>1. \A q \in Runs : q # p => pc'[q] = pc[q] /\ conf'[q] = conf[q]
    BY <1>2, <1>0 DEF TypeOK, BeginStep, StartupStep, LoadConfig, FindOrGenCert, GenCert,
                      CheckRemote, LxcLoad, LxcRemoteRemove, LxcRemoteAdd, WriteFails, Go
  <2>2. pc'[p] \notin {"panic", "query"}
    BY <1>0, <1>2, RemotePlaces
       DEF BeginStep, StartupStep, LoadConfig, FindOrGenCert, GenCert, CheckRemote, LxcLoad,
           LxcRemoteRemove, LxcRemoteAdd, WriteFails, Go, Caller
  <2>. QED  BY <1>2, <2>1, <2>2, PanicOne
<1>3. ASSUME NEW p \in Runs, LaterStep(p), UNCHANGED <<conf, fixed>> PROVE PanicInv'
  <2>1. \A q \in Runs : q # p => pc'[q] = pc[q]
    BY <1>3, LaterGoes
  <2>2. pc'[p] = "panic" => PanicOf(p)
    <3>1. RegisterStep(p) \/ RegisterFault(p) => pc'[p] # "panic"
      BY <1>0 DEF RegisterStep, RegisterFault, Boot, QueryUser, GetDevices, PutDevices, GroupAdd,
                  UserAdd, Go
    <3>2. Fault(p) \/ Kill(p) => pc'[p] # "panic"
      BY <1>0, FaultPlaces DEF Fault, Kill, Go
    <3>3. RemovalFails(p) => pc'[p] # "panic"
      BY <1>0, RemovalFailsGoes, ArtifactPlaces DEF Go
    <3>. QED  BY <1>3, <3>1, <3>2, <3>3, PanicCommand DEF LaterStep
  <2>3. pc'[p] = "query" /\ Cmd(p) = "create" => conf[p] # "none"
    <3>1. CASE CommandStep(p)
      BY <1>0, <3>1, FlagsPlaces, ArtifactPlaces, RequestEnds
         DEF CommandStep, Lookup, NewClient, Query, InitRequest, Event, Made, StatCache,
             RemoveArtifact, Execute, Go
    <3>2. CASE RegisterStep(p) \/ RegisterFault(p)
      <4>1. \E place : Go(p, place) /\ place \notin Connected
        BY <3>2, RegisterLater
      <4>. QED  BY <1>0, <4>1 DEF Go, Connected
    <3>3. CASE Fault(p) \/ Kill(p)
      BY <1>0, <3>3, FaultGoes DEF Go, Ended
    <3>4. CASE RemovalFails(p)
      BY <1>0, <3>4, RemovalFailsGoes, ArtifactPlaces DEF Go
    <3>. QED  BY <1>3, <3>1, <3>2, <3>3, <3>4 DEF LaterStep
  <2>. QED  BY <1>3, <2>1, <2>2, <2>3, PanicOne
<1>4. ASSUME UNCHANGED <<pc, conf, fixed>> PROVE PanicInv'
  BY <1>4 DEF PanicInv, PanicOf, Named, Truth, Cmd, fixed
<1>. QED  BY FileCases, <1>1, <1>2, <1>3, <1>4

(* Whatever overlaps and whatever images and events there are: only an      *)
(* image with a minor version, an event of create's own operation without   *)
(* download_progress and a register without a user bring a command down.    *)
THEOREM PanicsCorrect == Spec => []PanicsKnown
<1>1. Init => PanicInv
  BY DEF Init, PanicInv
<1>2. TypeOK /\ ConnectedInv /\ PanicInv /\ [Next]_vars => PanicInv'
  <2>1. ASSUME PanicInv, UNCHANGED vars PROVE PanicInv'
    BY <2>1 DEF PanicInv, PanicOf, Named, Truth, Cmd, vars
  <2>. QED  BY <2>1, PanicNext
<1>3. PanicInv => PanicsKnown
  BY DEF PanicInv, PanicOf, PanicsKnown
<1>. QED  BY <1>1, <1>2, <1>3, MainTypeCorrect, ConnectedCorrect, PTL DEF Spec
================================================================================
