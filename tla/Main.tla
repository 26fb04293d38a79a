---------------------------------- MODULE Main ---------------------------------
(****************************************************************************)
(* usdk-target from its main on, and usdk-wrapper up to its shell: the      *)
(* common beginning (Startup), and then images, create up to the request    *)
(* that makes the container (what follows it is Target's), register         *)
(* (Accounts), exec, maint, upgrade, list, and an unknown command.          *)
(****************************************************************************)
EXTENDS Accounts, Images, Quoting

CONSTANTS
    Scenarios,  \* the files to begin with, and which invocations there are
    Menu(_),    \* the command lines that are given, by the name of a menu
    Catalog     \* the images of each server

VARIABLES
    asked,      \* what create sends to the LXD server
    shown,      \* what images or list print
    ran,        \* what the shell of the container ran
    build       \* the artifacts of cmake in the working directory: "made",
                \* "gone", or "kept", since to remove it has failed

output == <<asked, shown, ran>>
vars == <<files, want, pc, ensured, conf, lxc, faults, scene, line, output, build,
          guest, registering>>

Commands == {"images", "create", "exec", "upgrade", "list", "register",
             "unknown", "wrapper"}

NoLine == [cmd |-> "none"]
NoRun == [whole |-> FALSE]

(* Mutant of Artifacts: the cache goes first.                               *)
ArtifactsCacheFirst == <<"CMakeCache", "CMakeFiles", "cmake_install", "Makefile">>

(* In the order in which usdk-wrapper removes them.                         *)
Artifacts == <<"CMakeFiles", "CMakeCache", "cmake_install", "Makefile">>
AfterArtifact(i) == IF i = Len(Artifacts) THEN "shell" ELSE Artifacts[i + 1]

(* A cmake has made them; those of S that are there are kept.               *)
AllMade == [a \in ToSet(Artifacts) |-> "made"]
Kept(S) == [a \in ToSet(Artifacts) |->
              IF a \in S /\ build[a] # "gone" THEN "kept" ELSE build[a]]

(* The empty request, while nothing was sent.                               *)
NotAsked == Failed("none")

(* A scenario: alone says that invocations do not overlap; runs are those   *)
(* that are given one of the lines.  The key is written after its           *)
(* certificate, so it is not there alone.  Only usdk-wrapper looks whether  *)
(* what it runs is a cmake that configures.                                 *)
IsScenario(s) ==
    /\ s.remote \in Addrs \cup {"none"}
    /\ s.crt \in {"old", "none"} /\ s.key \in {"none", s.crt}
    /\ s.alone \in BOOLEAN /\ s.runs \subseteq Runs
    /\ \A l \in Menu(s.menu) :
         /\ l.cmd \in Commands /\ l.want \in Addrs
         /\ l.configures => l.cmd = "wrapper"
    /\ \A u \in DOMAIN s.users : s.users[u].uid \in Nat /\ s.users[u].gid \in Nat
    /\ \A i \in DOMAIN s.groups : i \in Nat /\ s.groups[i].gid \in Nat
    /\ \A a \in s.guest.accounts : a.by = "nobody"

ASSUME MainAssumption ==
    /\ \A s \in Scenarios : IsScenario(s)
    /\ Catalog \in [Addrs -> Seq(ImageType)]

Init ==
    /\ scene \in Scenarios
    /\ remote = scene.remote /\ crt = scene.crt /\ key = scene.key
    /\ want = [p \in Runs |-> "none"]
    /\ pc = [p \in Runs |-> "idle"]
    /\ ensured = [p \in Runs |-> FALSE]
    /\ conf = [p \in Runs |-> "none"]
    /\ lxc = [p \in Runs |-> "unread"]
    /\ faults = 0
    /\ line = [p \in Runs |-> NoLine]
    /\ asked = [p \in Runs |-> NotAsked]
    /\ shown = [p \in Runs |-> <<>>]
    /\ ran = [p \in Runs |-> NoRun]
    /\ build = AllMade
    /\ groups = scene.guest.groups /\ accounts = scene.guest.accounts
    /\ homes = {} /\ running = FALSE
    /\ seen = [p \in Runs |-> {}]
    /\ left = [p \in Runs |-> {}]
    /\ suppl = [p \in Runs |-> {}]

Active(p) == pc[p] \notin Ended \cup {"idle"}
Quiet == \A p \in Runs : ~Active(p)

(* usdk-wrapper calls GetConfigOrDie only.                                  *)
Invoke(p) ==
    /\ pc[p] = "idle" /\ p \in scene.runs
    /\ scene.alone => Quiet
    /\ \E l \in Menu(scene.menu) :
         /\ line' = [line EXCEPT ![p] = l]
         /\ want' = [want EXCEPT ![p] = l.want]
         /\ ensured' = [ensured EXCEPT ![p] = l.cmd = "wrapper"]
    /\ Go(p, "load")
    /\ UNCHANGED <<files, conf, lxc, faults, scene, output, build, guest, registering>>

--------------------------------------------------------------------------------
Cmd(p) == line[p].cmd

(* run looks the command up and reads its flags; exec and upgrade need no   *)
(* configuration.                                                           *)
Lookup(p) ==
    /\ pc[p] = "lookup"
    /\ Go(p, CASE Cmd(p) = "unknown" -> "die"
               [] Cmd(p) \in {"exec", "upgrade"} -> "shell"
               [] Cmd(p) = "register" -> Flags(line[p])
               [] OTHER -> "load")
    /\ UNCHANGED <<asked, shown, ran, build>>

(* NewClient: images and create connect to the image server, for which the  *)
(* remote has to be known and the pair to be one that can be used; the LXD  *)
(* server is reached by a socket, without it.                               *)
NewClient(p) ==
    /\ pc[p] = "client"
    /\ LET known == conf[p] # "none" /\ PairAccepted
       IN  Go(p, CASE Cmd(p) = "wrapper" -> "stat"
                   [] Cmd(p) = "list" -> "query"
                   [] Cmd(p) = "register" -> "boot"
                   [] Cmd(p) = "create" -> IF known THEN "query" ELSE "die"
                   [] OTHER -> IF known THEN "query" ELSE "error")
    /\ UNCHANGED <<asked, shown, ran, build>>

(* The answer of the server is printed, or gives create its request.        *)
Query(p) ==
    /\ pc[p] = "query"
    /\ \/ /\ Cmd(p) = "images" /\ Go(p, "ok")
          /\ shown' = [shown EXCEPT ![p] = FindRelevantImages(Catalog[conf[p]])]
          /\ UNCHANGED asked
       \/ /\ Cmd(p) = "list" /\ Go(p, "ok")
          /\ shown' = [shown EXCEPT ![p] = <<"targets">>]
          /\ UNCHANGED asked
       \/ /\ Cmd(p) = "create"
          /\ LET request == Request(Catalog[conf[p]], line[p].fp)
             IN  /\ asked' = [asked EXCEPT ![p] = request]
                 /\ Go(p, IF request.end = "ok" THEN "init" ELSE request.end)
          /\ UNCHANGED shown
    /\ UNCHANGED <<ran, build>>

(* client.Init: it connects to the image server again, with the files as    *)
(* they are now; the LXD server starts to make the container.               *)
InitRequest(p) ==
    /\ pc[p] = "init"
    /\ Go(p, IF PairAccepted THEN "wait" ELSE "error")
    /\ UNCHANGED <<asked, shown, ran, build>>

(* An event of the server while create waits for the container.             *)
Event(p) ==
    /\ pc[p] = "wait"
    /\ \E e \in scene.events : Go(p, IF Progress(e) = "panic" THEN "panic" ELSE "wait")
    /\ UNCHANGED <<asked, shown, ran, build>>

Made(p) ==
    /\ pc[p] = "wait" /\ Go(p, "ok")
    /\ UNCHANGED <<asked, shown, ran, build>>

(* usdk-wrapper removes the artifacts of an older cmake, one by one and     *)
(* whatever fails, before a cmake that is to configure (no --build or       *)
(* --help), if there is a cache.                                            *)
StatCache(p) ==
    /\ pc[p] = "stat"
    /\ Go(p, IF line[p].configures /\ build["CMakeCache"] # "gone"
             THEN Artifacts[1] ELSE "shell")
    /\ UNCHANGED <<asked, shown, ran, build>>

RemoveArtifact(p) ==
    \E i \in DOMAIN Artifacts :
        /\ pc[p] = Artifacts[i]
        /\ build' = [build EXCEPT ![Artifacts[i]] = "gone"]
        /\ Go(p, AfterArtifact(i))
        /\ UNCHANGED <<asked, shown, ran>>

(* The stat or a removal fails: the artifacts it was to find or to remove   *)
(* stay, and the wrapper goes on.                                           *)
RemovalFails(p) ==
    \/ /\ pc[p] = "stat" /\ line[p].configures
       /\ build' = Kept(ToSet(Artifacts)) /\ Go(p, "shell")
    \/ \E i \in DOMAIN Artifacts :
         /\ pc[p] = Artifacts[i]
         /\ build' = Kept({Artifacts[i]}) /\ Go(p, AfterArtifact(i))

(* upgrade is exec of this command as root.                                 *)
UpgradeArgs == <<<<"a">>, <<"a">>, <<"a", " ", "&", "a">>>>

(* The process becomes lxc exec ... su: a login shell, or the program, in a *)
(* container where the working directory is there or not.  A cmake makes    *)
(* its artifacts again.                                                     *)
Execute(p) ==
    /\ pc[p] = "shell"
    /\ LET l == line[p]
           args == IF l.cmd = "upgrade" THEN UpgradeArgs ELSE l.args
           program == IF l.cmd = "wrapper" THEN WrapperProgram(l.cwd, args)
                                           ELSE ExecProgram(l.cwd, args)
       IN  \E there \in BOOLEAN :
             ran' = [ran EXCEPT ![p] = IF args = <<>> THEN @ ELSE Shell(program, there)]
    /\ Go(p, "ok")
    /\ build' \in {build, IF line[p].configures THEN AllMade ELSE build}
    /\ UNCHANGED <<asked, shown>>

--------------------------------------------------------------------------------
(* How the command ends when a step fails.  list returns no error when the  *)
(* containers cannot be listed, nor exec when it does not become lxc; create*)
(* tries two connections before Init.                                       *)
FailsWith(p) ==
    CASE pc[p] \in Starting \ ({"cert", "check"} \cup Writing) -> {"die"}
      [] pc[p] = "client" -> {IF Cmd(p) \in {"create", "wrapper", "register"} THEN "die" ELSE "error"}
      [] pc[p] = "query" -> {IF Cmd(p) = "list" THEN "ok" ELSE "error"}
      [] pc[p] = "init" -> {"die", "error"}
      [] pc[p] = "wait" -> {"error"}
      [] pc[p] = "shell" -> IF Cmd(p) = "wrapper" THEN {"error"} ELSE {"error", "ok"}
      [] OTHER -> {}

Fault(p) == \E end \in FailsWith(p) : Go(p, end)

Kill(p) == Active(p) /\ Go(p, "killed")

Step(p) ==
    \/ /\ StartupStep(p)
       /\ UNCHANGED <<output, build, guest, registering>>
    \/ /\ Lookup(p) \/ NewClient(p) \/ Query(p) \/ InitRequest(p)
          \/ Event(p) \/ Made(p) \/ StatCache(p) \/ RemoveArtifact(p) \/ Execute(p)
       /\ UNCHANGED <<files, ensured, conf, lxc, guest, registering>>
    \/ /\ RegisterStep(p)
       /\ UNCHANGED <<files, ensured, conf, lxc, output, build>>

Break ==
    \/ /\ \E p \in Runs : Fault(p) \/ Kill(p)
       /\ UNCHANGED <<files, build, guest, registering>>
    \/ /\ \E p \in Runs : WriteFails(p)
       /\ UNCHANGED <<build, guest, registering>>
    \/ /\ \E p \in Runs : RemovalFails(p)
       /\ UNCHANGED <<files, guest, registering>>
    \/ /\ (\E p \in Runs : RegisterFault(p)) \/ StopContainer
       /\ UNCHANGED <<files, build>>

Next ==
    \/ \E p \in Runs : Invoke(p)
    \/ (\E p \in Runs : Step(p)) /\ UNCHANGED <<want, faults, scene, line>>
    \/ /\ faults < MaxFaults /\ faults' = faults + 1
       /\ Break
       /\ UNCHANGED <<want, ensured, conf, lxc, scene, line, output>>

Spec == Init /\ [][Next]_vars

--------------------------------------------------------------------------------
Places == Starting \cup Ended \cup ToSet(Artifacts) \cup
          {"idle", "lookup", "client", "query", "init", "wait", "stat", "shell",
           "boot", "look", "get", "put", "groups"}

Known == DOMAIN scene.users

(* The type invariant.                                                      *)
TypeOK ==
    /\ scene \in Scenarios
    /\ remote \in Addrs \cup {"none"}
    /\ {crt, key} \subseteq Runs \cup Torn \cup {"none", "old"}
    /\ pc \in [Runs -> Places] /\ DOMAIN line = Runs
    /\ want \in [Runs -> Addrs \cup {"none"}]
    /\ \A p \in Runs :
         /\ pc[p] = "idle" <=> line[p] = NoLine
         /\ pc[p] # "idle" => line[p].cmd \in Commands /\ want[p] = line[p].want
         /\ pc[p] \in {"get", "put", "groups"} => User(p) \in Known
    /\ ensured \in [Runs -> BOOLEAN]
    /\ conf \in [Runs -> Addrs \cup {"none"}]
    /\ lxc \in [Runs -> Addrs \cup {"none", "unread"}]
    /\ build \in [ToSet(Artifacts) -> {"made", "kept", "gone"}]
    /\ faults \in 0..MaxFaults
    /\ homes \subseteq Known /\ running \in BOOLEAN
    /\ seen \in [Runs -> SUBSET Known]
    /\ left \in [Runs -> SUBSET Positions]
    /\ suppl \in [Runs -> SUBSET {g.name : g \in groups}]
================================================================================
