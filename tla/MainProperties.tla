----------------------------- MODULE MainProperties ----------------------------
(****************************************************************************)
(* What is to hold of the way an invocation begins, of create's request and *)
(* of the commands that are run in a container.                             *)
(****************************************************************************)
EXTENDS Main

(* Invocations that all want one server, and none other is registered.      *)
FirstRuns ==
    \A l, m \in Menu(scene.menu) : l.want = m.want /\ scene.remote \in {"none", l.want}

(* Once EnsureLXDInitializedOrDie has returned, the remote is registered    *)
(* with the address it is to have, stays so while other invocations begin   *)
(* too, are killed or fail, and the command connects to that address (its   *)
(* configuration is the one loaded after the remote was added).  Only an    *)
(* invocation that replaces another address must not overlap with others.   *)
EnsuredRemote ==
    scene.alone \/ FirstRuns =>
        \A p \in Runs :
            Active(p) /\ ensured[p] /\ Cmd(p) # "wrapper" =>
                /\ remote = want[p]
                /\ pc[p] \in {"client", "query", "init", "wait"} => conf[p] = want[p]

(* No command goes on with a file missing, or with the certificate of one   *)
(* run and the key of another, wherever an earlier invocation was killed or *)
(* failed - as long as first runs do not overlap.  Only a file that was torn*)
(* by a kill or a failure, between its creation and the end of its write,   *)
(* is taken as it is (GenCert drops the result of the write, and whether a  *)
(* pair that exists is any good is never tested).                           *)
CommandHasPair ==
    scene.alone =>
        \A p \in Runs :
            Active(p) /\ pc[p] \notin Pairing =>
                /\ "none" \notin {crt, key}
                /\ crt = key \/ {crt, key} \cap Torn # {}
                /\ {crt, key} \cap Torn # {} => faults > 0

(* Wherever an earlier invocation was killed or failed, the next one gets   *)
(* through GetConfigOrDie and EnsureLXDInitializedOrDie: a replacement of   *)
(* the remote that was left half-way, and a pair with a file missing, do not*)
(* turn it away.                                                            *)
RunsRecover ==
    [][scene.alone =>
         \A p \in Runs :
             pc[p] \in Starting /\ pc'[p] = "die" => faults' > faults]_vars

(* An alias is named after what its image is, its architecture and its host *)
(* as they are called; an SDK image of an unknown framework ("odd") may     *)
(* have any fields.                                                         *)
NamedAfter(alias, truth) ==
    /\ truth = [fw |-> alias.base, minor |-> alias.minor, arch |-> alias.fields[2],
                updates |-> alias.fields[3] = "dev"]
    /\ alias.base # "none"
    /\ alias.base # "odd" =>
         Len(alias.fields) = 3 /\ alias.fields[1] # "" /\ alias.fields[2] # ""

(* The publisher gives the images of the SDK, and no others, aliases with   *)
(* the prefix and an architecture, named after the image; the images of a   *)
(* server are told apart by their fingerprints.                             *)
ASSUME NamesAssumption ==
    \A a \in Addrs : \A i \in DOMAIN Catalog[a] :
        LET image == Catalog[a][i]
            names == {j \in DOMAIN image.aliases :
                        image.aliases[j].sdk /\ image.aliases[j].slash}
        IN  /\ names = {} => image.truth.fw = "none"
            /\ \A j \in names : NamedAfter(image.aliases[j], image.truth)
            /\ \A k \in DOMAIN Catalog[a] : Catalog[a][k].fp = image.fp => k = i

(* The images of a server with the fingerprint that create is given.        *)
Named(addr, p) == {i \in DOMAIN Catalog[addr] : Catalog[addr][i].fp = line[p].fp}
Truth(addr, i) == Catalog[addr][i].truth

(* create asks for the framework, the architecture and the updates that the *)
(* image was named after, and for nothing if the server it wants has no SDK *)
(* image of a known framework with the fingerprint (or one with a minor     *)
(* version: it panics); images describes the SDK images, each at its place, *)
(* and nothing else.                                                        *)
RequestTrue ==
    scene.alone \/ FirstRuns =>
        \A p \in Runs :
            /\ asked[p].end = "ok" =>
                 \E i \in Named(want[p], p) :
                     Truth(want[p], i) = [fw |-> asked[p].fw, minor |-> FALSE,
                                          arch |-> asked[p].arch, updates |-> asked[p].updates]
            /\ asked[p].end = "error" =>
                 \A i \in Named(want[p], p) : Truth(want[p], i).fw \in {"none", "odd"}
            /\ Cmd(p) = "images" => \A i \in DOMAIN shown[p] :
                 (shown[p][i].fp = Catalog[want[p]][i].fp) <=> (Truth(want[p], i).fw # "none")

(* Only this brings a command down: an image with a minor version on the    *)
(* server it asked, an event of create's own, unfinished operation that has *)
(* metadata but no download_progress (no other operation of the server can),*)
(* and a register without SUDO_UID and PKEXEC_UID.                          *)
PanicsKnown ==
    \A p \in Runs : pc[p] = "panic" =>
        CASE Cmd(p) = "create" ->
                \/ \E i \in Named(conf[p], p) : Truth(conf[p], i).minor
                \/ \E e \in scene.events :
                     e.own /\ e.metadata /\ ~e.final /\ e.progress = "none"
          [] Cmd(p) = "register" -> {line[p].sudo, line[p].pkexec} = {"none"}
          [] OTHER -> FALSE

--------------------------------------------------------------------------------
(* A working directory whose name means nothing between double quotes.      *)
PlainDir(p) == ToSet(line[p].cwd) \cap {"dq", "\\", "$"} = {}

(* A first argument that a shell takes for an assignment.                   *)
Assigns(p) ==
    LET s == line[p].args[1]
        equals == SelectInSeq(s, LAMBDA c : c = "=")
    IN  /\ ToSet(s) \subseteq {"a", "="}
        /\ equals > 1

Args(p) == IF Cmd(p) = "upgrade" THEN UpgradeArgs ELSE line[p].args
RanSomething(p) == pc[p] = "ok" /\ "argv" \in DOMAIN ran[p]

(* Whatever characters the arguments are made of, the command that runs in  *)
(* the container gets them as they were given, and nothing else is expanded *)
(* or run (QuoteString, exec.go, usdk-wrapper.go).  exec takes a first      *)
(* argument NAME=VALUE for a setting of the environment.                    *)
ArgsArrive ==
    \A p \in Runs :
        /\ RanSomething(p) /\ PlainDir(p)
        /\ Cmd(p) = "exec" => ~Assigns(p)
        => /\ ran[p].whole
           /\ CASE Cmd(p) = "wrapper" -> ran[p].argv = <<<<"exec">>>> \o Args(p)
                [] OTHER -> ran[p].argv \in {<<>>, Args(p)}

(* "make sure the working directory is the same": exec, maint and upgrade   *)
(* run their command in the working directory, or not at all if the         *)
(* container has no such directory.  usdk-wrapper runs it anyhow, but then  *)
(* without a pidfile.                                                       *)
RunsInPlace ==
    \A p \in Runs : RanSomething(p) /\ PlainDir(p) =>
        IF Cmd(p) = "wrapper" THEN ran[p].pidfile => ran[p].dir = line[p].cwd
        ELSE ran[p].argv # <<>> => ran[p].dir = line[p].cwd

(* A cmake that configures starts without the cache and the CMakeFiles of   *)
(* an older one, but for those that the stat or a removal of their own has  *)
(* failed to remove - also if a wrapper was killed while it removed them:   *)
(* the cache, which the removal depends on, is not the first to go.         *)
ConfigureFresh ==
    [][scene.alone =>
         \A p \in Runs :
             pc[p] = "shell" /\ pc'[p] = "ok" /\ line[p].configures
                 => \A a \in {"CMakeFiles", "CMakeCache"} : build[a] # "made"]_vars
================================================================================
