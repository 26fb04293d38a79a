# A TLA+ model of ubuntu-sdk-tools

`usdk-target` manages the LXD containers ("click targets") that the Ubuntu SDK
builds in, and `usdk-wrapper` runs a tool inside one. Both are short-lived,
sequential programs that hold no lock: everything they know they read from the
LXD server and from files of the host, and everything they do they ask of the server
or of another command, one request at a time. Their difficulty is what happens *between* the requests: a
request fails, a process is killed, another invocation runs at the same time, the
graphics driver of the host has been upgraded since the last run.

These modules model that: what each command asks of the server, in which order, what
it does when a request fails, and what is true of the containers afterwards.

## Inventory

| part | source | state it keeps | operations | what makes it hard |
|---|---|---|---|---|
| LXD server, host | external, `vendor/github.com/lxc/lxd/client.go` | containers (status, configuration, devices), networks, the default profile; device nodes, the driver | requests of the client | shared by all invocations; configurations are read and written as a whole |
| helpers | `helpers.go` | none | boot, stop, restart, delete, device add and remove, the list of click targets | each is several requests; status read in one, used in the next |
| fixables | `fixables/*.go` | `globNvDir`, the cached driver directory | `Check`, `Fix` of access, devices, DRI nodes, nvidia | work on snapshots of a listing; stop at the first error |
| client configuration | `helpers.go:49-121`, `lxd/shared/cert.go` | `globConfig`; `config.yml` with the image remote, `client.crt`, `client.key` | load, make the pair, register the remote | files shared by all invocations, written in several steps; `globConfig, err :=` at line 98 shadows the cache |
| create | `usdk-target/create.go` | progress of the operation | choose the image, init, all fixables, `/tmp`, register, restart | rollback by name in every error branch |
| register | `usdk-target/register.go`, `passwd.go` | none | boot, user look-up, home device, groups, user | partial failure, repetition |
| autosetup, initialized | `usdk-target/autosetup.go`, `initialized.go` | the list of stopped containers | stop all, bridge, profile, start again; check | partial failure between stop and restart; two at once |
| autofix, set, destroy | `usdk-target/*.go` | none | fixables and restart; flag; delete | lost updates |
| wrapper | `usdk-wrapper/usdk-wrapper.go`, `Exec` of the client | pidfile, two pipes, line buffers | boot, exec, forward signals, map output | goroutines, signals, exit |
| exec, maint, upgrade | `usdk-target/exec.go`, `upgrade.go`, `shellquote.go` | none | build a command line, become `lxc` | a text is quoted once and read by `su` and a shell |
| images, list | `usdk-target/images.go`, `list.go` | none | read once and print | the aliases of foreign images |
| status, exists, rootfs, help | `usdk-target/*.go` | none | read at most once and print | nothing |

What makes each part correct:

* helpers: a configuration change is one edit of the configuration as it is; a
  frozen container is thawed and a stopped one started.
* fixables: afterwards nothing is wrong that `Check` looks for; only devices whose
  host path is gone, or an `nv-bin` of another driver, are removed.
* client configuration: behind it the remote is registered with the address wanted, the
  key belongs to the certificate, and a file or a remote that a killed invocation left out
  is made up for (a file that was created and not written to its end is not).
* images, create: the image that is made is the one that was asked for, and no image or
  event of the server brings the command down.
* exec, upgrade, wrapper: a command arrives as it was given and runs in the working
  directory.
* create: a success is a complete target; an error leaves nothing behind and
  nobody else's container is removed.
* register: never root; an account has its home, and is in the groups of its user and in
  no other.
* autosetup: a bridge with the profile on it, and every container as it was.
* wrapper: all output of the tool, its exit code, its signals.

## Modules

| module | models |
|---|---|
| `Lxd` | the server and the host: `ct` (containers by name), `net`, `host` (paths that exist), `nv` (driver in use) |
| `Sync` | `helpers.go` and the client calls below it, and the machine that runs an invocation |
| `Fixing` | the four fixables |
| `Network` | autosetup, and the bridge test of initialized |
| `Target` | the commands composed: `Script` gives each as its calls; create's Init, register's steps; the changes of the host; `Spec`, `FairSpec`, `TypeOK` |
| `Targets` | abstract specification: the configurations change by whole edits only |
| `TargetProperties` | what is to hold |
| `MCTarget` | the instances for TLC |
| `Wrapper` | usdk-wrapper: main from the exec on, `Exec`, the receiving and translating goroutines, the signal goroutine, the tool |
| `WrapperProperties`, `MCWrapper` | what is to hold of it; its instances |
| `Startup` | `GetConfigOrDie`, `EnsureLXDInitializedOrDie` and the command `lxc remote`, over the files `remote` (of `config.yml`), `crt`, `key` |
| `Images` | `findRelevantImages`, `Suitable`, the alias expressions and the progress handler of create, as operators |
| `Quoting` | `QuoteString`, the command lines of exec, maint, upgrade and usdk-wrapper, and how a shell reads them |
| `Accounts` | register on users, numeric ids, groups and homes; `useradd` and `groupadd` |
| `Main` | the composition of these four: `main`, the commands up to where `Target` or `Wrapper` takes over, faults and kills; `Spec`, `TypeOK` |
| `MainProperties`, `AccountProperties`, `MCMain` | what is to hold of it; its instances |
| `TargetProofs` | proofs: the type invariant of `Target`; a create owns its target |
| `CallProofs` | proofs: the bridge, root, containers that are no targets, devices of others, the rollback |
| `EditProofs` | proofs: the refinement of `Targets`, the updates flag, autosetup alone and among others |
| `GoalProofs` | proofs: what a create and an autofix that succeed have done |
| `WrapperProofs` | proofs: the type invariant of `Wrapper`, the exit status, the output |
| `MainProofs` | proofs: the type invariant of `Main` |
| `StartupProofs` | proofs: the remote, the certificate and the key, and their repair; the request of create; the directory of cmake; panics |
| `AccountProofs` | proofs: groups, homes, memberships, and why a register fails |

The proof modules of `Target` extend one another in the order of the table, so that each
invariant can use the ones before it.

`Fixing` and `Network` extend `Sync`, which extends `Lxd`; `Target` extends both.
`Accounts` extends `Startup`; `Main` extends `Accounts`, `Images` and `Quoting`.

The two halves meet at `client.Init`: `Main` follows create as far as the request, with
everything that goes into it, and `Target` follows it from there, with the containers of
the server. register is in both: in `Target` with the order of its requests among those
of other commands and with the error it returns to create, in `Accounts` with what these
requests and commands do to the databases of the container. usdk-wrapper is in `Main` up to
the shell of the container and in `Wrapper` from there on.

### How an invocation is modelled

An invocation `p` is a sequential program. `todo[p]` is the rest of it: the calls
still to make, the current one first; `res[p]` says how it stands (`running`,
`undoing` a create, or how it ended). A step performs the current call: it makes one
request, or takes one local decision, and puts the calls that follow from it in
front of the rest (`Continue`). `BootContainerSync`, for example, reads the status
in one step and is followed by `start`, `unfreeze` or nothing; `AddDeviceSync` reads
the configuration in one step and is followed by a `put` that carries the
changed snapshot, as `ContainerDeviceAdd` does. A loop over a listing becomes one
call for each element *of that listing*, with the snapshot the loop variable holds.

Every call carries what its call site does with an error (`Raise`): return it,
roll the create back and return it, drop it, or go on with the next one. The four
cases are the error branches of the `run` functions. A step may fail in three ways:

* the server refuses (the model decides: no such container, device already
  there, start of a container one of whose devices is missing on the host);
* a request fails and changes nothing (`Fault`);
* a request takes effect and the answer is lost or its wait fails
  (`Answer`, for the calls in `Lossy`).

`Kill` ends an invocation between two steps. `Exclusive` says that invocations run
one at a time; the properties about the *result* of a command need that, since
nothing in the code provides it.

### How the wrapper is modelled

`Wrapper` starts where `BootContainerSync` (the boot command of `Target`) has returned.
`main` goes through `Exec` (three sockets, the wait for stdout's goroutine, then for
stderr's, the operation) and through the closes, `os.Remove` and `os.Exit`. The text of
the tool goes from `sock` (what the server has of it) by `WebsocketRecvStream` into `pipe`
(the one write an `io.Pipe` holds; how much a message carries is up to the server, which sends
what its reader finds, `network.go:146-180`), is read byte by byte by `mapFunc` (`held`),
collected in `line` and written translated to `out`. Each of these hand-overs
is a step of the goroutine that makes it. A receive on an unbuffered channel
is a step of the receiver that needs the sender at its send. When the wrapper is gone,
all of its goroutines are. A token stands for a slash, a known directory or the end
of a line; `Mapped` does what the expression of `mapAndWrite` does to them (`moved` is a slash
with the root of the container written before it). The words
of a text that `mapAndWrite` does not know are left out. Of the input only the closing of `os.Stdin` is modelled.

### How an invocation begins, and its command

In `Main` an invocation is at one place `pc[p]`; `line[p]` is its command line and
environment, one of a menu. A scenario (`scene`) gives the files, the databases and the events
to begin with, which menu there is, which invocations take a line of it, and whether they
may overlap (`alone` says that they do not).

`GetConfigOrDie` is `LoadConfig`, `FindOrGenCert` and `GenCert`, which creates and
writes the certificate and then the key, in four steps. A write that fails (`WriteFails`) leaves
the file empty or cut, and `GenCert` goes on, as `cert.go:106` and `114` drop the result.
`GetConfigOrDie` is called by `EnsureLXDInitializedOrDie` and again by the
command, and loads the file each time since the cache is shadowed. The test of the
remote (`CheckRemote`) uses what was loaded; the removal and the addition are
processes of their own, each of which reads the file and then writes or refuses
(`LxcLoad`, `LxcRemoteRemove`, `LxcRemoteAdd`). `NewClient` is where a remote that is not
known, or a pair that cannot be used (`PairAccepted`), ends a command that connects to the
image server: with a file missing or empty the client connects unauthenticated
(`network.go:103`), with one that is cut, or with two that do not belong together, it fails.

A `Fault` is a step that fails, and goes where the error branch of the code goes. Where the
code has none the invocation goes on: `WriteFails`, and `RemovalFails` for the artifacts of a
cmake (`usdk-wrapper.go:120-125` drops the error of the `stat`, of `RemoveAll` and of each
`Remove`), which then stay where they are. In register (`RegisterFault`) a request or command that fails may have had its effect.
`StopContainer` is another command that stops the container between two steps of
register. A command that panics ends as `"panic"`.

`Quoting` reads what the code writes: `QuoteString` and the format strings give a
sequence of characters, and `Shell` splits it into words as a POSIX shell does, with
quotes, backslashes, assignments and expansions. A character stands for its
class. `Accounts` decides with the exit code of `groupadd`, which looks at the name before
the number, and with what `useradd` requires.

### Abstractions

A device is its name and the host path that `DevicesFixable` checks, or
`"unchecked"` for an optional one or one with major and minor. The device name, the path
on the host and the path in the container of a node coincide, as in the code. Of the
configuration keys only `user.click-*` are kept. Waiting for the operation of a request
is part of the request. Listings and globs have one fixed order; the devices of
one container are visited in any order, as Go ranges over a map. In `Target` a create starts
at `client.Init` and the groups of register are one `groupadd`; what precedes the one and
what is inside the other is in `Main` and `Accounts`. Of `config.yml` only the address
of the image remote is kept, of a certificate only which invocation made it. The alias of
an image is the list of its parts, and `truth` (in `MCMain`) what they were made of.
What is printed is which image or target it describes. The confirmation prompt and the checks for root end a
command before it starts and are left out. `owner` of a container is a history
variable, read by no action; it tells a container from another one
of the same name.

## Properties and runs

| run | instance | checks |
|---|---|---|
| `creates` | two creates of two names by an ordinary user or root, interleaved; next to a container that is no target; one failed request or lost answer in the forward part | `RollbackComplete`, `RootNotRegistered`, `PlainUntouched` |
| `mixed` | two commands of every kind but destroy, interleaved; a fault or a kill anywhere, one change of the device nodes | `TypeOK`, `OwnTarget`, `Eth0HasBridge`, `SetupsRestore`, `ForeignDevicesKept`, `Termination` |
| `care` | two commands, one after the other, over a target in any state with stale, foreign or no devices; a driver upgrade or a node change; one fault | `EditsAreWhole`, `CreateDelivers`, `AutofixHeals`, `OnlySetMovesFlag` |
| `clean` | as `care`, every request answered, with autosetup, ephemeral and broken containers and five networks | `NoSpuriousError`, `AutosetupRestores` |
| `main` | the scenarios listed under Bounds, one fault or kill or stop anywhere | `TypeOK`, `EnsuredRemote`, `CommandHasPair`, `RunsRecover`, `RequestTrue`, `PanicsKnown`, `ArgsArrive`, `RunsInPlace`, `ConfigureFresh`, `NoForeignGroup`, `HomeWithAccount`, `MembershipsKept`, `RegisterFailsFor` |
| `wrapper` | up to 3 tokens to stdout and 1 to stderr, one fault | `TypeOK`, `OutputTranslated`, `ExitFaithful` |
| `wrapper_live` | up to 2 tokens to stdout, two signals, one fault; fair | `WrapperExits`, `LinesShown`, `SignalsArrive` |
| `wrapper_output` | no fault, no signal | `OutputComplete` is violated |
| `wrapper_input` | no fault, one signal | `InputStaysOpen` is violated |
| `create_boots` | one create, one fault | `CreateRuns` is violated |
| `set_race` | set and autofix at once | `SetSticks` is violated |
| `setup_retry` | two autosetups, one after the other, one fault | `Eth0Replaced` is violated |

Each property is stated in words in `TargetProperties`, `WrapperProperties`,
`MainProperties` or `AccountProperties`. Five runs each find a place where the program does not do what its own text says:

* `create.go:194` drops the error that `create.go:195` tests: a create whose
  restart failed reports success.
* A flag written by `set` is undone by a device change that read the
  configuration before and writes it back as a whole (`client.go:2417-2444`).
* `Exec` waits for all output so that "the last bits" are printed, but what it waits for is
  only that `mapFunc` has read them: the wrapper exits without waiting for
  `mapFunc`, and the end of the output can be lost.
* A forwarded signal is an `Exec` of its own that closes the shared `os.Stdin`:
  a tool that survives the signal has lost its input.
* `autosetup` "replaces" an existing `eth0` by a delete and an add; if the add
  fails, the next `autosetup` sees the bridge, skips the profile and succeeds.

### Where a property is narrower than one would like

* `RollbackComplete` excludes a lost answer of `Init` (`creates` sets `Lossy` to all
  calls but `init`) and faults during the rollback: `create.go:154-165` returns
  without removing the container, and the error of the rollback is dropped. It is
  checked among creates: a boot between the stop and the delete of a rollback
  makes the delete fail.
* `EditsAreWhole`, `OnlySetMovesFlag`, `CreateDelivers`, `AutofixHeals`,
  `NoSpuriousError` and `AutosetupRestores` are about one command at a time.
  `set_race` shows what happens otherwise.
* `NoSpuriousError` excuses a second register of the same user, also after one that
  failed half-way: the home device is there already (`register.go:161`).
* `OwnTarget` assumes that nobody destroys the container of a create that is still running.
* `AutosetupRestores` and `SetupsRestore` are about an autosetup that succeeds: one whose
  network set-up fails returns an error and leaves stopped what it had stopped
  (`autosetup.go:75`).
* `EnsuredRemote` is about invocations one after the other, and about first runs at once
  that all want one server (`FirstRuns`). Two that want different servers and overlap undo
  each other's remote; the menu `apart` has them.
* `CommandHasPair` and `RunsRecover` are about invocations one after the other. Two first
  runs at once can leave the certificate of one with the key of the other
  (`cert.go:101`); the pair exists, so no later run replaces it. Nor does one replace a
  file that a kill or a failed write has left empty or cut, since only its existence is tested
  (`cert.go:67-70`): `CommandHasPair` allows that, and only after a fault. `RunsRecover` says
  that such a file does not end `GetConfigOrDie` either; it is the client that then
  connects unauthenticated or fails.
* `ConfigureFresh` allows the artifacts that the `stat` or a removal of their own has
  failed to remove (`kept` in `build`); it says that no others stay, also when the wrapper
  was killed among the removals. That a cmake makes all of its artifacts or, if it ends before
  that, none is an assumption about cmake.
* `RequestTrue` says that an image with a minor version is asked for by nobody, and
  `PanicsKnown` why: the `parts` that `create.go:117` indexes is the outer, empty one.
  `PanicsKnown` also names the two other panics: an event of the own operation that has
  metadata without `download_progress` (`create.go:237`), and a register as root with
  neither `SUDO_UID` nor `PKEXEC_UID` set, also with `-u` (`register.go:52`).
* `ArgsArrive` and `RunsInPlace` exclude a working directory with a double quote, a backslash
  or a dollar in its name (`PlainDir`), which the code puts between double quotes as it is;
  `ArgsArrive` also a first argument of exec of the form `NAME=VALUE` (`Assigns`), which
  `QuoteString` leaves unquoted. usdk-wrapper runs its tool also where the container has
  no such directory; `RunsInPlace` then only says that there is no pidfile.
* `HomeWithAccount` is about registers of one user, or of users one after the other: of two
  users at once the PUT of one can lose the home of the other.
* `MembershipsKept` leaves out the groups that register made itself, since they are not
  remembered (`register.go:197`), and the primary group where the gid is not the uid
  (`passwd.go:88`). `RegisterFailsFor` lists, for the same reasons, a number that belongs to
  nobody's group, and a register of a user who is there already, also half
  (`register.go:161`).
* `LinesShown` and `SignalsArrive` excuse a lost connection and a failed `Exec`, which
  nothing retries; `SignalsArrive` is silent about signals before the pidfile is
  written or while another one is forwarded, which the wrapper drops.

### Bounds

Two invocations are enough for every hazard listed: each needs one that reads, or
fails, and one that interferes or comes after. Two names make "its own target"
differ from "some target"; one card and one nvidia node, two drivers, three users (one
ordinary, root, and nobody known). `MaxFaults` (0 or 1) bounds the faults of a
behaviour and `MaxHostChanges` (0 or 1) the changes of the host. One fault is
enough to leave every `run` by every error branch, as the first one ends
the command or starts its rollback; a fault in the rollback is possible because
a *refusal* by the server (no fault) can start it. The worlds to begin with are
listed in `MCTarget`.

`main` begins in one of these (`MCScenarios`): three first runs at once, with the remote and
without; two runs of any of four commands one after the other, over every combination
of no, the right or another remote with or without a pair; two runs at once that want
different servers; every fingerprint of a server whose six images have no alias, a foreign
one, a minor version, an empty last field or several aliases, and every kind of event; every text of up to three
characters as the argument of exec and of the wrapper, every pair of texts of one and two, and every
directory of up to two; two cmakes one after the other; two registers at once of one
user or of two; and two registers one after the other of a user with her own group, one
whose primary group has another number, root, nobody and no environment at all, over
eight containers that have, lack or number otherwise the groups of the host. Three
characters put a quote between two others, so that both ends of `QuoteString`'s
replacement meet a neighbour; three first runs let one be killed between two that
overlap. One fault is enough for every error branch, as every one of them ends the
command, but for a supplementary group, which is skipped, and for a write or a removal whose
error is dropped; and it is enough for a kill that the next run has to repair.

For the wrapper, three tokens give a path that is split between two writes, one
that is preceded by a word, and a line that ends inside a message; a second stream that is
not empty gives main's two waits something to wait for. Two signals
make one come while the other is forwarded (`MaxSignals`); one fault is a lost
connection, a socket that does not open, an operation without answer or a kill that
fails (`MaxFaults`). `MaxOut` bounds the text.

Deadlock is not checked in any run: every invocation runs one command and ends, and the model
ends with it; the wrapper exits. `Termination` says that this is the only way to stop.

### Fairness

`FairSpec` asks weak fairness of every invocation's `Step`: the process is scheduled
and the server answers, or fails, every request (the client has no retries and waits
without limit). Nothing is assumed of faults, kills, host changes, or of commands being
given. For the wrapper it asks weak fairness of main, of the signal goroutine and of the
goroutines of each stream; the tool may be silent or run for ever.

## Proofs

The theorems, checked by TLAPS, hold for every value of the constants: any number
of containers, invocations, devices, drivers, faults and host changes. The assumptions
are those stated in the modules: the sets of names and nodes are finite, the model
values do not collide, the menus hold command lines, worlds and scenarios are well formed,
and the catalogue holds images (`MainAssumption`). A theorem that needs more says so in its
ASSUME; each of these hypotheses holds in the run that checks the property.

### Target, for any interleaving

* `TypeCorrect` (`TargetProofs`): `Spec => []TypeOK`. `TypeOK` is not inductive by
  itself: the rollback is built from `cmd[p].ct`, so `Given` adds that an
  invocation with calls left has a command line. `Moves(p)` says what `Continue` and
  `Raise` do to `todo` and `res`: the calls that follow a call are calls, none of
  them Init or delete, and report their error the way that call does (`Follow`). There
  is a lemma for each module's steps (`SyncStepType`, `FixingStepType`,
  `NetworkStepType`, ...), with a case for each action.
* `CreateOwns` (`TargetProofs`): `Spec => []OwnTarget`, assuming `NoDestroy`: no
  command of the menu is a destroy. That the container under a create's name is its own
  does not follow from one step to the next: it has to be known what the create may
  still do. `OwnInv` adds to the type invariant `InitFirst` (Init is only the first
  call, of a create, and its failure is returned), `DeleteLast` (a container is only
  deleted by the last call of a rollback), `CreatesUndo` (only a create has calls that roll
  back) and `Owns` (past Init, the container is the create's own, exists and is not
  ephemeral). Init of another create cannot take the name, because the name is taken;
  a stop cannot remove the container, because it is not ephemeral; a delete only
  ends another create, whose container has another owner and hence another name; every
  other request keeps the owner (`Stays`). The assumption is needed: with a destroy, or a
  create that starts after it, the name passes to somebody else.

The proofs of `CallProofs` speak of `Calls(p)`, what an invocation has yet to do. `StepEffect`
says once what a step may do to the server (`Boots`, `Halts`, `Deletes`, `Makes`, `Puts`,
`Registers`, `Opens`, `Loads`, `Bridges`, `Attaches`), `Invoked` what a command begins with,
and `MovesCalls` that what is new among the calls comes from the current one (`After`) or is
the rollback.

* `BridgeBeforeEth0`: `Spec => []Eth0HasBridge`, if a world that begins with `eth0` on
  `sdkbr0` has that bridge (LXD accepts no other profile). `BridgeFirst`: the profile is only
  looked at right behind a `NetworkCreate` whose failure ends the command, and a request
  that names the bridge is only pending when the bridge is there. A bridge is never removed.
* `RootRefused`: `Spec => []RootNotRegistered`, if no container begins with such an account.
  `LookedUp`: in what is left of every invocation, an account for a user who is refused
  comes after a look-up of that user whose failure drops it.
* `PlainLeftAlone`: `Spec => PlainUntouched`, for the commands that the property is about
  (`TargetsOnly`: create, autofix, initialized). `SparesPlain`: past its Init no call of any of
  them is about a container that is no target. A create's calls are about its name from the
  start, so before Init the claim is only that they are about *that* name: the container
  that Init makes is a target, and where it refuses the rest is dropped.
* `ForeignKept`: `Spec => ForeignDevicesKept`, with `NoDestroy` and `ForeignWorlds`: a device
  that no fixable looks at is at first in no ephemeral container and is not called `nv-bin`,
  the name that the nvidia fixable replaces. Every PUT is of a snapshot, possibly an old
  one; `SparesForeign` says that an old snapshot still has exactly the foreign devices that
  the container has, as no step adds or removes one (`ForeignStays`).
* `RollbackLeavesNone`: `Spec => []RollbackComplete`, under the conditions of the run `creates`:
  `RollbackMenu` (nobody boots, repairs or destroys containers meanwhile), `RollbackFaults`
  (Init's answer is not lost, the rollback meets no fault) and `NobodysWorlds` (the history
  variable `owner` begins at nobody). Each is needed: without the first or the second
  the property fails, see above. `Undoing(p)` gives the three forms that the rest of
  a rollback has, each with the status that the container then has; `ActsOnOwn` keeps the
  status from being changed by others.

* `SetupsHeal`: `Spec => []SetupsRestore` (`EditProofs`), assuming only `HomesThere`: any number
  of commands may overlap, also destroys, which the run `mixed` leaves out. The property
  speaks of behaviours in which nothing went wrong from outside; `RestoreInv` claims what it does
  only for those (`Clean`), and every step that would lead back into one is excluded, because
  faults and host changes are only counted up and a result stays. `Owes(q, n)`: an autosetup has a boot of
  `n` to come, or the current call of some invocation is a start, an unfreeze or a delete that
  the status of `n` still allows. Every container that was stopped is up, or refused by LXD, or
  somebody owes it - not always the one who stopped it, since a boot that finds a container
  running returns, and a start that came second is passed over. A halt makes its own
  invocation owe (`Followed`: its boot is behind it, or a delete is next). A refused container stays
  refused, because no pending PUT, however old, differs from its container in whether a device is
  missing on the host (`Mild`). TLC found no state that violates `RestoreInv`, with destroy in the menu.

### Target, one command at a time

These assume `Exclusive`: nothing in the code makes commands exclusive, and `set_race` shows
what it is needed for.

* `FlagMoves`: `Spec => OnlySetMovesFlag`, and `EditsImplemented`: `Spec => EditsAreWhole`, the
  refinement of `Targets` (`EditProofs`). Both also assume `HomesThere`: `/tmp` and the homes are
  on the host and are not device nodes. `EditInv` says what every pending call still
  relies on: a PUT is one edit of the configuration *as it is now* (`Edits`), a removal is
  of a stale device, and a snapshot that a loop holds differs from the container only in
  devices that the container has no more (`Fresh`). That alone is not inductive,
  since a PUT may make every other snapshot of its container old: `Before(s, c)` says which calls
  may precede one that uses a snapshot (of other containers, or unmounting). `Cached` says
  that the cached driver directory is the one in use, `Alone` that one command runs. TLC found
  no state of the instance of `care` that violates `EditInv`.
* `AutosetupHeals`: `Spec => AutosetupRestores`, with `MaxFaults = 0`: a restart that fails is
  only logged, so with faults it does not hold. `SetupInv`: an autosetup is at its listing,
  or it `Restores`: a stop has its boot behind it (`StopsFirst`); the bridge is there or a call
  that makes it or ends the command is pending; and every container that was stopped is up, or
  refused by LXD, or its boot is pending (`Due`). A `start` or `unfreeze` that a boot has decided
  on is the next call (`StartsNow`), so the status it was decided for is still the container's.
  `ListedAll` says that the listing leaves no container out.
* `CreateDoesAll`: `Spec => CreateDelivers`, and `AutofixDoesAll`: `Spec => AutofixHeals`
  (`GoalProofs`), with any number of faults and lost answers. Both assume `HomesThere` and
  `NamesApart`: no node and no user is called `nv-bin` (the tools name the one by a path under
  `/dev`, the other `home_of_` and the user). `Goals(p)` is what the command is to achieve, as
  data: a value that a device of a container is to have, access, the loader configuration,
  running, loaded, a user. For every kind of call it is said once which goals it ends in (`Gives`)
  and which it may take away (`Drops`). `GoalInv` adds to `EditInv`, for every goal: it is
  reached or a pending call gives it (`Assured`), and behind every pending call that may take it
  away there is one that gives it (`Guarded`). So a fixable that removes `nv-bin` is harmless
  as long as its own add is behind it, and a repair that makes the loader cache
  old as long as the restart is. One lemma for each kind of call shows that its expansion
  keeps both (`GoalMove`). When nothing is pending, all goals are reached, and
  `RepairedHealthy` says that then no fixable complains. A failure ends a run with an error, but for
  the last restart of a create, and no goal of a create waits for that (`RaiseDelivers`). TLC
  found no state of the instance of `care` that violates `GoalInv`.

### The wrapper, the start and the accounts

* `ExitCorrect` (`WrapperProofs`): `Spec => []ExitFaithful` for usdk-wrapper. `ExitInv` says
  that, once `Exec` has returned, its code is that of a tool that has ended, or -1
  and something failed, and that the status is made of that code; it is inductive
  because a tool that has ended keeps its code and only main writes `code`. The
  assumption is that exit codes are bytes.

* `WrapperTypeCorrect` and `OutputCorrect` (`WrapperProofs`): `Spec => []TypeOK` and
  `Spec => []OutputTranslated` for usdk-wrapper. `OutputInv`: what is out is the translation of
  the first k tokens, and while `mapFunc` loops these end where a line ends (`Whole`) and the
  line, the byte held, the pipe and what is on the way are, in this order, the rest (`ShownUpTo`).
  `MappedConcat` says why that is enough: behind the end of a line nothing before it
  matters to the expression. A message only goes into an empty pipe (`Stages`), because the write
  before it returned and because nothing runs before all sockets are open (`Opening`).

* `MainTypeCorrect` (`MainProofs`): `Spec => []TypeOK` for `Main`. `TypeOK` ties the places of
  an invocation to its command line and to the databases (who mounts and adds is known to
  the host) and is inductive as it is. One lemma for each kind of step says where it may go
  (`StartupGoes`, `CommandGoes`, `RegisterGoes`, `FaultGoes`, `WriteFailsGoes`, `RemovalFailsGoes`); the other proofs about `Main`
  cite these, and `ApartCorrect`: in a scenario in which nothing overlaps one
  invocation is active.
* `PairCorrect` (`StartupProofs`): `Spec => []CommandHasPair`. `PairInv`: a key is only there
  with its certificate, unless one of them is torn, and a torn file is being written or was left by a
  fault; who makes a pair found no key, and has created the certificate when the key's turn
  comes. Needed, because a killed run leaves one file: what makes the next run repair
  it is that the key is created last. That a file is being written by nobody else is
  `WritesAlone`.
* `RemoteCorrect` (`StartupProofs`): `Spec => []EnsuredRemote`. `RemoteInv`: until it decides,
  what an invocation has read of its own address is still true of the file; and if all want
  one server, nobody has read another address, so nobody removes the remote. This is why
  first runs may overlap although reading, testing and changing are apart.
* `RecoverCorrect` (`StartupProofs`): `Spec => RunsRecover`, an action property. `LxcInv`:
  where nothing overlaps, the second read of the file, by `lxc`, agrees with the first.
* `GroupsCorrect` (`AccountProofs`): `Spec => []NoForeignGroup`. `GroupsInv`: what is left to be
  added is a primary group or one that has the user, and only what is not
  primary is remembered; and an account still shows what its register was given.
* `HomesCorrect` (`AccountProofs`): `Spec => []HomeWithAccount`. `HomeInv`: only registers mount
  homes, and the devices that a PUT writes back contain all that are there -
  because nobody else is active, or because all that is there is the home of the one user.
* `MembershipsCorrect` (`AccountProofs`): `Spec => []MembershipsKept`. `KeptInv`: as long as
  nothing failed, a register that is going through the groups has either passed each group of its user or
  has it before it, and what it has passed and the container had is remembered (`KeptBy`); an
  account that was made with them keeps them.
* `FailuresCorrect` (`AccountProofs`): `Spec => RegisterFailsFor`, if on the host only root has the number
  0 and a number belongs to one group (`PlainHosts`): a host where they do not
  has further reasons.
* `FreshCorrect` (`StartupProofs`): `Spec => ConfigureFresh`. `FreshInv`: `CMakeFiles`, unless
  its removal failed, is there only with the cache, wherever the wrapper was killed, because the
  cache is removed after it; so that the wrapper looks only for the cache suffices.
* `RequestCorrect` (`StartupProofs`): `Spec => []RequestTrue`. What it rests on is not in the code but
  in how images are published, `NamesAssumption`: SDK images, and no others, have aliases
  with the prefix and an architecture; they are named after the image; a fingerprint is of one image. Which of an
  image's aliases the code takes, that it takes one, and that it finds the place of each field is
  proved (`Suitable`, `Request`, `FindRelevantImages`). `AnswerInv`: what was asked and shown is
  the answer of the server wanted.
* `PanicsCorrect` (`StartupProofs`): `Spec => []PanicsKnown`, with no condition on overlaps.
  `PanicInv`: what brought the invocation down was an image with a minor version *of the server it
  loaded*, the event, or the environment.

### Only model-checked

* `Termination`, `WrapperExits`, `LinesShown`, `SignalsArrive`: liveness under fairness is out of
  the prover's reach.
* `ArgsArrive`, `RunsInPlace`: what a shell makes of a text needs induction over the text.
* `NoSpuriousError`: that a refusal has a reason needs the opposite of `EditInv`, what is *still*
  missing when a device is added.

## Not modelled, and the plan

In this order:

1. register of `Accounts` run inside the machine of `Target`, so that create's
   rollback meets real groups.
2. Images and events that the server changes while a create is under way.

Left out for good: status, exists, rootfs and help, which read the server at most once and
print; the images, snapshots and storage of the LXD daemon; `CheckContainer` and
`FixContainer` of the fixables, which nothing calls; what is copied to the input of the
tool; packaging.
