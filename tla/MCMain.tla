--------------------------------- MODULE MCMain --------------------------------
(****************************************************************************)
(* Instances of Main for TLC.                                               *)
(****************************************************************************)
EXTENDS MainProperties, AccountProperties, TLC

CONSTANTS p1, p2, p3, home, other, ann, bob

(* An image with the alias that its truth gives it.                         *)
Named3(fp, fw, minor, host, arch, variant) ==
    [fp |-> fp,
     truth |-> [fw |-> fw, minor |-> minor, arch |-> arch, updates |-> variant = "dev"],
     aliases |-> <<[sdk |-> TRUE, slash |-> TRUE, base |-> fw, minor |-> minor,
                    fields |-> <<host, arch, variant>>]>>]

NoTruth == [fw |-> "none", minor |-> FALSE, arch |-> "none", updates |-> FALSE]
Alias(sdk, slash, base, fields) ==
    [sdk |-> sdk, slash |-> slash, base |-> base, minor |-> FALSE, fields |-> fields]
Foreign(fp, aliases) == [fp |-> fp, aliases |-> aliases, truth |-> NoTruth]

ThreeFields == <<"amd64", "armhf", "dev">>
Good == Named3("f1", "ubuntu-sdk-15.04", FALSE, "amd64", "armhf", "dev")
Odd == Named3("f6", "odd", FALSE, "amd64", "armhf", "dev")
Ours ==
    <<Foreign("f0", <<>>), Odd,
      Good,
      Named3("f2", "ubuntu-sdk-16.04", FALSE, "amd64", "i386", ""),
      Foreign("f3", <<Alias(FALSE, TRUE, "odd", <<"x">>)>>),
      Named3("f4", "ubuntu-sdk-15.04", TRUE, "amd64", "armhf", "dev"),
      [Named3("f5", "ubuntu-sdk-16.04", FALSE, "i386", "amd64", "rel") EXCEPT
         !.aliases = <<Alias(FALSE, TRUE, "odd", <<>>),
                       Alias(TRUE, FALSE, "ubuntu-sdk-15.04", ThreeFields)>> \o @]>>
Theirs == <<Good, Odd>>
MCCatalog == (home :> Ours) @@ (other :> Theirs)

Line == [cmd |-> "images", want |-> home, fp |-> "f1", args |-> <<>>, cwd |-> <<"a">>,
         configures |-> FALSE, sudo |-> "none", pkexec |-> "none", user |-> "none",
         sup |-> FALSE]
On(cmd) == [Line EXCEPT !.cmd = cmd]
Create(fp) == [On("create") EXCEPT !.fp = fp]

Event1 == [own |-> TRUE, metadata |-> TRUE, final |-> FALSE, progress |-> "50%"]
Harmless == {Event1, [Event1 EXCEPT !.own = FALSE, !.progress = "none"],
             [Event1 EXCEPT !.metadata = FALSE, !.progress = "none"],
             [Event1 EXCEPT !.final = TRUE, !.progress = "none"]}

(* Every short text as an argument, as one of two, or as the directory.     *)
Texts(n) == UNION {[1..k -> Char] : k \in 0..n}
Arguments == {<<>>} \cup {<<t>> : t \in Texts(3)} \cup {<<t, u>> : t \in Texts(1), u \in Texts(2)}

(* A user whose primary group has her number, and one for whom it has not   *)
(* and whose number another group has.  The container has some groups of    *)
(* the host, one of them with another number.                               *)
User2 == ("root" :> [uid |-> 0, gid |-> 0]) @@ (ann :> [uid |-> 10, gid |-> 10])
         @@ (bob :> [uid |-> 11, gid |-> 5])
Group(gid, name, members) == [gid |-> gid, name |-> name, members |-> members]
HostGroups == <<Group(4, "adm", {ann}), Group(5, "users", {}), Group(10, "ann", {}),
                Group(44, "video", {bob}), Group(27, "sudo", {ann, bob}),
                Group(11, "docker", {}), Group(46, "plugdev", {ann})>>
In(gid, name) == [gid |-> gid, name |-> name]
SomeGroups == {In(5, "users"), In(27, "sudo"), In(47, "plugdev")}
Guests ==
    {[groups |-> SomeGroups \cup g, accounts |-> a] :
        g \in {{In(44, "video"), In(4, "sys")}, {}, {In(44, "video"), In(10, "ubuntu")},
              {In(44, "video"), In(11, "docker"), In(50, "ann")}},
        a \in {{}, {[name |-> "ubuntu", uid |-> 10, gid |-> 10, groups |-> {},
                   by |-> "nobody"]}}}

Register(sudo, pkexec, user, sup) ==
    [On("register") EXCEPT !.sudo = sudo, !.pkexec = pkexec, !.user = user, !.sup = sup]

MCMenu(name) ==
    CASE name = "first" -> {On("images")}
      [] name = "later" -> {On("images"), Create("f2"), On("wrapper"), On("list")}
      [] name = "apart" -> {On("images"), [On("create") EXCEPT !.want = other]}
      [] name = "chosen" -> {Create(fp) : fp \in {"none", "f0", "f1", "f2", "f3", "f4", "f5", "f6"}}
                            \cup {On("images"), On("unknown"), On("upgrade")}
      [] name = "typed" -> {[On("exec") EXCEPT !.args = a] : a \in Arguments}
                           \cup {[On("wrapper") EXCEPT !.args = a] : a \in Arguments}
                           \cup {[On("exec") EXCEPT !.args = <<<<"a">>>>, !.cwd = d] : d \in Texts(2)}
      [] name = "cmake" -> {[On("wrapper") EXCEPT !.args = <<<<"a">>>>, !.configures = c] : c \in BOOLEAN}
      [] name = "users" -> {Register("none", ann, "none", TRUE), Register(ann, bob, "none", FALSE),
                            Register(ann, "none", bob, TRUE), Register(bob, ann, "root", TRUE),
                            Register("none", "none", ann, TRUE), Register("nouser", ann, ann, TRUE),
                            Register(bob, "none", "nouser", FALSE)}
      [] name = "ann" -> {Register(ann, "none", "none", s) : s \in BOOLEAN}
      [] name = "both" -> {Register(ann, "none", "none", TRUE), Register(ann, "none", bob, TRUE)}

Scenario == [remote |-> home, crt |-> "old", key |-> "old", alone |-> TRUE,
             runs |-> {p1}, menu |-> "typed", events |-> {}, users |-> User2, groups |-> HostGroups,
             guest |-> [groups |-> SomeGroups \cup {In(44, "video")}, accounts |-> {}]]

(* First runs at once, or one after the other over what is there; users of  *)
(* different servers; every image, and events; every text; cmake twice;     *)
(* registers of one user or of two at once, and one after the other.        *)
MCScenarios ==
    {[Scenario EXCEPT !.remote = r, !.crt = "none", !.key = "none", !.alone = FALSE,
        !.runs = {p1, p2, p3}, !.menu = "first"] : r \in {"none", home}}
    \cup {[Scenario EXCEPT !.remote = r, !.crt = c, !.key = c, !.runs = {p1, p2},
             !.menu = "later"] : r \in {"none", home, other}, c \in {"old", "none"}}
    \cup {[Scenario EXCEPT !.alone = FALSE, !.runs = {p1, p2}, !.menu = "apart"],
          [Scenario EXCEPT !.menu = "chosen", !.events = Harmless],
          [Scenario EXCEPT !.menu = "chosen", !.events = {[Event1 EXCEPT !.progress = "none"]}],
          Scenario,
          [Scenario EXCEPT !.runs = {p1, p2}, !.menu = "cmake"],
          [Scenario EXCEPT !.runs = {p1, p2}, !.menu = "ann", !.alone = FALSE],
          [Scenario EXCEPT !.runs = {p1, p2}, !.menu = "both", !.alone = FALSE]}
    \cup {[Scenario EXCEPT !.runs = {p1, p2}, !.menu = "users", !.guest = g] : g \in Guests}
================================================================================
