-------------------------------- MODULE MCTarget -------------------------------
(****************************************************************************)
(* Instances of Target for TLC.                                             *)
(****************************************************************************)
EXTENDS TargetProperties

CONSTANTS a, b, p1, p2, card, gpu, drv, drv2, ann

MCNames == {a, b}
OneName == {a}
MCUsers == {ann, "root", "nouser"}
TwoDrivers == {drv, drv2}

Homes == MCUsers \cup {"tmp"}

(* A container made by some other means before the commands run.            *)
Old(status, click, devs) ==
    [NoContainer EXCEPT !.status = status, !.cfg.click = click,
                        !.cfg.devs = [d \in Dev |-> IF d \in DOMAIN devs
                                                    THEN devs[d] ELSE "none"]]

Cmd(kind, n, user, flag) == [kind |-> kind, ct |-> n, user |-> user, flag |-> flag]
On(kind, n) == Cmd(kind, n, ann, "false")

NoNet == [bridges |-> {}, eth0 |-> "none"]
BrNet == [bridges |-> {"sdkbr0"}, eth0 |-> "sdkbr0"]
Place(cts, paths, driver, network) ==
    [ct |-> cts, host |-> Homes \cup paths, nv |-> driver, net |-> network]

Lossless == {}
Undoable == Ops \ {"init"}

--------------------------------------------------------------------------------
(* Two creates, of the same target or of two, next to a container that is   *)
(* no click target.                                                         *)
CreateMenu == {Cmd("create", n, u, "true") : n \in MCNames, u \in {ann, "root"}}
CreateWorlds ==
    {Place((a :> NoContainer) @@ (b :> c), {card}, "none", BrNet) :
        c \in {NoContainer, Old("Running", FALSE, "tmp" :> "tmp")}}

--------------------------------------------------------------------------------
(* One command after the other over a click target whose devices have aged, *)
(* the host changing between commands.                                      *)
CareMenu == {Cmd("create", a, ann, "true"), Cmd("create", a, "nouser", "true"),
             On("autofix", a), On("initialized", a), On("destroy", b),
             Cmd("set", b, ann, "true"), On("register", b), On("boot", b)}
CareWorlds ==
    {Place((a :> NoContainer) @@ (b :> Old(s, TRUE, devs)),
           {card, gpu, drv, drv2}, drv, BrNet) :
        s \in {"Stopped", "Running", "Frozen"},
        devs \in {<<>>, ("nv-bin" :> drv2) @@ (ann :> ann),
                 (card :> "unchecked") @@ (gpu :> gpu) @@ ("nv-bin" :> drv)}}

--------------------------------------------------------------------------------
(* The same commands and autosetup with every request answered, also over   *)
(* containers in every state, ephemeral or with a device that is missing on *)
(* the host, and over every network.                                        *)
CleanMenu == CareMenu \cup {On("autosetup", a), On("create", b),
                          Cmd("register", b, "root", "false"), On("destroy", a)}
Networks == {NoNet, BrNet, [bridges |-> {}, eth0 |-> "other"],
             [bridges |-> {"other"}, eth0 |-> "other"],
             [bridges |-> {"sdkbr0"}, eth0 |-> "none"]}
CleanWorlds ==
    CareWorlds \cup
    {Place((a :> [Old(s, FALSE, ann :> ann) EXCEPT !.eph = e])
            @@ (b :> Old("Frozen", c, card :> card)), paths, "none", network) :
        s \in {"Stopped", "Running", "Frozen"}, e \in BOOLEAN, c \in BOOLEAN,
        paths \in {{}, {card}}, network \in Networks}

--------------------------------------------------------------------------------
(* Two commands at once of every kind but destroy, either of which may be   *)
(* killed; a container that is made meanwhile keeps its maker.              *)
MixedMenu == {On("create", a), On("autofix", a), On("autosetup", a),
              On("register", a), Cmd("set", a, ann, "true"), On("boot", b),
              On("initialized", a)}
MixedDevs == (gpu :> gpu) @@ (card :> "unchecked")
MixedWorlds ==
    {Place((a :> NoContainer) @@ (b :> Old("Frozen", TRUE, MixedDevs)), {card}, "none", NoNet),
     Place((a :> Old("Running", TRUE, <<>>)) @@ (b :> Old("Running", TRUE, MixedDevs)),
           {card, gpu}, "none", NoNet)}

--------------------------------------------------------------------------------
(* The disagreements between the program and its texts.                     *)
LoneCreateMenu == {On("create", a)}
LoneCreateWorlds == {Place(a :> NoContainer, {card}, "none", BrNet)}
SetMenu == {Cmd("set", a, ann, "true"), On("autofix", a)}
SetWorlds == {Place(a :> Old("Stopped", TRUE, <<>>), {card}, "none", BrNet)}
LoneSetupMenu == {On("autosetup", a)}
LoneSetupWorlds ==
    {Place(a :> Old("Running", TRUE, <<>>), {}, "none",
           [bridges |-> {}, eth0 |-> "other"])}
================================================================================
