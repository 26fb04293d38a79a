--------------------------------- MODULE Startup -------------------------------
(****************************************************************************)
(* How every invocation begins: GetConfigOrDie and, for usdk-target,        *)
(* EnsureLXDInitializedOrDie (helpers.go), over files that all invocations  *)
(* share - config.yml, of which only the remote "ubuntu-sdk-images"         *)
(* matters, client.crt and client.key.  The remote is changed by the        *)
(* external command lxc, which reads and writes the whole file.             *)
(****************************************************************************)
EXTENDS Naturals

CONSTANTS
    Runs,       \* invocations of usdk-target or usdk-wrapper
    Addrs,      \* addresses of image servers
    MaxFaults   \* bound: files, requests and commands that fail

ASSUME StartupAssumption ==
    /\ {"none", "old", "empty", "cut"} \cap (Runs \cup Addrs) = {}
    /\ MaxFaults \in Nat

VARIABLES
    remote,     \* in config.yml, the address of ubuntu-sdk-images, or "none"
    crt, key,   \* the invocation that generated the file; "none": no file;
                \* "empty" or "cut": a write to it did not happen, or stopped
    want,       \* defaultImageRemote of each invocation
    pc,         \* where it is, or how it ended
    ensured,    \* EnsureLXDInitializedOrDie has returned (or is not called)
    conf,       \* the remote in the configuration it loaded last
    lxc,        \* the remote in the configuration its lxc loaded
    faults

files == <<remote, crt, key>>

Ended == {"ok", "error", "die", "panic", "killed"}
Writing == {"crtwrite", "keywrite"}
Pairing == {"load", "cert", "crt", "key"} \cup Writing
Starting == Pairing \cup {"check", "rmload", "rmsave", "addload", "addsave"}

(* What a file is that was created, but not written to its end.             *)
Torn == {"empty", "cut"}

Go(p, place) == pc' = [pc EXCEPT ![p] = place]

(* What GetConfigOrDie returns to.                                          *)
Caller(p) == IF ensured[p] THEN "client" ELSE "check"

--------------------------------------------------------------------------------
(* Mutant of LoadConfig: the cache works, and is not dropped after the      *)
(* remote was added.                                                        *)
LoadConfigCached(p) ==
    /\ pc[p] = "load"
    /\ conf' = [conf EXCEPT ![p] = IF ensured[p] /\ lxc[p] # "unread" THEN @ ELSE remote]
    /\ Go(p, "cert")
    /\ UNCHANGED <<files, ensured, lxc>>

(* GetConfigOrDie loads the file whenever it is called: `globConfig, err :=`*)
(* shadows the cache it looks at.                                           *)
LoadConfig(p) ==
    /\ pc[p] = "load"
    /\ conf' = [conf EXCEPT ![p] = remote]
    /\ Go(p, "cert")
    /\ UNCHANGED <<files, ensured, lxc>>

(* Mutant of NeedsCert: a pair is only generated if both are missing.       *)
NeedsCertBoth == crt = "none" /\ key = "none"

NeedsCert == crt = "none" \/ key = "none"

FindOrGenCert(p) ==
    /\ pc[p] = "cert"
    /\ Go(p, IF NeedsCert THEN "crt" ELSE Caller(p))
    /\ UNCHANGED <<files, ensured, conf, lxc>>

(* GenCert creates or truncates the certificate and writes it, and then the *)
(* key, by two calls each.                                                  *)
GenCert(p) ==
    /\ \/ pc[p] = "crt" /\ crt' = "empty" /\ Go(p, "crtwrite") /\ UNCHANGED key
       \/ pc[p] = "crtwrite" /\ crt' = p /\ Go(p, "key") /\ UNCHANGED key
       \/ pc[p] = "key" /\ key' = "empty" /\ Go(p, "keywrite") /\ UNCHANGED crt
       \/ pc[p] = "keywrite" /\ key' = p /\ Go(p, Caller(p)) /\ UNCHANGED crt
    /\ UNCHANGED <<remote, ensured, conf, lxc>>

(* A write that fails leaves the file as it is, or cut off; GenCert looks   *)
(* at the result of neither write and goes on.                              *)
WriteFails(p) ==
    /\ \/ pc[p] = "crtwrite" /\ crt' \in {crt, "cut"} /\ Go(p, "key") /\ UNCHANGED key
       \/ pc[p] = "keywrite" /\ key' \in {key, "cut"} /\ Go(p, Caller(p)) /\ UNCHANGED crt
    /\ UNCHANGED <<remote, ensured, conf, lxc>>

(* The pair that a client reads: without a certificate or a key it connects *)
(* unauthenticated, else the two have to be whole and belong together.      *)
PairAccepted == {crt, key} \cap {"none", "empty"} # {} \/ (crt = key /\ crt # "cut")

--------------------------------------------------------------------------------
(* Mutant of NextForRemote: a remote is removed whatever its address.       *)
NextForRemoteAny(p) == IF conf[p] = "none" THEN "addload" ELSE "rmload"

(* Mutant of NextForRemote: a remote with another address is not removed.   *)
NextForRemoteAdds(p) == IF conf[p] = want[p] THEN "lookup" ELSE "addload"

(* What EnsureLXDInitializedOrDie makes of the remote in the configuration. *)
NextForRemote(p) ==
    IF conf[p] = want[p] THEN "lookup"
    ELSE IF conf[p] = "none" THEN "addload"
    ELSE "rmload"

CheckRemote(p) ==
    /\ pc[p] = "check"
    /\ Go(p, NextForRemote(p))
    /\ ensured' = [ensured EXCEPT ![p] = NextForRemote(p) = "lookup"]
    /\ UNCHANGED <<files, conf, lxc>>

(* lxc remote remove, lxc remote add: each reads the file, and then writes  *)
(* it, or fails because the remote is not there, or there already.          *)
LxcLoad(p) ==
    /\ \/ pc[p] = "rmload" /\ Go(p, "rmsave")
       \/ pc[p] = "addload" /\ Go(p, "addsave")
    /\ lxc' = [lxc EXCEPT ![p] = remote]
    /\ UNCHANGED <<files, ensured, conf>>

LxcRemoteRemove(p) ==
    /\ pc[p] = "rmsave"
    /\ \/ lxc[p] # "none" /\ remote' = "none" /\ Go(p, "addload")
       \/ lxc[p] = "none" /\ Go(p, "die") /\ UNCHANGED remote
    /\ UNCHANGED <<crt, key, ensured, conf, lxc>>

LxcRemoteAdd(p) ==
    /\ pc[p] = "addsave"
    /\ \/ /\ lxc[p] = "none" /\ remote' = want[p]
          /\ Go(p, "lookup") /\ ensured' = [ensured EXCEPT ![p] = TRUE]
       \/ lxc[p] # "none" /\ Go(p, "die") /\ UNCHANGED <<remote, ensured>>
    /\ UNCHANGED <<crt, key, conf, lxc>>

StartupStep(p) ==
    \/ LoadConfig(p) \/ FindOrGenCert(p) \/ GenCert(p)
    \/ CheckRemote(p) \/ LxcLoad(p) \/ LxcRemoteRemove(p) \/ LxcRemoteAdd(p)
================================================================================
