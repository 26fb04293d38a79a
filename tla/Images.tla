--------------------------------- MODULE Images --------------------------------
(****************************************************************************)
(* How usdk-target reads the images of a server: findRelevantImages, and    *)
(* what create makes of the alias of the image it is asked for.             *)
(*                                                                          *)
(* The name of an alias is                                                  *)
(*     <base><.minor>-<field>-<field>-...[/<architecture>]                  *)
(* sdk: it begins with "ubuntu-sdk"; slash: it has the last part; base is   *)
(* the framework ubuntu-<x>-dd.dd, or "odd" if it does not look like that;  *)
(* minor: whether it has a third number; fields: what follows, "" is empty. *)
(****************************************************************************)
EXTENDS Naturals, Sequences, SequencesExt

AliasType == [sdk : BOOLEAN, slash : BOOLEAN, base : STRING, minor : BOOLEAN,
              fields : Seq(STRING)]

(* An image has a fingerprint; truth is what the publisher made it of, fw   *)
(* "none" if not for this program.                                          *)
ImageType == [fp : STRING \ {"none"}, aliases : Seq(AliasType),
              truth : [fw : STRING, minor : BOOLEAN, arch : STRING, updates : BOOLEAN]]

(* An entry that stays empty: its alias is the empty text.                  *)
NoDesc == [alias |-> [base |-> "odd", minor |-> FALSE, fields |-> <<>>], fp |-> "none"]

(* Mutant of Suitable: an alias without an architecture is taken.           *)
SuitableAny(alias) == alias.sdk

Suitable(alias) == alias.sdk /\ alias.slash

(* The first suitable alias describes an image; the entries of the other    *)
(* images stay empty.                                                       *)
FindRelevantImages(images) ==
    [i \in DOMAIN images |->
        LET suited == SelectInSeq(images[i].aliases, Suitable)
        IN  IF suited = 0 THEN NoDesc
            ELSE [alias |-> images[i].aliases[suited], fp |-> images[i].fp]]

(* The two expressions of create: both ask for three fields, of which the   *)
(* last may be empty.                                                       *)
Matches(alias, minor) ==
    /\ alias.base # "odd" /\ alias.minor = minor
    /\ Len(alias.fields) = 3 /\ alias.fields[1] # "" /\ alias.fields[2] # ""

Failed(how) == [end |-> how, fw |-> "none", arch |-> "none", updates |-> FALSE]

(* An alias with a minor number matches, but line 117 indexes the outer     *)
(* parts, which is empty then.                                              *)
ParseAlias(alias) ==
    CASE Matches(alias, FALSE) ->
            [end |-> "ok", fw |-> alias.base, arch |-> alias.fields[2],
             updates |-> alias.fields[3] = "dev"]
      [] Matches(alias, TRUE) -> Failed("panic")
      [] OTHER -> Failed("error")

(* What create is to send for a fingerprint, or how it ends.                *)
Request(images, fp) ==
    LET descs == FindRelevantImages(images)
        found == SelectInSeq(descs, LAMBDA d : d.fp = fp)
    IN  IF found = 0 THEN Failed("error") ELSE ParseAlias(descs[found].alias)

--------------------------------------------------------------------------------
(* initProgressTracker: what the handler makes of an event of the server.   *)
(* own: the operation is the one of Init; metadata: the operation has some; *)
(* progress: its download_progress, or "none".  The mutant looks at the     *)
(* progress of every operation.                                             *)
ProgressAny(event) ==
    IF ~event.metadata \/ event.final THEN "ignored"
    ELSE IF event.progress = "none" THEN "panic" ELSE "shown"

Progress(event) ==
    IF ~event.own \/ ~event.metadata \/ event.final THEN "ignored"
    ELSE IF event.progress = "none" THEN "panic" ELSE "shown"
================================================================================
