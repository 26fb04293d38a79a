------------------------------- MODULE MCWrapper -------------------------------
(* Instances of Wrapper for TLC.                                            *)
EXTENDS WrapperProperties

(* A path may be split between two writes, and a line may end inside one.   *)
SomeChunks == {<<"slash">>, <<"word">>, <<"slash", "word">>, <<"word", "nl">>}

Short == [s \in Streams |-> IF s = "stdout" THEN 3 ELSE 1]
Shorter == [s \in Streams |-> IF s = "stdout" THEN 2 ELSE 0]
================================================================================
