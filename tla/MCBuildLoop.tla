----------------------------- MODULE MCBuildLoop -----------------------------
(* BuildLoop with a native task that starts with the tid of a plan and one *)
(* that does not, and commands of two runners.                             *)
EXTENDS BuildLoop

SomeNative  == {"plain", "tagged"}
SomeSubject == [plain |-> [tid |-> NoTid, title |-> "parse"],
                tagged |-> [tid |-> 2, title |-> "parse"]]
SomeName    == {[tid |-> 2, title |-> "print"]}
SomeCmd     == {<<"go", "a">>, <<"scan">>}

=============================================================================
