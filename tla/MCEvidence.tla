----------------------------- MODULE MCEvidence -----------------------------
(* Evidence with the adversary's phases: its verdict is an item of the     *)
(* contracts of frame, design, build and verify; in any phase but frame    *)
(* and design its mode is red-team.                                        *)
EXTENDS Evidence

LatePhases      == <<"design", "build", "verify", "ship">>

AdversaryScope ==
  [frame |-> "abuse-case", design |-> "attack-tree",
   build |-> "red-team", verify |-> "red-team", ship |-> "red-team"]

\* What says the same or is read by nobody is left out: a clean verdict with
\* findings stands for any that fails, and one word for all of other scopes.
SomeWord ==
  [mode |-> {"clean", "contradictory", "risky"},
   none |-> {"clean", "contradictory"},
   other |-> {"clean"}]

=============================================================================
