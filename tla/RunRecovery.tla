----------------------------- MODULE RunRecovery ----------------------------
(***************************************************************************)
(* The run state machine beside what its event log says.  Every command    *)
(* appends events before it saves the snapshot; DeriveRun folds them back  *)
(* into a snapshot, for wf doctor to compare and for wf run adopt to take  *)
(* over when the snapshot is missing or unreadable (fresh clone, merge     *)
(* conflict in state/run.json).                                            *)
(*                                                                         *)
(* The log is kept folded: log[i] is what DeriveRun makes of the live      *)
(* events of run i.  A later run shadows an earlier one in that fold, and  *)
(* an archived run has no live events, so DeriveRun returns the newest     *)
(* entry.                                                                  *)
(***************************************************************************)
EXTENDS RunControl, FiniteSetsExt

CONSTANT MaxAdopts   \* bound: adoptions in one behaviour

ASSUME AdoptsAssumption == MaxAdopts \in Nat

VARIABLES
  log,      \* run id -> the snapshot its live events derive to, or NoRun
  adopts,   \* adoptions so far
  tally     \* history: run id -> force and loop events of an unclosed run

rvars == <<vars, log, adopts, tally>>

Id == 1..MaxRuns

-----------------------------------------------------------------------------
(* DeriveRun, one event at a time: the entry after it, given the one before. *)

\* run start | branch | adopt: everything but the lineage starts over.
Fresh(id, parent, f) == NewRun(id, parent, f, NoPhase)

Entered(d, p) == [d EXCEPT !.phase = p]
Exited(d, p)  == [d EXCEPT !.exited = @ \cup {p}]

\* Fault: a force is folded as a plain exit.
ForcedUncounted(d, p) == Exited(d, p)

Forced(d, p)  == [Exited(d, p) EXCEPT !.forces = @ + 1]
Waived(d, p)  == [d EXCEPT !.waived = @ \cup {p}]

\* Fault: the loop event is not folded.
LoopedUncounted(d, p) == Entered(d, p)

\* The target stays among the exited phases, and no slip is counted.
Looped(d, p) == [Entered(d, p) EXCEPT !.loops = @ + 1]

Parked(d)  == [d EXCEPT !.status = "parked"]
Resumed(d) == [d EXCEPT !.status = "active"]

\* The enter event follows only when there is a next phase.
EnteredIfAny(d, p) == IF p = NoPhase THEN d ELSE Entered(d, p)

\* The runs with live events, and the one DeriveRun returns.
Live    == {i \in Id : log[i].id # 0}

\* Fault: a later start does not take over from an earlier one.
DerivedOldest == IF Live = {} THEN NoRun ELSE log[Min(Live)]

Derived == IF Live = {} THEN NoRun ELSE log[Max(Live)]

-----------------------------------------------------------------------------

Untallied == [forces |-> 0, loops |-> 0]

RInit ==
  /\ Init
  /\ log = [i \in Id |-> NoRun]
  /\ adopts = 0
  /\ tally = [i \in Id |-> Untallied]

\* The command's events on the current run.
Log(d) ==
  /\ log' = [log EXCEPT ![run.id] = d]
  /\ UNCHANGED adopts

Uncounted == UNCHANGED tally

RStart(f) ==
  /\ Start(f)
  /\ log' = [log EXCEPT ![run'.id] = Entered(Fresh(run'.id, 0, f), run'.phase)]
  /\ UNCHANGED <<adopts, tally>>

\* RunStart logs start and enter for the child, then branch is logged on top.
RBranch(f) ==
  /\ Branch(f)
  /\ log' = [log EXCEPT ![run.id]  = Parked(@),
                        ![run'.id] = Fresh(run'.id, run.id, f)]
  /\ UNCHANGED <<adopts, tally>>

RBranchRefused == BranchRefused /\ Log(Parked(log[run.id])) /\ Uncounted

\* close is logged and the events of the run leave the live log.
Archived == [log EXCEPT ![run.id] = NoRun]

RClose ==
  /\ Close
  /\ log' = Archived
  /\ tally' = [tally EXCEPT ![run.id] = Untallied]
  /\ UNCHANGED adopts

RExitPhase ==
  /\ ExitPhase
  /\ Log(EnteredIfAny(Exited(log[run.id], run.phase), run'.phase))
  /\ Uncounted

RForceExit ==
  /\ ForceExit
  /\ Log(EnteredIfAny(Forced(log[run.id], run.phase), run'.phase))
  /\ tally' = [tally EXCEPT ![run.id].forces = @ + 1]

RForceParks == ForceParks /\ Log(Parked(log[run.id])) /\ Uncounted

\* Here the enter event is logged even when there is no next phase.
RWaive(p) ==
  /\ Waive(p)
  /\ Log(IF run.phase = p THEN Entered(Waived(log[run.id], p), run'.phase)
         ELSE Waived(log[run.id], p))
  /\ Uncounted

RLoop(c, a) ==
  /\ Loop(c, a)
  /\ Log(Looped(log[run.id], LoopTarget[c]))
  /\ tally' = [tally EXCEPT ![run.id].loops = @ + 1]

RLoopParks(c) == LoopParks(c) /\ Log(Parked(log[run.id])) /\ Uncounted
RPark         == Park /\ Log(Parked(log[run.id])) /\ Uncounted
RResume       == Resume /\ Log(Resumed(log[run.id])) /\ Uncounted

\* DeriveRun skips classification records.
RReclassify(f) == Reclassify(f) /\ UNCHANGED <<log, adopts, tally>>

-----------------------------------------------------------------------------
(* Recovery.                                                               *)

\* state/run.json is missing or unreadable on this machine; the log is not.
LoseSnapshot ==
  /\ Open
  /\ adopts < MaxAdopts
  /\ run' = NoRun
  /\ redo' = {}
  /\ UNCHANGED <<minted, log, adopts, tally>>

\* Adopt takes the derived run over, then logs adopt on it, which carries
\* neither family nor parent.  A snapshot that is there is no obstacle.
Adopt ==
  /\ Derived.id # 0
  /\ adopts < MaxAdopts
  /\ adopts' = adopts + 1
  /\ run' = Derived
  /\ log' = [log EXCEPT ![Derived.id] = Fresh(Derived.id, 0, NoFamily)]
  /\ redo' = IF Derived.id = run.id THEN redo ELSE {}
  /\ UNCHANGED <<minted, tally>>

RNext ==
  \/ \E f \in Family : RStart(f) \/ RBranch(f) \/ RReclassify(f)
  \/ RBranchRefused
  \/ RClose
  \/ RExitPhase
  \/ RForceExit
  \/ RForceParks
  \/ \E p \in Phase : RWaive(p)
  \/ \E c \in Cause, a \in AC : RLoop(c, a)
  \/ \E c \in Cause : RLoopParks(c)
  \/ RPark
  \/ RResume
  \/ LoseSnapshot
  \/ Adopt

RSpec == RInit /\ [][RNext]_rvars

-----------------------------------------------------------------------------
(* Properties.                                                             *)

RTypeOK ==
  /\ TypeOK
  /\ log \in [Id -> Run]
  /\ adopts \in 0..MaxAdopts
  /\ tally \in [Id -> [forces : Nat, loops : Nat]]

\* Whatever runs were branched, overwritten while parked, archived or adopted,
\* wf doctor finds the snapshot's run to be the one the log derives to.
DoctorAgrees == Open => Derived.id = run.id

\* What an open run was granted is in its log: its waivers, forces, loops and
\* exits survive a lost snapshot (until a first adoption restarts the fold).
GrantsAreLogged ==
  Open /\ log[run.id].family # NoFamily =>
    /\ log[run.id].waived = run.waived
    /\ log[run.id].forces = run.forces
    /\ log[run.id].loops = run.loops
    /\ log[run.id].status = run.status
    /\ run.exited \subseteq log[run.id].exited

\* One loss and adoption in the life of a run buy it no extra force or loop.
CapsSurviveAdoption ==
  \A i \in Id : tally[i].forces <= 2 /\ tally[i].loops <= MaxLoops

=============================================================================
