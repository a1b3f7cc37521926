----------------------------- MODULE RunControl -----------------------------
(***************************************************************************)
(* The run state machine of internal/runctl: the snapshot state/run.json   *)
(* and the commands that move it (wf run start|branch|close, wf phase      *)
(* exit|waive, wf loop, wf park, wf run resume, wf record classification). *)
(* A command is one atomic step here: it loads the snapshot, decides,      *)
(* appends its events and saves.  What the events add to the log is        *)
(* modelled in RunRecovery; interleaved commands in SharedCommands; the    *)
(* bytes of the log in Ledger.                                             *)
(*                                                                         *)
(* Whether a phase contract is met is decided by records this module does  *)
(* not keep, so ExitPhase may succeed or not at any time.                  *)
(***************************************************************************)
EXTENDS Naturals

CONSTANTS
  Phase,          \* phase ids of the spec
  Order,          \* phase -> position in the workflow
  Family,         \* route families
  Participation,  \* phase -> family -> "required" | "waivable" | "none"
  AC,             \* acceptance criteria a loop may name
  MaxLoops,       \* loops.max_per_run
  MaxSlips,       \* loops.max_slip_per_ac
  ReclassifyIn,   \* phases in which agents record a classification
  MaxRuns         \* bound: runs started in one behaviour

NoPhase  == ""
NoFamily == ""

ASSUME PhasesAssumption ==
  /\ {"design", "plan", "build", "verify", "ship"} \subseteq Phase
  /\ NoPhase \notin Phase
  /\ Order \in [Phase -> Nat]
  /\ \A p, q \in Phase : Order[p] = Order[q] => p = q

\* A loop goes back, never forward.
ASSUME LoopsGoBackAssumption ==
  /\ \A p \in {"design", "plan", "build"} : Order[p] < Order["verify"]
  /\ Order["verify"] < Order["ship"]

ASSUME FamiliesAssumption ==
  /\ Family # {} /\ NoFamily \notin Family
  /\ \A p \in Phase, f \in Family :
       Participation[p][f] \in {"required", "waivable", "none"}

ASSUME BoundsAssumption ==
  /\ MaxLoops \in Nat /\ MaxSlips \in Nat /\ MaxRuns \in Nat
  /\ ReclassifyIn \subseteq Phase \cup {NoPhase}

VARIABLES
  run,      \* the snapshot in state/run.json; run.id = 0 when there is none
  minted,   \* number of run ids minted so far
  redo      \* history: phases the last loops re-opened, not exited since

vars == <<run, minted, redo>>

-----------------------------------------------------------------------------
(* The phase list of a family (spec.go).                                   *)

\* participation[family] != "none"; a family the map does not know reads "".
PhasesFor(f) ==
  {p \in Phase : f \in Family => Participation[p][f] # "none"}

\* Participating phases later than p and not waived.
Ahead(f, p, waived) ==
  {q \in PhasesFor(f) \ waived : Order[q] > Order[p]}

\* Fault: the family's phases unsorted, any of them may come next.
NextUnsorted(f, p, waived) ==
  IF p \in PhasesFor(f) /\ Ahead(f, p, waived) # {}
  THEN CHOOSE q \in Ahead(f, p, waived) : TRUE
  ELSE NoPhase

\* NextPhase, repeated over waived phases.  A phase that is not one of the
\* family's (or the last one) has no successor.
NextUnwaived(f, p, waived) ==
  IF p \in PhasesFor(f) /\ Ahead(f, p, waived) # {}
  THEN CHOOSE q \in Ahead(f, p, waived) :
         \A r \in Ahead(f, p, waived) : Order[q] <= Order[r]
  ELSE NoPhase

IsFirst(f, p) ==
  p \in PhasesFor(f) /\ \A q \in PhasesFor(f) : Order[p] <= Order[q]
IsLast(f, p) ==
  p \in PhasesFor(f) /\ \A q \in PhasesFor(f) : Order[q] <= Order[p]

-----------------------------------------------------------------------------
(* The snapshot.                                                           *)

Run ==
  [id : 0..MaxRuns, parent : 0..MaxRuns, family : Family \cup {NoFamily},
   phase : Phase \cup {NoPhase}, status : {"none", "active", "parked"},
   loops : Nat, slips : [AC -> Nat], forces : Nat,
   waived : SUBSET Phase, exited : SUBSET (Phase \cup {NoPhase})]

NewRun(id, parent, f, p) ==
  [id |-> id, parent |-> parent, family |-> f, phase |-> p,
   status |-> "active", loops |-> 0, slips |-> [a \in AC |-> 0],
   forces |-> 0, waived |-> {}, exited |-> {}]

NoRun == [NewRun(0, 0, NoFamily, NoPhase) EXCEPT !.status = "none"]

Open == run.id # 0

Init ==
  /\ run = NoRun
  /\ minted = 0
  /\ redo = {}

-----------------------------------------------------------------------------
(* Run lifecycle.                                                          *)

\* A fresh snapshot at the family's first phase.
Begin(f, parent) ==
  /\ minted < MaxRuns
  /\ minted' = minted + 1
  /\ \E p \in Phase : /\ IsFirst(f, p)
                      /\ run' = NewRun(minted + 1, parent, f, p)
  /\ redo' = {}

\* Only an active snapshot stops a start: a parked one is overwritten.
Start(f) ==
  /\ run.status # "active"
  /\ Begin(f, 0)

\* The parent is parked, then a child starts in its place.
Branch(f) ==
  /\ Open
  /\ Begin(f, run.id)

\* The child's family or intent is refused by RunStart, after the parent was
\* parked and saved.
BranchRefused ==
  /\ Open
  /\ run' = [run EXCEPT !.status = "parked"]
  /\ UNCHANGED <<minted, redo>>

Close ==
  /\ Open
  /\ \E last \in run.exited : IsLast(run.family, last)
  /\ run' = NoRun
  /\ redo' = {}
  /\ UNCHANGED minted

-----------------------------------------------------------------------------
(* Phase transitions.                                                      *)

\* Fault: phases exited before a loop are not walked again.
NextNotExited(r) == NextUnwaived(r.family, r.phase, r.waived \cup r.exited)

\* nextUnwaived
NextOf(r) == NextUnwaived(r.family, r.phase, r.waived)

\* Fault: the end of the phase list is a phase name.
AdvanceToEnd(r) ==
  [r EXCEPT !.exited = @ \cup {r.phase},
            !.phase = IF NextOf(r) = NoPhase THEN "closed" ELSE NextOf(r)]

Advance(r) ==
  [r EXCEPT !.exited = @ \cup {r.phase}, !.phase = NextOf(r)]

\* The exit contract, and the entry contract of the next phase, are met.
ExitPhase ==
  /\ run.status = "active"
  /\ run' = Advance(run)
  /\ redo' = redo \ {run.phase}
  /\ UNCHANGED minted

\* The first two forces of a run, each with the reason it must carry.
ForceExit ==
  /\ run.status = "active"
  /\ run.forces < 2
  /\ run' = [Advance(run) EXCEPT !.forces = @ + 1]
  /\ redo' = redo \ {run.phase}
  /\ UNCHANGED minted

\* The third force parks the run.
ForceParks ==
  /\ run.status = "active"
  /\ run.forces >= 2
  /\ run' = [run EXCEPT !.status = "parked"]
  /\ UNCHANGED <<minted, redo>>

\* Fault: any phase may be waived.
WaivableAlways(p) == Open

\* Only a phase the spec marks so for the family.
Waivable(p) ==
  /\ Open
  /\ run.family \in Family /\ Participation[p][run.family] = "waivable"

\* No status check: a parked run may waive.  Waiving the current phase moves on.
Waive(p) ==
  /\ Waivable(p)
  /\ p \notin run.exited
  /\ LET r == [run EXCEPT !.waived = @ \cup {p}]
     IN  run' = IF run.phase = p THEN [r EXCEPT !.phase = NextOf(r)] ELSE r
  /\ UNCHANGED <<minted, redo>>

-----------------------------------------------------------------------------
(* Loops.                                                                  *)

Cause == {"slip", "design", "plan", "audit"}
LoopTarget == [slip |-> "build", design |-> "design",
               plan |-> "plan", audit |-> "verify"]

\* An audit loop starts at ship (and needs grounds there); the others at verify.
LoopFrom(c) == IF c = "audit" THEN "ship" ELSE "verify"

\* Fault: the phase a loop starts from is not checked.
CanLoopAnywhere(c) == Open

CanLoop(c) == Open /\ run.phase = LoopFrom(c)

\* Fault: only slips are counted.
CountSlip(r, c, a) ==
  IF c = "slip" THEN [r EXCEPT !.slips[a] = @ + 1] ELSE r

CountLoop(r, c, a) ==
  [r EXCEPT !.loops = @ + 1,
            !.slips = IF c = "slip" THEN [r.slips EXCEPT ![a] = r.slips[a] + 1]
                     ELSE r.slips]

\* No status check, and no check that the family takes part in the target.
Loop(c, a) ==
  /\ CanLoop(c)
  /\ run.loops < MaxLoops
  /\ c = "slip" => run.slips[a] < MaxSlips
  /\ run' = [CountLoop(run, c, a) EXCEPT !.exited = @ \ {LoopTarget[c]},
                                         !.phase = LoopTarget[c]]
  /\ redo' = redo \cup {q \in Phase : /\ Order[q] >= Order[LoopTarget[c]]
                                     /\ Order[q] <= Order[LoopFrom(c)]}
  /\ UNCHANGED minted

\* One loop too many parks the run.
LoopParks(c) ==
  /\ CanLoop(c)
  /\ run.loops >= MaxLoops
  /\ run' = [run EXCEPT !.status = "parked"]
  /\ UNCHANGED <<minted, redo>>

-----------------------------------------------------------------------------
(* Park, resume, reclassify.                                               *)

Park ==
  /\ Open
  /\ run' = [run EXCEPT !.status = "parked"]
  /\ UNCHANGED <<minted, redo>>

Resume ==
  /\ run.status = "parked"
  /\ run' = [run EXCEPT !.status = "active"]
  /\ UNCHANGED <<minted, redo>>

\* A classification record rewrites the family of the snapshot at once.  The
\* engine takes it in any phase; ReclassifyIn says in which ones agents do it.
Reclassify(f) ==
  /\ Open
  /\ run.phase \in ReclassifyIn
  /\ f # run.family
  /\ run' = [run EXCEPT !.family = f]
  /\ UNCHANGED <<minted, redo>>

-----------------------------------------------------------------------------

Next ==
  \/ \E f \in Family : Start(f) \/ Branch(f) \/ Reclassify(f)
  \/ BranchRefused
  \/ Close
  \/ ExitPhase
  \/ ForceExit
  \/ ForceParks
  \/ \E p \in Phase : Waive(p)
  \/ \E c \in Cause, a \in AC : Loop(c, a)
  \/ \E c \in Cause : LoopParks(c)
  \/ Park
  \/ Resume

Spec == Init /\ [][Next]_vars

\* The agent keeps working on an active run until its contract is met (the
\* Stop gate sends it back to work), the user resumes what was parked, and a
\* closeable run is closed.
Fairness ==
  /\ SF_vars(ExitPhase)
  /\ SF_vars(Resume)
  /\ WF_vars(Close)

FairSpec == Spec /\ Fairness

-----------------------------------------------------------------------------
(* Properties.                                                             *)

TypeOK ==
  /\ run \in Run
  /\ minted \in 0..MaxRuns
  /\ redo \subseteq Phase

Done == run.exited \cup run.waived

\* No phase is jumped over: whatever loops, waivers, forces and corrections of
\* the family went before, each phase the family takes part in and that comes
\* before the current one has been exited or waived.
NoPhaseJumped ==
  Open /\ run.phase # NoPhase =>
    \A p \in PhasesFor(run.family) : Order[p] < Order[run.phase] => p \in Done

Closes == Open /\ run'.id = 0

\* RunClose looks at the last phase only, yet a run that closes has exited or
\* waived every phase its family takes part in.
ClosedRunIsComplete ==
  [][Closes => PhasesFor(run.family) \subseteq Done]_vars

\* A loop unmarks its target only and leaves the later phases marked exited;
\* still, every phase it re-opened is exited again, or waived, before the run
\* closes.
ReworkIsRewalked ==
  [][Closes => redo \cap PhasesFor(run.family) \subseteq run.waived]_vars

Closeable == \E last \in run.exited : IsLast(run.family, last)

\* PhaseExit reports a run without a phase as closeable, and it is.
NoPhaseMeansCloseable == Open /\ run.phase = NoPhase => Closeable

LoopsFit(f) == \A c \in Cause : LoopTarget[c] \in PhasesFor(f)

\* It is in each family that takes part in every phase a loop goes back to.
CloseableAsReported ==
  Open /\ run.phase = NoPhase /\ LoopsFit(run.family) => Closeable

DeadEnd == run.phase = NoPhase /\ ~ Closeable

\* With its loops capped a run cannot go round for ever: it is closed, or
\* another run takes its place; but for the dead end of a family that takes no
\* part in a phase its loops go back to.
EveryRunEnds ==
  \A i \in 1..MaxRuns : run.id = i ~> run.id # i \/ DeadEnd

-----------------------------------------------------------------------------
(* Hypotheses of the theorems, of which workflow.yaml fulfils each.        *)

\* The classification is only corrected in the very first phase, which no loop
\* re-opens; the engine takes it in any.
FrameOnly ==
  \A p \in ReclassifyIn :
    /\ p \in Phase \ {"design", "plan", "build", "verify"}
    /\ \A q \in Phase : Order[p] <= Order[q]

\* Ship is the last phase of every family and cannot be waived, and a phase in
\* which the family is corrected is one of any family.
ShipEnds ==
  /\ \A f \in Family : IsLast(f, "ship") /\ Participation["ship"][f] = "required"
  /\ \A p \in ReclassifyIn, f \in Family : p \in PhasesFor(f)

=============================================================================
