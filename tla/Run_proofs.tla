----------------------------- MODULE Run_proofs -----------------------------
(***************************************************************************)
(* Proofs about RunControl, for every phase list, participation table, cap *)
(* and number of runs that satisfy its assumptions, and about RunRecovery: *)
(* the snapshot and the run its log derives to stay one and the same, for  *)
(* any number of runs, losses and adoptions.                               *)
(***************************************************************************)
EXTENDS RunRecovery, WellFoundedInduction, TLAPS

-----------------------------------------------------------------------------
(* The phase list.                                                         *)

\* A nonempty set of phases has an earliest one.
LEMMA EarliestPhase ==
  ASSUME NEW S, S \subseteq Phase, S # {}
  PROVE  \E q \in S : \A r \in S : Order[q] <= Order[r]
<1> DEFINE T == {Order[q] : q \in S}
           R == {ss \in Nat \X Nat : ss[1] < ss[2]}
<1>1. T \subseteq Nat /\ T # {}
  BY PhasesAssumption
<1>2. IsWellFoundedOn(R, Nat)
  BY NatLessThanWellFounded, Zenon DEF OpToRel
<1> HIDE DEF R, T
<1>3. PICK x \in T : \A y \in T : ~ (<<y, x>> \in R)
  BY <1>1, <1>2, WFMin, Zenon
<1>4. \A y \in T : x <= y
  <2> TAKE y \in T
  <2>1. x \in Nat /\ y \in Nat
    BY <1>1
  <2>2. <<y, x>> \in R <=> y < x
    BY <2>1 DEF R
  <2> QED
    BY <1>3, <2>1, <2>2
<1>5. PICK q \in S : x = Order[q]
  BY DEF T
<1> QED
  BY <1>4, <1>5 DEF T

\* nextUnwaived returns the earliest participating, unwaived phase after p, so
\* whatever the family takes part in before it is p, earlier than p, or waived.
LEMMA NextUnwaivedIsNext ==
  ASSUME NEW f, NEW p, NEW waived,
         NextUnwaived(f, p, waived) # NoPhase
  PROVE  /\ p \in PhasesFor(f)
         /\ NextUnwaived(f, p, waived) \in PhasesFor(f)
         /\ Order[p] < Order[NextUnwaived(f, p, waived)]
         /\ \A q \in PhasesFor(f) :
              Order[q] < Order[NextUnwaived(f, p, waived)] =>
                Order[q] <= Order[p] \/ q \in waived
<1> DEFINE S == Ahead(f, p, waived)
           n == NextUnwaived(f, p, waived)
<1>1. p \in PhasesFor(f) /\ S # {}
  BY DEF NextUnwaived
<1>2. S \subseteq Phase
  BY DEF Ahead, PhasesFor
<1>3. \E q \in S : \A r \in S : Order[q] <= Order[r]
  BY <1>1, <1>2, EarliestPhase
<1>4. n \in S /\ \A r \in S : Order[n] <= Order[r]
  BY <1>1, <1>3 DEF NextUnwaived
<1>5. \A q \in PhasesFor(f) : Order[q] \in Nat
  BY PhasesAssumption DEF PhasesFor
<1>6. n \in PhasesFor(f) /\ Order[p] < Order[n]
  BY <1>4 DEF Ahead
<1>7. ASSUME NEW q \in PhasesFor(f), Order[q] < Order[n], ~ (Order[q] <= Order[p])
      PROVE  q \in waived
  <2>1. q \notin S
    BY <1>4, <1>5, <1>6, <1>7
  <2> QED
    BY <1>1, <1>5, <1>7, <2>1 DEF Ahead
<1> QED
  BY <1>1, <1>6, <1>7

\* When nextUnwaived finds nothing after a phase of the family, every later
\* phase of the family is waived.
LEMMA NothingAhead ==
  ASSUME NEW f, NEW p \in PhasesFor(f), NEW waived,
         NextUnwaived(f, p, waived) = NoPhase
  PROVE  \A q \in PhasesFor(f) : Order[q] <= Order[p] \/ q \in waived
<1>1. Ahead(f, p, waived) = {}
  <2> SUFFICES ASSUME Ahead(f, p, waived) # {} PROVE FALSE
    OBVIOUS
  <2> DEFINE S == Ahead(f, p, waived)
  <2>1. S \subseteq Phase
    BY DEF Ahead, PhasesFor
  <2>2. \E q \in S : \A r \in S : Order[q] <= Order[r]
    BY <2>1, EarliestPhase
  <2>3. NextUnwaived(f, p, waived) \in S
    BY <2>2 DEF NextUnwaived
  <2> QED
    BY <2>1, <2>3, PhasesAssumption
<1>2. \A q \in PhasesFor(f) : Order[q] \in Nat
  BY PhasesAssumption DEF PhasesFor
<1> QED
  BY <1>1, <1>2 DEF Ahead

-----------------------------------------------------------------------------
(* Type correctness.                                                       *)

\* The next phase that is not waived is a phase, or there is none.
LEMMA NextUnwaivedType ==
  ASSUME NEW f, NEW p, NEW waived
  PROVE  NextUnwaived(f, p, waived) \in Phase \cup {NoPhase}
<1>1. CASE NextUnwaived(f, p, waived) = NoPhase
  BY <1>1
<1>2. CASE NextUnwaived(f, p, waived) # NoPhase
  BY <1>2, NextUnwaivedIsNext DEF PhasesFor
<1> QED
  BY <1>1, <1>2

\* Advancing a run gives a run.
LEMMA AdvanceType ==
  ASSUME NEW r \in Run
  PROVE  Advance(r) \in Run
<1>1. NextOf(r) \in Phase \cup {NoPhase}
  BY NextUnwaivedType DEF NextOf
<1> QED
  BY <1>1 DEF Advance, Run

\* Counting a loop gives a run.
LEMMA CountLoopType ==
  ASSUME NEW r \in Run, NEW c \in Cause, NEW a \in AC
  PROVE  CountLoop(r, c, a) \in Run
<1>1. r.loops + 1 \in Nat /\ r.slips \in [AC -> Nat]
  BY DEF Run
<1>2. [r.slips EXCEPT ![a] = r.slips[a] + 1] \in [AC -> Nat]
  BY <1>1
<1> DEFINE slips == IF c = "slip" THEN [r.slips EXCEPT ![a] = r.slips[a] + 1]
                    ELSE r.slips
<1>3. slips \in [AC -> Nat]
  BY <1>1, <1>2
<1>4. CountLoop(r, c, a) = [r EXCEPT !.loops = r.loops + 1, !.slips = slips]
  BY Zenon DEF CountLoop
<1> HIDE DEF slips
<1> QED
  BY <1>1, <1>3, <1>4 DEF Run

\* A loop leads back to one of the four phases that rework.
LEMMA LoopTargetType ==
  \A c \in Cause : LoopTarget[c] \in {"design", "plan", "build", "verify"}
BY DEF Cause, LoopTarget

\* The absent run is a record like any other, with number 0.
LEMMA NoRunType == NoRun \in Run /\ NoRun.id = 0
BY BoundsAssumption DEF NoRun, NewRun, Run

\* Every command leaves the snapshot a well-formed record.
LEMMA TypeStep ==
  ASSUME TypeOK, [Next]_vars
  PROVE  TypeOK'
<1> USE DEF TypeOK
<1>1. ASSUME NEW f \in Family, NEW parent \in 0..MaxRuns, Begin(f, parent)
      PROVE  TypeOK'
  BY <1>1, BoundsAssumption DEF Begin, NewRun, Run
<1>2. ASSUME NEW f \in Family, Start(f) PROVE TypeOK'
  BY <1>1, <1>2, BoundsAssumption DEF Start
<1>3. ASSUME NEW f \in Family, Branch(f) PROVE TypeOK'
  BY <1>1, <1>3 DEF Branch, Run
<1>4. ASSUME NEW f \in Family, Reclassify(f) PROVE TypeOK'
  BY <1>4 DEF Reclassify, Run
<1>5. CASE BranchRefused
  BY <1>5 DEF BranchRefused, Run
<1>6. CASE Close
  BY <1>6, NoRunType DEF Close
<1>7. CASE ExitPhase
  BY <1>7, AdvanceType DEF ExitPhase
<1>8. CASE ForceExit
  <2>1. Advance(run) \in Run
    BY AdvanceType
  <2> QED
    BY <1>8, <2>1 DEF ForceExit, Run
<1>9. CASE ForceParks
  BY <1>9 DEF ForceParks, Run
<1>10. ASSUME NEW p \in Phase, Waive(p) PROVE TypeOK'
  <2> DEFINE r == [run EXCEPT !.waived = @ \cup {p}]
  <2>1. r \in Run
    BY DEF Run
  <2>2. NextOf(r) \in Phase \cup {NoPhase}
    BY NextUnwaivedType DEF NextOf
  <2>3. [r EXCEPT !.phase = NextOf(r)] \in Run
    BY <2>1, <2>2 DEF Run
  <2> QED
    BY <1>10, <2>1, <2>3 DEF Waive
<1>11. ASSUME NEW c \in Cause, NEW a \in AC, Loop(c, a) PROVE TypeOK'
  <2>1. CountLoop(run, c, a) \in Run
    BY CountLoopType
  <2>2. LoopTarget[c] \in Phase
    BY LoopTargetType, PhasesAssumption
  <2> QED
    BY <1>11, <2>1, <2>2 DEF Loop, Run
<1>12. ASSUME NEW c \in Cause, LoopParks(c) PROVE TypeOK'
  BY <1>12 DEF LoopParks, Run
<1>13. CASE Park
  BY <1>13 DEF Park, Run
<1>14. CASE Resume
  BY <1>14 DEF Resume, Run
<1>15. CASE UNCHANGED vars
  BY <1>15 DEF vars
<1> QED
  BY <1>2, <1>3, <1>4, <1>5, <1>6, <1>7, <1>8, <1>9, <1>10, <1>11, <1>12,
     <1>13, <1>14, <1>15 DEF Next

\* The snapshot stays a well-formed record.
THEOREM TypeCorrect == Spec => []TypeOK
<1>1. Init => TypeOK
  BY NoRunType, BoundsAssumption DEF Init, TypeOK
<1>2. TypeOK /\ [Next]_vars => TypeOK'
  BY TypeStep
<1> QED
  BY <1>1, <1>2, PTL DEF Spec

-----------------------------------------------------------------------------
(* Progress through the phases.                                            *)

\* p needs no more work: exited or waived, and not re-opened since.
Settled(r, rd, p) ==
  p \in r.exited \cup r.waived /\ (p \in rd => p \in r.waived)

\* What every open run satisfies: the phases before the current one are
\* settled; once the last one is exited all are; and the first phase is only
\* ever current before any exit.
Walked(r, rd) ==
  /\ r.phase # NoPhase =>
       \A p \in PhasesFor(r.family) :
         Order[p] < Order[r.phase] => Settled(r, rd, p)
  /\ \A p \in r.exited : IsLast(r.family, p) =>
       /\ r.phase = NoPhase
       /\ \A q \in PhasesFor(r.family) : Settled(r, rd, q)
  /\ r.phase \in ReclassifyIn => r.exited = {} /\ rd = {}

IInv == TypeOK /\ (Open => Walked(run, redo))

\* Leaving a phase for the next one keeps Walked, whatever was waived or
\* looped before.
LEMMA AdvanceWalks ==
  ASSUME FrameOnly, NEW r \in Run, NEW rd \in SUBSET Phase, Walked(r, rd)
  PROVE  Walked(Advance(r), rd \ {r.phase})
<1> DEFINE n == NextOf(r)
           s == Advance(r)
           sd == rd \ {r.phase}
<1>1. /\ s.phase = n
      /\ s.exited = r.exited \cup {r.phase}
      /\ s.family = r.family /\ s.waived = r.waived
  BY DEF Advance, Run
<1>2. /\ r.phase \in Phase \cup {NoPhase}
      /\ r.exited \subseteq Phase \cup {NoPhase}
      /\ n \in Phase \cup {NoPhase}
  BY NextUnwaivedType DEF Run, NextOf
<1>3. \A p \in PhasesFor(r.family) : p \in Phase /\ p # NoPhase /\ Order[p] \in Nat
  BY PhasesAssumption DEF PhasesFor
<1>4. ASSUME NEW p \in PhasesFor(r.family), Settled(r, rd, p)
      PROVE  Settled(s, sd, p)
  BY <1>1, <1>4 DEF Settled
<1>5. r.phase \in Phase => Settled(s, sd, r.phase)
  BY <1>1 DEF Settled
<1>6. ASSUME NEW p \in PhasesFor(r.family), p \in r.waived
      PROVE  Settled(s, sd, p)
  BY <1>1, <1>6 DEF Settled
<1> HIDE DEF s, sd
<1>7. CASE r.phase = NoPhase
  <2>1. n = NoPhase
    BY <1>3, <1>7 DEF NextOf, NextUnwaived
  <2>2. NoPhase \notin ReclassifyIn
    BY PhasesAssumption DEF FrameOnly
  <2>3. \A p \in s.exited : IsLast(r.family, p) => p \in r.exited
    BY <1>1, <1>3, <1>7 DEF IsLast
  <2> QED
    BY <1>1, <1>4, <2>1, <2>2, <2>3 DEF Walked, s, sd
<1>8. CASE r.phase # NoPhase /\ n # NoPhase
  <2>1. /\ r.phase \in PhasesFor(r.family)
        /\ n \in PhasesFor(r.family)
        /\ Order[r.phase] < Order[n]
        /\ \A q \in PhasesFor(r.family) :
             Order[q] < Order[n] => Order[q] <= Order[r.phase] \/ q \in r.waived
    BY <1>8, NextUnwaivedIsNext DEF NextOf
  <2>2. ASSUME NEW p \in PhasesFor(r.family), Order[p] < Order[n]
        PROVE  Settled(s, sd, p)
    <3>1. CASE p \in r.waived
      BY <1>6, <3>1
    <3>2. CASE Order[p] < Order[r.phase]
      BY <1>4, <1>8, <3>2 DEF Walked
    <3>3. CASE Order[p] = Order[r.phase]
      BY <1>3, <1>5, <2>1, <3>3, PhasesAssumption
    <3> QED
      BY <1>3, <2>1, <2>2, <3>1, <3>2, <3>3
  <2>3. \A p \in s.exited : ~ IsLast(r.family, p)
    <3>1. ~ IsLast(r.family, r.phase)
      BY <1>3, <2>1 DEF IsLast
    <3>2. \A p \in r.exited : ~ IsLast(r.family, p)
      BY <1>8 DEF Walked
    <3> QED
      BY <1>1, <3>1, <3>2
  <2>4. n \notin ReclassifyIn
    BY <1>3, <2>1 DEF FrameOnly
  <2> QED
    BY <1>1, <2>2, <2>3, <2>4 DEF Walked, s, sd
<1>9. CASE r.phase # NoPhase /\ n = NoPhase
  <2>1. NoPhase \notin ReclassifyIn
    BY PhasesAssumption DEF FrameOnly
  <2>2. \A p \in r.exited : ~ IsLast(r.family, p)
    BY <1>9 DEF Walked
  <2>3. CASE r.phase \notin PhasesFor(r.family)
    <3>1. \A p \in s.exited : ~ IsLast(r.family, p)
      BY <1>1, <2>2, <2>3 DEF IsLast
    <3> QED
      BY <1>1, <1>9, <2>1, <3>1 DEF Walked, s, sd
  <2>4. CASE r.phase \in PhasesFor(r.family)
    <3>1. \A q \in PhasesFor(r.family) :
            Order[q] <= Order[r.phase] \/ q \in r.waived
      BY <1>9, <2>4, NothingAhead DEF NextOf
    <3>2. ASSUME NEW p \in PhasesFor(r.family)
          PROVE  Settled(s, sd, p)
      <4>1. CASE p \in r.waived
        BY <1>6, <4>1
      <4>2. CASE Order[p] < Order[r.phase]
        BY <1>4, <1>9, <4>2 DEF Walked
      <4>3. CASE Order[p] = Order[r.phase]
        BY <1>3, <1>5, <2>4, <4>3, PhasesAssumption
      <4> QED
        BY <1>3, <2>4, <3>1, <4>1, <4>2, <4>3
    <3> QED
      BY <1>1, <1>9, <2>1, <3>2 DEF Walked, s, sd
  <2> QED
    BY <2>3, <2>4
<1> QED
  BY <1>7, <1>8, <1>9 DEF s, sd

\* Waiving a phase keeps Walked; waiving the current one moves on from it.
LEMMA WaiveWalks ==
  ASSUME FrameOnly, TypeOK, Walked(run, redo), NEW p \in Phase, Waive(p)
  PROVE  Walked(run', redo')
<1> DEFINE r == [run EXCEPT !.waived = run.waived \cup {p}]
           n == NextOf(r)
<1>1. /\ run \in Run /\ r \in Run /\ redo' = redo
      /\ r.phase = run.phase /\ r.exited = run.exited /\ r.family = run.family
      /\ r.waived = run.waived \cup {p}
  BY DEF TypeOK, Run, Waive
<1>2. run' = IF run.phase = p THEN [r EXCEPT !.phase = n] ELSE r
  BY DEF Waive
<1> HIDE DEF r
<1>3. \A q : Settled(run, redo, q) => Settled(r, redo, q)
  BY <1>1 DEF Settled
<1>4. Walked(r, redo)
  BY <1>1, <1>3 DEF Walked
<1>5. CASE run.phase # p
  BY <1>1, <1>2, <1>4, <1>5
<1>6. CASE run.phase = p
  <2> DEFINE s == [r EXCEPT !.phase = n]
  <2>1. /\ s.phase = n /\ s.exited = r.exited /\ s.family = r.family
        /\ s.waived = r.waived /\ r.phase = p /\ p \in r.waived
        /\ p # NoPhase
    BY <1>1, <1>6, PhasesAssumption DEF Run
  <2>2. \A q : Settled(s, redo, q) <=> Settled(r, redo, q)
    BY <2>1 DEF Settled
  <2> HIDE DEF s
  <2>3. \A q \in r.exited : ~ IsLast(r.family, q)
    BY <1>4, <2>1 DEF Walked
  <2>4. CASE n = NoPhase
    <3>1. NoPhase \notin ReclassifyIn
      BY PhasesAssumption DEF FrameOnly
    <3> QED
      BY <1>1, <1>2, <1>6, <2>1, <2>3, <2>4, <3>1 DEF Walked, s
  <2>5. CASE n # NoPhase
    <3>1. /\ p \in PhasesFor(r.family)
          /\ n \in PhasesFor(r.family)
          /\ Order[p] < Order[n]
          /\ \A q \in PhasesFor(r.family) :
               Order[q] < Order[n] => Order[q] <= Order[p] \/ q \in r.waived
      BY <2>1, <2>5, NextUnwaivedIsNext DEF NextOf
    <3>2. \A q \in PhasesFor(r.family) : q \in Phase /\ Order[q] \in Nat
      BY PhasesAssumption DEF PhasesFor
    <3>3. n \notin ReclassifyIn
      BY <3>1, <3>2 DEF FrameOnly
    <3>4. ASSUME NEW q \in PhasesFor(r.family), Order[q] < Order[n]
          PROVE  Settled(s, redo, q)
      <4>1. CASE q \in r.waived
        BY <2>2, <4>1 DEF Settled
      <4>2. CASE Order[q] < Order[p]
        BY <1>4, <2>1, <2>2, <4>2 DEF Walked
      <4>3. CASE Order[q] = Order[p]
        BY <2>1, <2>2, <3>1, <3>2, <4>3, PhasesAssumption DEF Settled
      <4> QED
        BY <3>1, <3>2, <3>4, <4>1, <4>2, <4>3
    <3> QED
      BY <1>1, <1>2, <1>6, <2>1, <2>3, <3>3, <3>4 DEF Walked, s
  <2> QED
    BY <2>4, <2>5
<1> QED
  BY <1>5, <1>6

\* A loop re-opens its target and what follows it, never what precedes it.
LEMMA LoopWalks ==
  ASSUME FrameOnly, TypeOK, Walked(run, redo),
         NEW c \in Cause, NEW a \in AC, Loop(c, a)
  PROVE  Walked(run', redo')
<1> DEFINE t == LoopTarget[c]
<1>1. /\ run'.phase = t
      /\ run'.exited = run.exited \ {t}
      /\ run'.waived = run.waived /\ run'.family = run.family
      /\ run.phase = LoopFrom(c)
      /\ redo' = redo \cup {q \in Phase : /\ Order[q] >= Order[t]
                                         /\ Order[q] <= Order[LoopFrom(c)]}
  BY DEF TypeOK, Run, Loop, CanLoop, CountLoop
<1>2. t \in {"design", "plan", "build", "verify"} /\ t \in Phase
  BY LoopTargetType, PhasesAssumption
<1>3. LoopFrom(c) \in Phase /\ Order[t] <= Order[LoopFrom(c)]
  BY PhasesAssumption, LoopsGoBackAssumption DEF Cause, LoopTarget, LoopFrom
<1> HIDE DEF t
<1>4. \A p \in PhasesFor(run.family) : p \in Phase /\ Order[p] \in Nat
  BY PhasesAssumption DEF PhasesFor
<1>5. Order[t] \in Nat /\ Order[LoopFrom(c)] \in Nat
  BY <1>2, <1>3, PhasesAssumption
<1>6. ASSUME NEW p \in PhasesFor(run.family), Order[p] < Order[t]
      PROVE  Settled(run', redo', p)
  <2>1. Settled(run, redo, p)
    BY <1>1, <1>3, <1>4, <1>5, <1>6, PhasesAssumption DEF Walked
  <2>2. p # t /\ (p \in redo' => p \in redo)
    BY <1>1, <1>4, <1>5, <1>6
  <2> QED
    BY <1>1, <2>1, <2>2 DEF Settled
<1>7. \A p \in run'.exited : ~ IsLast(run.family, p)
  BY <1>1, <1>3, PhasesAssumption DEF Walked
<1>8. t \notin ReclassifyIn
  BY <1>2 DEF FrameOnly
<1> QED
  BY <1>1, <1>6, <1>7, <1>8 DEF Walked

\* Correcting the family in the first phase, before any exit, keeps Walked.
LEMMA ReclassifyWalks ==
  ASSUME FrameOnly, TypeOK, Walked(run, redo), NEW f \in Family, Reclassify(f)
  PROVE  Walked(run', redo')
<1>1. /\ run'.phase = run.phase /\ run'.exited = run.exited
      /\ run'.waived = run.waived /\ run'.family = f /\ redo' = redo
      /\ run.phase \in ReclassifyIn
  BY DEF TypeOK, Run, Reclassify
<1>2. run.exited = {} /\ redo = {}
  BY <1>1 DEF Walked
<1>3. \A p \in PhasesFor(f) : p \in Phase /\ Order[p] \in Nat
  BY PhasesAssumption DEF PhasesFor
<1>4. run.phase \in Phase /\ Order[run.phase] \in Nat
  BY <1>1, PhasesAssumption DEF FrameOnly
<1>5. \A p \in PhasesFor(f) : ~ (Order[p] < Order[run.phase])
  BY <1>1, <1>3, <1>4 DEF FrameOnly
<1> QED
  BY <1>1, <1>2, <1>5 DEF Walked

\* A fresh run starts at its first phase with nothing exited.
LEMMA BeginWalks ==
  ASSUME FrameOnly, NEW f \in Family, NEW parent, Begin(f, parent)
  PROVE  Walked(run', redo')
<1>1. PICK p \in Phase : IsFirst(f, p) /\ run' = NewRun(minted + 1, parent, f, p)
  BY DEF Begin
<1>2. /\ run'.phase = p /\ run'.exited = {} /\ run'.waived = {}
      /\ run'.family = f /\ redo' = {}
  BY <1>1 DEF NewRun, Begin
<1>3. \A q \in PhasesFor(f) : Order[q] \in Nat /\ Order[p] \in Nat
  BY PhasesAssumption DEF PhasesFor
<1> QED
  BY <1>1, <1>2, <1>3 DEF Walked, IsFirst

\* A step that only changes the status or the counters of the snapshot.
LEMMA StatusWalks ==
  ASSUME Walked(run, redo), redo' = redo,
         run'.phase = run.phase, run'.exited = run.exited,
         run'.waived = run.waived, run'.family = run.family
  PROVE  Walked(run', redo')
BY DEF Walked, Settled

\* Only a close leaves no run behind: a step that keeps no run open where one
\* was open is Close.
LEMMA OnlyCloseCloses ==
  ASSUME TypeOK, Next, run.id # run'.id, run'.id = 0
  PROVE  Close
<1>1. ASSUME NEW f, NEW parent, Begin(f, parent) PROVE run'.id # 0
  BY <1>1 DEF Begin, NewRun, TypeOK
<1>2. \A f \in Family : ~ Start(f) /\ ~ Branch(f)
  BY <1>1 DEF Start, Branch
<1>3. \A f \in Family : Reclassify(f) => run'.id = run.id
  BY DEF Reclassify, TypeOK, Run
<1>4. Advance(run).id = run.id
  BY DEF Advance, TypeOK, Run
<1>5. ExitPhase \/ ForceExit => run'.id = run.id
  <2>1. Advance(run) \in Run
    BY AdvanceType DEF TypeOK
  <2> QED
    BY <1>4, <2>1 DEF ExitPhase, ForceExit, Run
<1>6. BranchRefused \/ ForceParks \/ Park \/ Resume => run'.id = run.id
  BY DEF BranchRefused, ForceParks, Park, Resume, TypeOK, Run
<1>7. \A p \in Phase : Waive(p) => run'.id = run.id
  <2> SUFFICES ASSUME NEW p \in Phase, Waive(p) PROVE run'.id = run.id
    OBVIOUS
  <2> DEFINE r == [run EXCEPT !.waived = @ \cup {p}]
  <2>1. r \in Run /\ r.id = run.id
    BY DEF TypeOK, Run
  <2> DEFINE n == NextOf(r)
  <2>2. run' = IF run.phase = p THEN [r EXCEPT !.phase = n] ELSE r
    BY DEF Waive
  <2> HIDE DEF r, n
  <2>3. [r EXCEPT !.phase = n].id = r.id
    BY <2>1 DEF Run
  <2> QED
    BY <2>1, <2>2, <2>3
<1>8. \A c \in Cause, a \in AC : Loop(c, a) => run'.id = run.id
  BY DEF Loop, CountLoop, TypeOK, Run
<1>9. \A c \in Cause : LoopParks(c) => run'.id = run.id
  BY DEF LoopParks, TypeOK, Run
<1> QED
  BY <1>2, <1>3, <1>5, <1>6, <1>7, <1>8, <1>9 DEF Next

\* The inductive invariant.
LEMMA Invariance ==
  ASSUME FrameOnly
  PROVE  Spec => []IInv
<1>1. Init => IInv
  BY NoRunType, BoundsAssumption DEF Init, IInv, TypeOK, Open
<1>2. IInv /\ TypeOK' /\ [Next]_vars => IInv'
  <2> SUFFICES ASSUME IInv, TypeOK', [Next]_vars, Open'
               PROVE  Walked(run', redo')
    BY DEF IInv
  <2>1. TypeOK /\ (Open => Walked(run, redo))
    BY DEF IInv
  <2>2. ASSUME NEW f \in Family, Start(f) PROVE Walked(run', redo')
    BY <2>2, BeginWalks DEF Start
  <2>3. ASSUME NEW f \in Family, Branch(f) PROVE Walked(run', redo')
    BY <2>3, BeginWalks DEF Branch
  <2>4. ASSUME NEW f \in Family, Reclassify(f) PROVE Walked(run', redo')
    BY <2>1, <2>4, ReclassifyWalks DEF Reclassify
  <2>5. CASE BranchRefused
    BY <2>1, <2>5, StatusWalks DEF BranchRefused, TypeOK, Run
  <2>6. CASE Close
    BY <2>6, NoRunType DEF Close, Open
  <2>7. CASE ExitPhase \/ ForceExit
    <3> DEFINE r == Advance(run)
    <3>1. r \in Run /\ r.id = run.id
      BY <2>1, AdvanceType DEF Advance, TypeOK, Run
    <3>2. run' = r \/ run' = [r EXCEPT !.forces = r.forces + 1]
      BY <2>7 DEF ExitPhase, ForceExit
    <3> HIDE DEF r
    <3>3. /\ run'.id = run.id
          /\ run'.phase = r.phase /\ run'.exited = r.exited
          /\ run'.waived = r.waived /\ run'.family = r.family
      BY <3>1, <3>2 DEF Run
    <3>4. Walked(run, redo)
      BY <2>1, <3>3 DEF Open
    <3>5. Walked(r, redo')
      BY <2>1, <2>7, <3>4, AdvanceWalks DEF r, ExitPhase, ForceExit, TypeOK
    <3> QED
      BY <3>3, <3>5 DEF Walked, Settled
  <2>9. CASE ForceParks
    BY <2>1, <2>9, StatusWalks DEF ForceParks, Open, TypeOK, Run
  <2>10. ASSUME NEW p \in Phase, Waive(p) PROVE Walked(run', redo')
    BY <2>1, <2>10, WaiveWalks DEF Waive, Waivable
  <2>11. ASSUME NEW c \in Cause, NEW a \in AC, Loop(c, a)
         PROVE  Walked(run', redo')
    BY <2>1, <2>11, LoopWalks DEF Loop, CanLoop
  <2>12. ASSUME NEW c \in Cause, LoopParks(c) PROVE Walked(run', redo')
    BY <2>1, <2>12, StatusWalks DEF LoopParks, CanLoop, TypeOK, Run
  <2>13. CASE Park
    BY <2>1, <2>13, StatusWalks DEF Park, TypeOK, Run
  <2>14. CASE Resume
    BY <2>1, <2>14, StatusWalks DEF Resume, Open, TypeOK, Run
  <2>15. CASE UNCHANGED vars
    BY <2>1, <2>15 DEF vars, Open
  <2> QED
    BY <2>2, <2>3, <2>4, <2>5, <2>6, <2>7, <2>9, <2>10, <2>11, <2>12,
       <2>13, <2>14, <2>15 DEF Next
<1> QED
  BY <1>1, <1>2, TypeCorrect, PTL DEF Spec

\* The closing step: what Walked says of a run whose last phase is exited.
LEMMA CloseSettles ==
  ASSUME IInv, [Next]_vars, Closes
  PROVE  \A p \in PhasesFor(run.family) : Settled(run, redo, p)
<1>1. Next
  BY DEF Closes, Open, vars
<1>2. Close
  BY <1>1, OnlyCloseCloses DEF IInv, Closes, Open
<1> QED
  BY <1>2 DEF Close, IInv, Walked

\* Provided the family is only corrected in the first phase, no run jumps over
\* a phase: each phase of its family before the current one was exited or
\* waived.
THEOREM NoPhaseIsJumped ==
  ASSUME FrameOnly
  PROVE  Spec => []NoPhaseJumped
<1>1. IInv => NoPhaseJumped
  BY DEF IInv, Walked, Settled, NoPhaseJumped, Done
<1> QED
  BY <1>1, Invariance, PTL

\* Under the same condition a run closes with every phase of its family exited
\* or waived, though RunClose only looks at the last one.
THEOREM CloseIsComplete ==
  ASSUME FrameOnly
  PROVE  Spec => ClosedRunIsComplete
<1>1. IInv /\ [Next]_vars =>
        [Closes => PhasesFor(run.family) \subseteq Done]_vars
  BY CloseSettles DEF Settled, Done
<1> QED
  BY <1>1, Invariance, PTL DEF Spec, ClosedRunIsComplete

\* And what a loop re-opened has been walked again by then, though Loop unmarks
\* its target only.
THEOREM ReworkIsDone ==
  ASSUME FrameOnly
  PROVE  Spec => ReworkIsRewalked
<1>1. IInv /\ [Next]_vars =>
        [Closes => redo \cap PhasesFor(run.family) \subseteq run.waived]_vars
  BY CloseSettles DEF Settled
<1> QED
  BY <1>1, Invariance, PTL DEF Spec, ReworkIsRewalked

-----------------------------------------------------------------------------
(* The end of the phase list.                                              *)

\* A run whose loops all lead to phases of its family is in one, or through
\* ship; and ship is not waived.
Ending(r) ==
  /\ r.family \in Family
  /\ "ship" \notin r.waived
  /\ LoopsFit(r.family) =>
       /\ r.phase \in PhasesFor(r.family) \cup {NoPhase}
       /\ r.phase = NoPhase => "ship" \in r.exited

EInv == TypeOK /\ (Open => Ending(run))

\* From a phase of its family a run gets past the last only through ship.
LEMMA EndIsShip ==
  ASSUME ShipEnds, NEW f \in Family, NEW p \in PhasesFor(f), NEW waived,
         "ship" \notin waived
  PROVE  /\ NextUnwaived(f, p, waived) \in PhasesFor(f) \cup {NoPhase}
         /\ NextUnwaived(f, p, waived) = NoPhase => p = "ship"
<1>1. NextUnwaived(f, p, waived) \in PhasesFor(f) \cup {NoPhase}
  BY NextUnwaivedIsNext
<1>2. ASSUME NextUnwaived(f, p, waived) = NoPhase
      PROVE  p = "ship"
  <2>1. "ship" \in PhasesFor(f) /\ Order[p] <= Order["ship"]
    BY DEF ShipEnds, IsLast
  <2>2. Order["ship"] <= Order[p]
    BY <1>2, <2>1, NothingAhead
  <2>3. Order[p] \in Nat /\ Order["ship"] \in Nat /\ p \in Phase /\ "ship" \in Phase
    BY <2>1, PhasesAssumption DEF PhasesFor
  <2> QED
    BY <2>1, <2>2, <2>3, PhasesAssumption
<1> QED
  BY <1>1, <1>2

\* Every step keeps how runs end.
LEMMA EndInductive ==
  ASSUME ShipEnds, EInv, [Next]_vars, TypeOK'
  PROVE  EInv'
<1> SUFFICES ASSUME Open'
             PROVE  Ending(run')
  BY DEF EInv
<1>r. run \in Run /\ run' \in Run
  BY DEF EInv, TypeOK
<1>1. ASSUME NEW f \in Family, NEW parent, Begin(f, parent)
      PROVE  Ending(run')
  <2>1. PICK p \in Phase : IsFirst(f, p) /\ run' = NewRun(minted + 1, parent, f, p)
    BY <1>1 DEF Begin
  <2>2. /\ run'.family = f /\ run'.waived = {} /\ run'.phase = p
    BY <2>1 DEF NewRun
  <2>3. p \in PhasesFor(f) /\ p # NoPhase
    BY <2>1, PhasesAssumption DEF IsFirst
  <2> QED
    BY <2>2, <2>3 DEF Ending
<1>2. ASSUME NEW f \in Family, Start(f) \/ Branch(f)
      PROVE  Ending(run')
  BY <1>1, <1>2 DEF Start, Branch
<1>3. ASSUME NEW f \in Family, Reclassify(f)
      PROVE  Ending(run')
  <2>1. run' = [run EXCEPT !.family = f] /\ Ending(run)
    BY <1>3 DEF Reclassify, EInv
  <2>2. /\ run'.family = f /\ run'.phase = run.phase /\ run'.waived = run.waived
    BY <1>r, <2>1 DEF Run
  <2>3. run.phase \in PhasesFor(f) /\ run.phase # NoPhase
    BY <1>3, PhasesAssumption DEF Reclassify, ShipEnds, PhasesFor
  <2> QED
    BY <2>1, <2>2, <2>3 DEF Ending
<1>4. ASSUME NEW status, run' = [run EXCEPT !.status = status]
      PROVE  Ending(run')
  <2>1. /\ run'.family = run.family /\ run'.phase = run.phase /\ run'.id = run.id
        /\ run'.waived = run.waived /\ run'.exited = run.exited
    BY <1>r, <1>4 DEF Run
  <2> QED
    BY <2>1 DEF EInv, Open, Ending
<1>5. CASE BranchRefused \/ ForceParks \/ Park \/ Resume
  BY <1>4, <1>5 DEF BranchRefused, ForceParks, Park, Resume
<1>6. ASSUME NEW c \in Cause, LoopParks(c)
      PROVE  Ending(run')
  BY <1>4, <1>6 DEF LoopParks
<1>7. CASE Close
  BY <1>7, NoRunType DEF Close, Open
<1>8. CASE ExitPhase \/ ForceExit
  <2>1. /\ run'.family = run.family /\ run'.waived = run.waived /\ run'.id = run.id
        /\ run'.phase = NextOf(run) /\ run'.exited = run.exited \cup {run.phase}
    BY <1>r, <1>8 DEF ExitPhase, ForceExit, Advance, Run
  <2>2. Ending(run)
    BY <2>1 DEF EInv, Open
  <2>3. ASSUME LoopsFit(run.family)
        PROVE  /\ run'.phase \in PhasesFor(run.family) \cup {NoPhase}
               /\ run'.phase = NoPhase => "ship" \in run'.exited
    <3>1. CASE run.phase = NoPhase
      <4>1. NextOf(run) = NoPhase
        BY <3>1, PhasesAssumption DEF NextOf, NextUnwaived, PhasesFor
      <4> QED
        BY <2>1, <2>2, <2>3, <3>1, <4>1 DEF Ending
    <3>2. CASE run.phase \in PhasesFor(run.family)
      BY <2>1, <2>2, <3>2, EndIsShip DEF Ending, NextOf
    <3> QED
      BY <2>2, <2>3, <3>1, <3>2 DEF Ending
  <2> QED
    BY <2>1, <2>2, <2>3 DEF Ending
<1>9. ASSUME NEW p \in Phase, Waive(p)
      PROVE  Ending(run')
  <2> DEFINE r == [run EXCEPT !.waived = @ \cup {p}]
  <2>1. /\ r.family = run.family /\ r.phase = run.phase /\ r.exited = run.exited
        /\ r.waived = run.waived \cup {p} /\ r \in Run
    BY <1>r DEF Run
  <2>2. p # "ship" /\ Ending(run)
    BY <1>9 DEF Waive, Waivable, ShipEnds, EInv
  <2>3. run' = IF run.phase = p THEN [r EXCEPT !.phase = NextOf(r)] ELSE r
    BY <1>9 DEF Waive
  <2> HIDE DEF r
  <2>4. /\ run'.family = run.family /\ run'.exited = run.exited
        /\ run'.waived = run.waived \cup {p}
        /\ run'.phase = IF run.phase = p THEN NextOf(r) ELSE run.phase
    BY <2>1, <2>3 DEF Run
  <2>5. ASSUME LoopsFit(run.family), run.phase = p
        PROVE  NextOf(r) \in PhasesFor(run.family)
    <3>1. p \in PhasesFor(run.family) /\ "ship" \notin r.waived
      BY <2>1, <2>2, <2>5, PhasesAssumption DEF Ending
    <3>2. NextOf(r) = NextUnwaived(run.family, p, r.waived)
      BY <2>1, <2>5 DEF NextOf
    <3> QED
      BY <2>2, <3>1, <3>2, EndIsShip DEF Ending
  <2>6. \A q \in PhasesFor(run.family) : q # NoPhase
    BY PhasesAssumption DEF PhasesFor
  <2> QED
    BY <2>2, <2>4, <2>5, <2>6 DEF Ending
<1>10. ASSUME NEW c \in Cause, NEW a \in AC, Loop(c, a)
       PROVE  Ending(run')
  <2>1. /\ run'.family = run.family /\ run'.waived = run.waived
        /\ run'.phase = LoopTarget[c]
    <3>1. CountLoop(run, c, a) \in Run
      BY <1>r, CountLoopType
    <3>2. /\ CountLoop(run, c, a).family = run.family
          /\ CountLoop(run, c, a).waived = run.waived
      BY <1>r DEF CountLoop, Run
    <3> QED
      BY <1>10, <3>1, <3>2 DEF Loop, Run
  <2>2. Ending(run)
    BY <1>10 DEF Loop, CanLoop, EInv
  <2>3. LoopTarget[c] # NoPhase
    BY LoopTargetType, PhasesAssumption
  <2> QED
    BY <2>1, <2>2, <2>3 DEF Ending, LoopsFit
<1>11. CASE UNCHANGED vars
  BY <1>11 DEF vars, EInv, Open
<1> QED
  BY <1>2, <1>3, <1>5, <1>6, <1>7, <1>8, <1>9, <1>10, <1>11 DEF Next

\* A run without a phase is closeable, as PhaseExit reports it, if its family
\* takes part in every phase a loop goes back to.
THEOREM CloseableIfReported ==
  ASSUME ShipEnds
  PROVE  Spec => []CloseableAsReported
<1>1. Init => EInv
  BY NoRunType, BoundsAssumption DEF Init, EInv, TypeOK, Open
<1>2. EInv /\ TypeOK' /\ [Next]_vars => EInv'
  BY EndInductive
<1>3. EInv => CloseableAsReported
  <2> SUFFICES ASSUME EInv, Open, run.phase = NoPhase, LoopsFit(run.family)
               PROVE  Closeable
    BY DEF CloseableAsReported
  <2>1. "ship" \in run.exited /\ run.family \in Family
    BY DEF EInv, Ending
  <2> QED
    BY <2>1 DEF ShipEnds, Closeable
<1> QED
  BY <1>1, <1>2, <1>3, TypeCorrect, PTL DEF Spec

-----------------------------------------------------------------------------
(* Recovery: the inductive invariant.                                      *)

\* The entry of the log agrees with the snapshot on what was granted.
Tracks(r, d) ==
  d.family # NoFamily =>
    /\ d.waived = r.waived
    /\ d.forces = r.forces
    /\ d.loops = r.loops
    /\ d.status = r.status
    /\ r.exited \subseteq d.exited

\* A snapshot that counts every force and loop there was.
Counted(r, t) == r.forces = t.forces /\ r.loops = t.loops

\* Ids are minted in order, an entry is about its own run, and the open run is
\* the newest one alive.
Lineage ==
  /\ ~ Open => run.status = "none"
  /\ run.id <= minted
  /\ \A i \in Id : /\ log[i].id \in {0, i}
                   /\ i > minted => log[i].id = 0 /\ tally[i] = Untallied
  /\ Open => log[run.id].id = run.id /\ \A i \in Live : i <= run.id

Within(t) == t.forces <= 2 /\ t.loops <= MaxLoops

\* Before the first adoption every entry counts in full; until the second the
\* snapshot still does.
Counting ==
  adopts <= 1 =>
    /\ \A i \in Id : Within(tally[i])
    /\ Open => Counted(run, tally[run.id])
    /\ adopts = 0 => \A i \in Live : Counted(log[i], tally[i])

RInv ==
  /\ RTypeOK
  /\ Lineage
  /\ Open => Tracks(run, log[run.id])
  /\ Counting

-----------------------------------------------------------------------------
(* The newest run alive.                                                   *)

\* A nonempty set of run ids has a largest member.
LEMMA NewestIsLast ==
  ASSUME NEW S, S \subseteq Id, S # {}
  PROVE  Max(S) \in S /\ \A i \in S : i <= Max(S)
<1> DEFINE T == {MaxRuns - i : i \in S}
           R == {ss \in Nat \X Nat : ss[1] < ss[2]}
<1>1. \A i \in S : i \in Nat /\ i <= MaxRuns /\ MaxRuns - i \in Nat
  BY BoundsAssumption DEF Id
<1>2. T \subseteq Nat /\ T # {}
  BY <1>1
<1>3. IsWellFoundedOn(R, Nat)
  BY NatLessThanWellFounded, Zenon DEF OpToRel
<1> HIDE DEF R, T
<1>4. PICK x \in T : \A y \in T : ~ (<<y, x>> \in R)
  BY <1>2, <1>3, WFMin, Zenon
<1>5. \A y \in T : x <= y
  <2> TAKE y \in T
  <2>1. x \in Nat /\ y \in Nat
    BY <1>2
  <2>2. <<y, x>> \in R <=> y < x
    BY <2>1 DEF R
  <2> QED
    BY <1>4, <2>1, <2>2
<1>6. PICK m \in S : x = MaxRuns - m
  BY DEF T
<1>7. \A i \in S : m >= i
  <2> TAKE i \in S
  <2>1. MaxRuns - i \in T
    BY DEF T
  <2> QED
    BY <1>1, <1>5, <1>6, <2>1, BoundsAssumption
<1>8. \A i \in S : Max(S) >= i /\ Max(S) \in S
  BY <1>7 DEF Max
<1> QED
  BY <1>1, <1>8

\* DeriveRun returns the newest run with live events.
LEMMA DerivedIsNewest ==
  ASSUME RInv, Derived.id # 0
  PROVE  \E m \in Live : /\ Derived = log[m] /\ Derived.id = m
                         /\ \A i \in Live : i <= m
<1>1. Live # {}
  BY NoRunType DEF Derived
<1>2. Live \subseteq Id
  BY DEF Live
<1>3. /\ Max(Live) \in Live
      /\ \A i \in Live : i <= Max(Live)
  BY <1>1, <1>2, NewestIsLast
<1>4. Derived = log[Max(Live)]
  BY <1>1 DEF Derived
<1>5. log[Max(Live)].id = Max(Live)
  BY <1>3 DEF Live, RInv, Lineage
<1> QED
  BY <1>3, <1>4, <1>5

-----------------------------------------------------------------------------
(* Commands that work on the open run.                                     *)

\* The snapshot keeps its id, the log entry d of that run is its only change,
\* and what is granted is granted, and counted, in both.
OnTheRun(d) ==
  /\ Open /\ run'.id = run.id
  /\ d \in Run /\ d.id = log[run.id].id
  /\ log' = [log EXCEPT ![run.id] = d]
  /\ adopts' = adopts /\ minted' = minted
  /\ Tracks(run, log[run.id]) => Tracks(run', d)

\* The tally of the run moves as its counters do, and only below the caps.
OnTheTally(d) ==
  /\ Counted(run, tally[run.id]) => /\ Counted(run', tally'[run.id])
                                    /\ Within(tally[run.id]) => Within(tally'[run.id])
  /\ Counted(log[run.id], tally[run.id]) => Counted(d, tally'[run.id])
  /\ tally' = [tally EXCEPT ![run.id] = tally'[run.id]]
  /\ tally'[run.id] \in [forces : Nat, loops : Nat]

\* Such a command keeps the invariant.
LEMMA RunStepKeeps ==
  ASSUME RInv, TypeOK', NEW d, OnTheRun(d), OnTheTally(d)
  PROVE  RInv'
<1>1. /\ run.id \in Id /\ run.id = run'.id /\ Open /\ Open'
      /\ log[run.id].id = run.id /\ d.id = run.id
  BY BoundsAssumption DEF OnTheRun, RInv, RTypeOK, TypeOK, Run, Open, Id, Lineage
<1>2. /\ log \in [Id -> Run] /\ tally \in [Id -> [forces : Nat, loops : Nat]]
  BY DEF RInv, RTypeOK
<1>3. RTypeOK'
  BY <1>1, <1>2 DEF OnTheRun, OnTheTally, RTypeOK, RInv
<1>4. \A i \in Id : /\ i = run.id => log'[i] = d
                    /\ i # run.id => log'[i] = log[i] /\ tally'[i] = tally[i]
  BY <1>1, <1>2 DEF OnTheRun, OnTheTally
<1>5. Live' = Live
  BY <1>1, <1>2, <1>4 DEF Live
<1>6. Lineage'
  <2>1. run.id <= minted /\ run.id \in Nat /\ minted \in Nat
    BY <1>1, BoundsAssumption DEF RInv, Lineage, RTypeOK, TypeOK, Id
  <2>2. \A i \in Id : /\ log'[i].id \in {0, i}
                      /\ i > minted => log'[i].id = 0 /\ tally'[i] = Untallied
    <3> TAKE i \in Id
    <3>1. CASE i = run.id
      BY <1>1, <1>4, <2>1, <3>1
    <3>2. CASE i # run.id
      BY <1>4, <3>2 DEF RInv, Lineage
    <3> QED
      BY <3>1, <3>2
  <2>3. minted' = minted /\ log'[run'.id].id = run'.id
    BY <1>1, <1>4 DEF OnTheRun
  <2>4. \A i \in Live' : i <= run'.id
    BY <1>1, <1>5 DEF RInv, Lineage
  <2> QED
    BY <1>1, <2>1, <2>2, <2>3, <2>4 DEF Lineage
<1>7. Tracks(run', log'[run'.id])
  BY <1>1, <1>4 DEF OnTheRun, RInv
<1>8. ASSUME adopts <= 1
      PROVE  /\ \A i \in Id : Within(tally'[i])
             /\ Counted(run', tally'[run'.id])
  <2>1. /\ \A i \in Id : Within(tally[i])
        /\ Counted(run, tally[run.id])
    BY <1>1, <1>8 DEF RInv, Counting
  <2>2. Counted(run', tally'[run.id]) /\ Within(tally'[run.id])
    BY <1>1, <2>1 DEF OnTheTally
  <2>3. \A i \in Id : Within(tally'[i])
    BY <1>4, <2>1, <2>2
  <2> QED
    BY <1>1, <2>2, <2>3
<1>9. ASSUME adopts = 0
      PROVE  \A i \in Live : Counted(log'[i], tally'[i])
  <2>1. \A i \in Live : i \in Id /\ Counted(log[i], tally[i])
    BY <1>9 DEF RInv, Counting, Live
  <2>2. run.id \in Live
    BY <1>1 DEF Live, Open
  <2>3. Counted(d, tally'[run.id])
    BY <2>1, <2>2 DEF OnTheTally
  <2> QED
    BY <1>4, <2>1, <2>3
<1>10. Counting'
  BY <1>5, <1>8, <1>9 DEF Counting, OnTheRun
<1> QED
  BY <1>3, <1>6, <1>7, <1>10 DEF RInv

\* An entry of the log folds to an entry again.
LEMMA EntryTypes ==
  ASSUME NEW d \in Run, NEW p \in Phase \cup {NoPhase}
  PROVE  /\ Entered(d, p) \in Run /\ EnteredIfAny(d, p) \in Run
         /\ Exited(d, p) \in Run /\ Forced(d, p) \in Run
         /\ p \in Phase => Waived(d, p) \in Run
         /\ Looped(d, p) \in Run /\ Parked(d) \in Run /\ Resumed(d) \in Run
<1>1. Exited(d, p) \in Run /\ Entered(d, p) \in Run
  BY DEF Exited, Entered, Run
<1>2. Forced(d, p) \in Run /\ Looped(d, p) \in Run
  BY <1>1 DEF Forced, Looped, Run
<1> QED
  BY <1>1, <1>2 DEF EnteredIfAny, Waived, Parked, Resumed, Run

\* Entering a phase changes nothing else of an entry.
LEMMA EnteredKeeps ==
  ASSUME NEW e \in Run, NEW p,
         NEW d, d = Entered(e, p) \/ d = EnteredIfAny(e, p)
  PROVE  /\ d.id = e.id /\ d.family = e.family /\ d.waived = e.waived
         /\ d.forces = e.forces /\ d.loops = e.loops
         /\ d.exited = e.exited /\ d.status = e.status
BY DEF Entered, EnteredIfAny, Run

\* What RInv says of the open run and its entry.
LEMMA OpenRun ==
  ASSUME RInv, Open
  PROVE  /\ run \in Run /\ run.id \in Id
         /\ log[run.id] \in Run /\ log[run.id].id = run.id
         /\ tally[run.id] \in [forces : Nat, loops : Nat]
         /\ tally = [tally EXCEPT ![run.id] = tally[run.id]]
<1>1. run \in Run
  BY DEF RInv, RTypeOK, TypeOK
<1>2. run.id \in 0..MaxRuns
  BY <1>1 DEF Run
<1>3. run.id \in Id
  BY <1>2, BoundsAssumption DEF Open, Id
<1> QED
  BY <1>1, <1>3 DEF RInv, RTypeOK, Lineage

\* A step that counts nothing keeps the tally.
LEMMA UncountedStep ==
  ASSUME RInv, NEW d, OnTheRun(d), Uncounted,
         run'.forces = run.forces, run'.loops = run.loops,
         d.forces = log[run.id].forces, d.loops = log[run.id].loops
  PROVE  OnTheTally(d)
<1>1. /\ tally' = tally /\ tally'[run.id] \in [forces : Nat, loops : Nat]
      /\ tally = [tally EXCEPT ![run.id] = tally[run.id]]
  BY OpenRun DEF OnTheRun, Uncounted
<1> QED
  BY <1>1 DEF OnTheTally, Counted

\* Parking and resuming.
LEMMA StatusStep ==
  ASSUME RInv, TypeOK', Open, NEW status \in {"active", "parked"},
         run' = [run EXCEPT !.status = status], UNCHANGED minted,
         Log([log[run.id] EXCEPT !.status = status]), Uncounted
  PROVE  RInv'
<1> DEFINE d == [log[run.id] EXCEPT !.status = status]
<1>1. run \in Run /\ log[run.id] \in Run
  BY OpenRun
<1>2. /\ d \in Run /\ d.id = log[run.id].id /\ d.status = status
      /\ d.family = log[run.id].family /\ d.waived = log[run.id].waived
      /\ d.forces = log[run.id].forces /\ d.loops = log[run.id].loops
      /\ d.exited = log[run.id].exited
  BY <1>1 DEF Run
<1>3. /\ run'.id = run.id /\ run'.waived = run.waived /\ run'.exited = run.exited
      /\ run'.forces = run.forces /\ run'.loops = run.loops
      /\ run'.status = status
  BY <1>1 DEF Run
<1>4. log' = [log EXCEPT ![run.id] = d] /\ UNCHANGED adopts
  BY DEF Log
<1> HIDE DEF d
<1>5. OnTheRun(d)
  BY <1>2, <1>3, <1>4 DEF OnTheRun, Tracks
<1> QED
  BY <1>2, <1>3, <1>5, UncountedStep, RunStepKeeps

\* Leaving a phase, by contract or by force.
LEMMA ExitStep ==
  ASSUME RInv, TypeOK', RExitPhase \/ RForceExit
  PROVE  RInv'
<1>1. Open /\ run.status = "active"
  BY DEF RExitPhase, RForceExit, ExitPhase, ForceExit, RInv, Lineage
<1>2. run \in Run /\ log[run.id] \in Run /\ run'.phase \in Phase \cup {NoPhase}
  BY <1>1, OpenRun DEF TypeOK, Run
<1>3. run.phase \in Phase \cup {NoPhase}
  BY <1>2 DEF Run
<1>4. Advance(run) \in Run
  BY <1>2, AdvanceType
<1>5. /\ Advance(run).id = run.id /\ Advance(run).waived = run.waived
      /\ Advance(run).exited = run.exited \cup {run.phase}
      /\ Advance(run).forces = run.forces /\ Advance(run).loops = run.loops
      /\ Advance(run).status = run.status
  BY <1>2 DEF Advance, Run
<1>6. CASE RExitPhase
  <2> DEFINE d == EnteredIfAny(Exited(log[run.id], run.phase), run'.phase)
             e == Exited(log[run.id], run.phase)
  <2>a. /\ e \in Run /\ e.id = log[run.id].id
        /\ e.family = log[run.id].family /\ e.waived = log[run.id].waived
        /\ e.forces = log[run.id].forces /\ e.loops = log[run.id].loops
        /\ e.exited = log[run.id].exited \cup {run.phase}
        /\ e.status = log[run.id].status
    BY <1>2, <1>3, EntryTypes DEF Exited, Run
  <2>b. d = EnteredIfAny(e, run'.phase) /\ d \in Run
    BY <1>2, <2>a, EntryTypes
  <2> HIDE DEF d, e
  <2>1. /\ d \in Run /\ d.id = log[run.id].id
        /\ d.family = log[run.id].family /\ d.waived = log[run.id].waived
        /\ d.forces = log[run.id].forces /\ d.loops = log[run.id].loops
        /\ d.exited = log[run.id].exited \cup {run.phase}
        /\ d.status = log[run.id].status
    BY <2>a, <2>b, EnteredKeeps
  <2>2. /\ run' = Advance(run) /\ UNCHANGED <<minted, adopts, tally>>
        /\ log' = [log EXCEPT ![run.id] = d]
    BY <1>6 DEF RExitPhase, ExitPhase, Log, Uncounted, d
  <2>3. OnTheRun(d)
    BY <1>1, <1>5, <2>1, <2>2 DEF OnTheRun, Tracks
  <2> QED
    BY <1>5, <2>1, <2>2, <2>3, UncountedStep, RunStepKeeps DEF Uncounted
<1>7. CASE RForceExit
  <2> DEFINE d == EnteredIfAny(Forced(log[run.id], run.phase), run'.phase)
             e == Exited(log[run.id], run.phase)
             t == [tally[run.id] EXCEPT !.forces = @ + 1]
  <2>1. /\ e \in Run /\ e.id = log[run.id].id
        /\ e.family = log[run.id].family /\ e.waived = log[run.id].waived
        /\ e.forces = log[run.id].forces /\ e.loops = log[run.id].loops
        /\ e.exited = log[run.id].exited \cup {run.phase}
        /\ e.status = log[run.id].status
    BY <1>2, <1>3, EntryTypes DEF Exited, Run
  <2>2. d \in Run
    BY <1>2, <1>3, EntryTypes
  <2>3. d = EnteredIfAny([e EXCEPT !.forces = @ + 1], run'.phase)
    BY DEF Forced
  <2> HIDE DEF e
  <2>4. /\ d.id = e.id /\ d.family = e.family /\ d.waived = e.waived
        /\ d.forces = e.forces + 1 /\ d.loops = e.loops
        /\ d.exited = e.exited /\ d.status = e.status
    BY <2>1, <2>3 DEF Entered, EnteredIfAny, Run
  <2>5. /\ run' = [Advance(run) EXCEPT !.forces = @ + 1] /\ run.forces < 2
        /\ UNCHANGED <<minted, adopts>> /\ log' = [log EXCEPT ![run.id] = d]
        /\ tally' = [tally EXCEPT ![run.id] = t]
    BY <1>7 DEF RForceExit, ForceExit, Log
  <2>6. /\ run'.id = run.id /\ run'.waived = run.waived
        /\ run'.exited = run.exited \cup {run.phase}
        /\ run'.forces = run.forces + 1 /\ run'.loops = run.loops
        /\ run'.status = run.status
    BY <1>4, <1>5, <2>5 DEF Run
  <2> HIDE DEF d
  <2>7. OnTheRun(d)
    BY <1>1, <2>1, <2>2, <2>4, <2>5, <2>6 DEF OnTheRun, Tracks
  <2>8. /\ tally[run.id] \in [forces : Nat, loops : Nat]
        /\ t \in [forces : Nat, loops : Nat] /\ tally'[run.id] = t
        /\ t.forces = tally[run.id].forces + 1 /\ t.loops = tally[run.id].loops
    BY <1>1, <2>5, OpenRun DEF RInv, RTypeOK
  <2> HIDE DEF t
  <2>9. OnTheTally(d)
    <3>1. Counted(run, tally[run.id]) => Counted(run', t)
      BY <2>6, <2>8 DEF Counted
    <3>2. Counted(run, tally[run.id]) /\ Within(tally[run.id]) => Within(t)
      BY <1>2, <2>5, <2>8 DEF Counted, Within, Run
    <3>3. Counted(log[run.id], tally[run.id]) => Counted(d, t)
      BY <2>1, <2>4, <2>8 DEF Counted
    <3> QED
      BY <2>5, <2>8, <3>1, <3>2, <3>3 DEF OnTheTally
  <2> QED
    BY <2>7, <2>9, RunStepKeeps
<1> QED
  BY <1>6, <1>7

\* A waiver is logged as it is granted, the current phase's with an enter event.
LEMMA WaiveStep ==
  ASSUME RInv, TypeOK', NEW p \in Phase, RWaive(p)
  PROVE  RInv'
<1> DEFINE r == [run EXCEPT !.waived = @ \cup {p}]
           e == Waived(log[run.id], p)
           n == NextOf(r)
<1>1. Open /\ run \in Run /\ log[run.id] \in Run
  BY OpenRun DEF RWaive, Waive, Waivable
<1>2. run'.phase \in Phase \cup {NoPhase}
  BY DEF TypeOK, Run
<1>3. /\ run' = IF run.phase = p THEN [r EXCEPT !.phase = n] ELSE r
      /\ UNCHANGED <<minted, adopts, tally>>
  BY DEF RWaive, Waive, Log, Uncounted
<1>4. /\ r \in Run /\ r.id = run.id /\ r.waived = run.waived \cup {p}
      /\ r.exited = run.exited /\ r.forces = run.forces /\ r.loops = run.loops
      /\ r.status = run.status
  BY <1>1 DEF Run
<1>5. /\ e \in Run /\ e.id = log[run.id].id /\ e.family = log[run.id].family
      /\ e.waived = log[run.id].waived \cup {p} /\ e.exited = log[run.id].exited
      /\ e.forces = log[run.id].forces /\ e.loops = log[run.id].loops
      /\ e.status = log[run.id].status
  BY <1>1, EntryTypes DEF Waived, Run
<1>6. PICK d : /\ d = Entered(e, run'.phase) \/ d = e
               /\ log' = [log EXCEPT ![run.id] = d]
  BY DEF RWaive, Log
<1> HIDE DEF r, e, n
<1>7. /\ run'.id = run.id /\ run'.waived = run.waived \cup {p}
      /\ run'.exited = run.exited /\ run'.forces = run.forces
      /\ run'.loops = run.loops /\ run'.status = run.status
  BY <1>3, <1>4 DEF Run
<1>8. /\ d \in Run /\ d.id = e.id /\ d.family = e.family /\ d.waived = e.waived
      /\ d.forces = e.forces /\ d.loops = e.loops /\ d.exited = e.exited
      /\ d.status = e.status
  BY <1>2, <1>5, <1>6, EntryTypes, EnteredKeeps
<1>9. OnTheRun(d)
  BY <1>1, <1>3, <1>5, <1>6, <1>7, <1>8 DEF OnTheRun, Tracks
<1> QED
  BY <1>3, <1>5, <1>7, <1>8, <1>9, UncountedStep, RunStepKeeps DEF Uncounted

\* A loop un-exits its target in the snapshot only, so the log has exited no less.
LEMMA LoopStep ==
  ASSUME RInv, TypeOK', NEW c \in Cause, NEW a \in AC, RLoop(c, a)
  PROVE  RInv'
<1> DEFINE d == Looped(log[run.id], LoopTarget[c])
           e == Entered(log[run.id], LoopTarget[c])
           t == [tally[run.id] EXCEPT !.loops = @ + 1]
           q == CountLoop(run, c, a)
<1>1. Open /\ run \in Run /\ log[run.id] \in Run
  BY OpenRun DEF RLoop, Loop, CanLoop
<1>2. LoopTarget[c] \in Phase
  BY LoopTargetType, PhasesAssumption
<1>3. d \in Run /\ e \in Run /\ d = [e EXCEPT !.loops = @ + 1]
  BY <1>1, <1>2, EntryTypes DEF Looped
<1>4. /\ e.id = log[run.id].id /\ e.family = log[run.id].family
      /\ e.waived = log[run.id].waived /\ e.exited = log[run.id].exited
      /\ e.forces = log[run.id].forces /\ e.loops = log[run.id].loops
      /\ e.status = log[run.id].status
  BY <1>1, EnteredKeeps
<1>5. q \in Run
  BY <1>1, CountLoopType
<1>6. /\ q.id = run.id /\ q.waived = run.waived /\ q.exited = run.exited
      /\ q.forces = run.forces /\ q.loops = run.loops + 1
      /\ q.status = run.status
  BY <1>1 DEF CountLoop, Run
<1>7. /\ run' = [q EXCEPT !.exited = @ \ {LoopTarget[c]}, !.phase = LoopTarget[c]]
      /\ run.loops < MaxLoops
      /\ UNCHANGED <<minted, adopts>> /\ log' = [log EXCEPT ![run.id] = d]
      /\ tally' = [tally EXCEPT ![run.id] = t]
  BY DEF RLoop, Loop, Log
<1> HIDE DEF d, e, q
<1>8. /\ run'.id = run.id /\ run'.waived = run.waived
      /\ run'.exited \subseteq run.exited /\ run'.forces = run.forces
      /\ run'.loops = run.loops + 1 /\ run'.status = run.status
  BY <1>5, <1>6, <1>7 DEF Run
<1>9. /\ d.id = e.id /\ d.family = e.family /\ d.waived = e.waived
      /\ d.forces = e.forces /\ d.loops = e.loops + 1 /\ d.exited = e.exited
      /\ d.status = e.status
  BY <1>3 DEF Run
<1>10. OnTheRun(d)
  BY <1>1, <1>3, <1>4, <1>7, <1>8, <1>9 DEF OnTheRun, Tracks
<1>11. /\ tally[run.id] \in [forces : Nat, loops : Nat]
       /\ t \in [forces : Nat, loops : Nat] /\ tally'[run.id] = t
       /\ t.forces = tally[run.id].forces /\ t.loops = tally[run.id].loops + 1
  BY <1>1, <1>7, OpenRun DEF RInv, RTypeOK
<1> HIDE DEF t
<1>12. OnTheTally(d)
  <2>1. Counted(run, tally[run.id]) => Counted(run', t)
    BY <1>8, <1>11 DEF Counted
  <2>2. Counted(run, tally[run.id]) /\ Within(tally[run.id]) => Within(t)
    BY <1>1, <1>7, <1>11, BoundsAssumption DEF Counted, Within, Run
  <2>3. Counted(log[run.id], tally[run.id]) => Counted(d, t)
    BY <1>4, <1>9, <1>11 DEF Counted
  <2> QED
    BY <1>7, <1>11, <2>1, <2>2, <2>3 DEF OnTheTally
<1> QED
  BY <1>10, <1>12, RunStepKeeps

\* A corrected family is not logged, and is nothing GrantsAreLogged compares.
LEMMA ReclassifyStep ==
  ASSUME RInv, TypeOK', NEW f \in Family, RReclassify(f)
  PROVE  RInv'
<1> DEFINE d == log[run.id]
<1>1. Open /\ run \in Run /\ d \in Run /\ log = [log EXCEPT ![run.id] = d]
  BY OpenRun DEF RReclassify, Reclassify, RInv, RTypeOK
<1>2. run' = [run EXCEPT !.family = f] /\ UNCHANGED <<minted, log, adopts, tally>>
  BY DEF RReclassify, Reclassify
<1>3. /\ run'.id = run.id /\ run'.waived = run.waived /\ run'.exited = run.exited
      /\ run'.forces = run.forces /\ run'.loops = run.loops
      /\ run'.status = run.status
  BY <1>1, <1>2 DEF Run
<1>4. OnTheRun(d)
  BY <1>1, <1>2, <1>3 DEF OnTheRun, Tracks
<1> QED
  BY <1>2, <1>3, <1>4, UncountedStep, RunStepKeeps DEF Uncounted

-----------------------------------------------------------------------------
(* Commands that change which run is open.                                 *)

\* A fresh run: its id is new, so nothing in the log is newer; what a branch
\* does to its parent's entry, b, leaves the counters of that entry alone.
LEMMA FreshStep ==
  ASSUME RInv, TypeOK', NEW f \in Family, NEW parent \in Nat, Begin(f, parent),
         UNCHANGED <<adopts, tally>>,
         NEW b \in [Id -> Run], NEW d \in Run,
         \A i \in Id : /\ b[i].id = log[i].id
                       /\ b[i].forces = log[i].forces /\ b[i].loops = log[i].loops,
         d.id = run'.id, Tracks(run', d), Counted(d, Untallied),
         log' = [b EXCEPT ![run'.id] = d]
  PROVE  RInv'
<1>1. /\ minted < MaxRuns /\ minted \in 0..MaxRuns /\ minted' = minted + 1
      /\ run'.id = minted + 1 /\ run'.forces = 0 /\ run'.loops = 0
  BY DEF Begin, NewRun, RInv, RTypeOK, TypeOK
<1>2. run'.id \in Id /\ run'.id # 0
  BY <1>1, BoundsAssumption DEF Id
<1>3. \A i \in Id : /\ i = run'.id => log'[i] = d
                    /\ i # run'.id => log'[i] = b[i]
  BY <1>2
<1>4. RTypeOK'
  BY <1>2 DEF RInv, RTypeOK
<1>5. tally[run'.id] = Untallied
  BY <1>1, <1>2 DEF RInv, Lineage, Id
<1>6. Live' = Live \cup {run'.id}
  BY <1>2, <1>3 DEF Live
<1>7. \A i \in Live : i < run'.id
  <2> TAKE i \in Live
  <2>1. i \in Id /\ ~ (i > minted)
    BY DEF RInv, Lineage, Live
  <2> QED
    BY <1>1, <2>1, BoundsAssumption DEF Id
<1>8. Lineage'
  <2>1. \A i \in Id : /\ log'[i].id \in {0, i}
                      /\ i > minted' => log'[i].id = 0 /\ tally'[i] = Untallied
    <3> TAKE i \in Id
    <3>1. i \in Nat
      BY BoundsAssumption DEF Id
    <3>2. CASE i = run'.id
      BY <1>1, <1>3, <3>2
    <3>3. CASE i # run'.id
      BY <1>1, <1>3, <3>1, <3>3 DEF RInv, Lineage
    <3> QED
      BY <3>2, <3>3
  <2>2. \A i \in Live' : i <= run'.id
    BY <1>1, <1>6, <1>7, BoundsAssumption DEF Live, Id
  <2>3. log'[run'.id].id = run'.id
    BY <1>2, <1>3
  <2> QED
    BY <1>1, <1>2, <2>1, <2>2, <2>3 DEF Lineage, Open
<1>9. Tracks(run', log'[run'.id])
  BY <1>2, <1>3
<1>10. Counted(run', tally'[run'.id])
  BY <1>1, <1>5 DEF Counted, Untallied
<1>11. ASSUME adopts = 0
       PROVE  \A i \in Live' : Counted(log'[i], tally'[i])
  <2> TAKE i \in Live'
  <2>1. CASE i = run'.id
    BY <1>2, <1>3, <1>5, <2>1
  <2>2. CASE i # run'.id
    BY <1>3, <1>6, <1>11, <2>2 DEF Counted, RInv, Counting, Live
  <2> QED
    BY <2>1, <2>2
<1>12. Counting'
  BY <1>10, <1>11 DEF RInv, Counting
<1> QED
  BY <1>4, <1>8, <1>9, <1>12 DEF RInv

\* What a start logs of a run agrees with the snapshot it leaves.
LEMMA FreshEntry ==
  ASSUME NEW id \in 0..MaxRuns, NEW parent \in 0..MaxRuns,
         NEW f \in Family \cup {NoFamily}, NEW p \in Phase \cup {NoPhase}
  PROVE  /\ Fresh(id, parent, f) \in Run
         /\ NewRun(id, parent, f, p) \in Run
         /\ \A d \in {Fresh(id, parent, f), NewRun(id, parent, f, p)} :
              /\ d.id = id /\ d.family = f
              /\ d.waived = {} /\ d.exited = {} /\ d.status = "active"
              /\ d.forces = 0 /\ d.loops = 0
<1>1. Fresh(id, parent, f) \in Run /\ NewRun(id, parent, f, p) \in Run
  BY DEF Fresh, NewRun, Run
<1> QED
  BY <1>1 DEF Fresh, NewRun

\* A start, over a parked run or over none.
LEMMA StartStep ==
  ASSUME RInv, TypeOK', NEW f \in Family, RStart(f)
  PROVE  RInv'
<1>1. Begin(f, 0) /\ UNCHANGED <<adopts, tally>> /\ minted + 1 \in 0..MaxRuns
  BY BoundsAssumption DEF RStart, Start, Begin, RInv, RTypeOK, TypeOK
<1>2. PICK p \in Phase : run' = NewRun(minted + 1, 0, f, p)
  BY <1>1 DEF Begin
<1>3. PICK e : e = Fresh(run'.id, 0, f)
  OBVIOUS
<1>4. PICK d : d = Entered(e, run'.phase)
  OBVIOUS
<1>5. PICK b : b = log
  OBVIOUS
<1>6. run'.id = minted + 1 /\ run'.phase = p
  BY <1>2 DEF NewRun
<1>7. 0 \in 0..MaxRuns
  BY BoundsAssumption
<1>8. /\ e \in Run /\ e.id = run'.id /\ e.family = f
      /\ e.waived = {} /\ e.exited = {} /\ e.status = "active"
      /\ e.forces = 0 /\ e.loops = 0
  BY <1>1, <1>3, <1>6, <1>7, FreshEntry
<1>9. /\ run'.waived = {} /\ run'.exited = {} /\ run'.status = "active"
      /\ run'.forces = 0 /\ run'.loops = 0
  BY <1>1, <1>2, <1>7, FreshEntry
<1>10. d \in Run
  BY <1>4, <1>6, <1>8, EntryTypes
<1>11. /\ d.id = run'.id /\ d.waived = {} /\ d.exited = {}
       /\ d.status = "active" /\ d.forces = 0 /\ d.loops = 0
  BY <1>4, <1>8, EnteredKeeps
<1>12. Tracks(run', d) /\ Counted(d, Untallied)
  BY <1>9, <1>11 DEF Tracks, Counted, Untallied
<1>13. log' = [b EXCEPT ![run'.id] = d]
  BY <1>3, <1>4, <1>5 DEF RStart
<1>14. b \in [Id -> Run]
  BY <1>5 DEF RInv, RTypeOK
<1> QED
  BY <1>1, <1>5, <1>10, <1>11, <1>12, <1>13, <1>14, FreshStep

\* A branch parks its parent in the log and opens the child.
LEMMA BranchStep ==
  ASSUME RInv, TypeOK', NEW f \in Family, RBranch(f)
  PROVE  RInv'
<1>1. /\ Begin(f, run.id) /\ UNCHANGED <<adopts, tally>> /\ Open
      /\ minted + 1 \in 0..MaxRuns
  BY BoundsAssumption DEF RBranch, Branch, Begin, RInv, RTypeOK, TypeOK
<1>2. /\ run.id \in Id /\ run.id \in 0..MaxRuns /\ log \in [Id -> Run]
      /\ log[run.id] \in Run
  BY <1>1, OpenRun, BoundsAssumption DEF RInv, RTypeOK, Id
<1>3. PICK parent : parent = run.id
  OBVIOUS
<1>4. PICK p \in Phase : run' = NewRun(minted + 1, run.id, f, p)
  BY <1>1 DEF Begin
<1>5. PICK d : d = Fresh(run'.id, run.id, f)
  OBVIOUS
<1>6. PICK e : e = Parked(log[run.id])
  OBVIOUS
<1>7. PICK b : b = [log EXCEPT ![run.id] = e]
  OBVIOUS
<1>8. run'.id = minted + 1
  BY <1>4 DEF NewRun
<1>9. /\ d \in Run /\ d.id = run'.id /\ d.family = f
      /\ d.waived = {} /\ d.exited = {} /\ d.status = "active"
      /\ d.forces = 0 /\ d.loops = 0
  BY <1>1, <1>2, <1>5, <1>8, FreshEntry
<1>10. /\ run'.waived = {} /\ run'.exited = {} /\ run'.status = "active"
       /\ run'.forces = 0 /\ run'.loops = 0
  BY <1>1, <1>2, <1>4, FreshEntry
<1>11. Tracks(run', d) /\ Counted(d, Untallied)
  BY <1>9, <1>10 DEF Tracks, Counted, Untallied
<1>12. /\ e \in Run /\ e.id = log[run.id].id
       /\ e.forces = log[run.id].forces /\ e.loops = log[run.id].loops
  BY <1>2, <1>6 DEF Parked, Run
<1>13. b \in [Id -> Run]
  BY <1>2, <1>7, <1>12
<1>14. \A i \in Id : /\ b[i].id = log[i].id
                     /\ b[i].forces = log[i].forces /\ b[i].loops = log[i].loops
  BY <1>2, <1>7, <1>12
<1>15. log' = [b EXCEPT ![run'.id] = d]
  BY <1>5, <1>6, <1>7 DEF RBranch
<1>16. Begin(f, parent) /\ parent \in Nat
  BY <1>1, <1>2, <1>3, BoundsAssumption DEF Id
<1> QED
  BY <1>1, <1>9, <1>11, <1>13, <1>14, <1>15, <1>16, FreshStep

\* A close archives the entry, and no run is open then.
LEMMA ClosedStep ==
  ASSUME RInv, TypeOK', RClose
  PROVE  RInv'
<1>1. Open /\ run' = NoRun /\ UNCHANGED <<minted, adopts>>
  BY DEF RClose, Close
<1>2. /\ run.id \in Id /\ log \in [Id -> Run]
      /\ tally \in [Id -> [forces : Nat, loops : Nat]]
  BY <1>1, OpenRun DEF RInv, RTypeOK
<1>3. /\ log' = [log EXCEPT ![run.id] = NoRun]
      /\ tally' = [tally EXCEPT ![run.id] = Untallied]
  BY DEF RClose, Archived
<1>4. \A i \in Id :
        /\ i = run.id => log'[i] = NoRun /\ tally'[i] = Untallied
        /\ i # run.id => log'[i] = log[i] /\ tally'[i] = tally[i]
  BY <1>2, <1>3
<1>5. Untallied \in [forces : Nat, loops : Nat] /\ Within(Untallied)
  BY BoundsAssumption DEF Untallied, Within
<1>6. RTypeOK'
  BY <1>1, <1>2, <1>3, <1>5, NoRunType DEF RInv, RTypeOK
<1>7. NoRun.id = 0 /\ NoRun.status = "none" /\ ~ Open'
  BY <1>1, NoRunType DEF NoRun, NewRun, Open
<1>8. Lineage'
  <2>1. minted \in Nat
    BY BoundsAssumption DEF RInv, RTypeOK, TypeOK
  <2> QED
    BY <1>1, <1>4, <1>7, <2>1 DEF RInv, Lineage
<1>9. \A i \in Live' : i \in Live /\ i # run.id
  BY <1>4, <1>7 DEF Live
<1>10. Counting'
  <2>1. adopts <= 1 => \A i \in Id : Within(tally'[i])
    BY <1>4, <1>5 DEF RInv, Counting
  <2>2. adopts <= 1 /\ adopts = 0 => \A i \in Live' : Counted(log'[i], tally'[i])
    BY <1>4, <1>9 DEF RInv, Counting, Live
  <2> QED
    BY <1>1, <1>7, <2>1, <2>2 DEF Counting
<1> QED
  BY <1>6, <1>7, <1>8, <1>10 DEF RInv

-----------------------------------------------------------------------------
(* Losing the snapshot and taking a derived run over.                      *)

\* Losing state/run.json loses nothing of the log.
LEMMA LoseStep ==
  ASSUME RInv, LoseSnapshot
  PROVE  RInv'
<1>1. /\ run' = NoRun /\ redo' = {} /\ UNCHANGED <<minted, log, adopts, tally>>
  BY DEF LoseSnapshot
<1>2. NoRun.id = 0 /\ NoRun.status = "none" /\ ~ Open'
  BY <1>1, NoRunType DEF NoRun, NewRun, Open
<1>3. RTypeOK'
  BY <1>1, NoRunType DEF RInv, RTypeOK, TypeOK
<1>4. Live' = Live /\ minted \in Nat
  BY <1>1, BoundsAssumption DEF Live, RInv, RTypeOK, TypeOK
<1> QED
  BY <1>1, <1>2, <1>3, <1>4 DEF RInv, Lineage, Counting

\* An adoption makes the newest run alive the open one, with the counters its
\* entry had, and starts that entry over.
LEMMA AdoptStep ==
  ASSUME RInv, Adopt
  PROVE  RInv'
<1>1. PICK m \in Live : /\ Derived = log[m] /\ Derived.id = m
                        /\ \A i \in Live : i <= m
  BY DerivedIsNewest DEF Adopt
<1>2. /\ m \in Id /\ m # 0 /\ m \in 0..MaxRuns /\ log[m].id = m
      /\ log \in [Id -> Run] /\ log[m] \in Run
  BY <1>1, BoundsAssumption DEF Live, Id, RInv, RTypeOK
<1>3. PICK d : d = Fresh(m, 0, NoFamily)
  OBVIOUS
<1>4. /\ run' = log[m] /\ log' = [log EXCEPT ![m] = d] /\ adopts' = adopts + 1
      /\ adopts < MaxAdopts /\ redo' = (IF m = run.id THEN redo ELSE {})
      /\ UNCHANGED <<minted, tally>>
  BY <1>1, <1>3 DEF Adopt
<1>5. d \in Run /\ d.id = m /\ d.family = NoFamily
  <2>1. 0 \in 0..MaxRuns
    BY BoundsAssumption
  <2> QED
    BY <1>2, <1>3, <2>1, FreshEntry
<1>6. adopts \in Nat /\ adopts' \in 0..MaxAdopts
  BY <1>4, AdoptsAssumption DEF RInv, RTypeOK
<1>7. RTypeOK'
  BY <1>2, <1>4, <1>5, <1>6 DEF RInv, RTypeOK, TypeOK
<1>8. \A i \in Id : /\ i = m => log'[i] = d
                    /\ i # m => log'[i] = log[i]
  BY <1>2, <1>4
<1>9. Live' = Live
  BY <1>1, <1>2, <1>5, <1>8 DEF Live
<1>10. Lineage'
  <2>1. m <= minted
    BY <1>1, <1>2, BoundsAssumption DEF RInv, Lineage, RTypeOK, TypeOK, Id
  <2>2. \A i \in Id : /\ log'[i].id \in {0, i}
                      /\ i > minted => log'[i].id = 0 /\ tally[i] = Untallied
    <3> TAKE i \in Id
    <3>1. CASE i = m
      BY <1>2, <1>5, <1>8, <3>1 DEF RInv, Lineage
    <3>2. CASE i # m
      BY <1>8, <3>2 DEF RInv, Lineage
    <3> QED
      BY <3>1, <3>2
  <2>3. run'.id = m /\ log'[run'.id].id = run'.id
    BY <1>2, <1>4, <1>5, <1>8
  <2> QED
    BY <1>1, <1>2, <1>4, <1>9, <2>1, <2>2, <2>3 DEF Lineage, Open
<1>11. Tracks(run', log'[run'.id])
  BY <1>2, <1>4, <1>5, <1>8 DEF Tracks
<1>12. Counting'
  <2> SUFFICES ASSUME adopts' <= 1
               PROVE  /\ \A i \in Id : Within(tally[i])
                      /\ Counted(run', tally[m])
    BY <1>2, <1>4, <1>6 DEF Counting
  <2>1. adopts = 0
    BY <1>4, <1>6
  <2> QED
    BY <1>1, <1>4, <2>1 DEF RInv, Counting
<1> QED
  BY <1>7, <1>10, <1>11, <1>12 DEF RInv

-----------------------------------------------------------------------------
(* The theorems.                                                           *)

\* Every step keeps the invariant.
LEMMA RInvStep ==
  ASSUME RInv, [RNext]_rvars
  PROVE  RInv'
<1>1. TypeOK
  BY DEF RInv, RTypeOK
<1>2. CASE LoseSnapshot
  BY <1>2, LoseStep
<1>3. CASE Adopt
  BY <1>3, AdoptStep
<1>4. CASE UNCHANGED rvars
  BY <1>4 DEF rvars, vars, RInv, RTypeOK, TypeOK, Lineage, Tracks, Counting,
     Counted, Within, Open, Live
<1>5. ASSUME NEW f \in Family, RStart(f) \/ RBranch(f) \/ RReclassify(f)
      PROVE  RInv'
  <2>1. TypeOK'
    BY <1>1, <1>5, TypeStep DEF RStart, RBranch, RReclassify, Next
  <2> QED
    BY <1>5, <2>1, StartStep, BranchStep, ReclassifyStep
<1>6. ASSUME NEW p \in Phase, RWaive(p) PROVE RInv'
  <2>1. TypeOK'
    BY <1>1, <1>6, TypeStep DEF RWaive, Next
  <2> QED
    BY <1>6, <2>1, WaiveStep
<1>7. ASSUME NEW c \in Cause, NEW a \in AC, RLoop(c, a) PROVE RInv'
  <2>1. TypeOK'
    BY <1>1, <1>7, TypeStep DEF RLoop, Next
  <2> QED
    BY <1>7, <2>1, LoopStep
<1>8. ASSUME NEW c \in Cause, RLoopParks(c) PROVE RInv'
  <2>1. TypeOK'
    BY <1>1, <1>8, TypeStep DEF RLoopParks, Next
  <2> QED
    BY <1>8, <2>1, StatusStep DEF RLoopParks, LoopParks, CanLoop, Parked
<1>9. CASE RExitPhase \/ RForceExit
  <2>1. TypeOK'
    BY <1>1, <1>9, TypeStep DEF RExitPhase, RForceExit, Next
  <2> QED
    BY <1>9, <2>1, ExitStep
<1>10. CASE RBranchRefused \/ RForceParks \/ RPark
  <2>1. TypeOK'
    BY <1>1, <1>10, TypeStep DEF RBranchRefused, RForceParks, RPark, Next
  <2>2. Open
    BY <1>10 DEF RBranchRefused, RForceParks, RPark, BranchRefused, ForceParks,
       Park, RInv, Lineage
  <2> QED
    BY <1>10, <2>1, <2>2, StatusStep
       DEF RBranchRefused, RForceParks, RPark, BranchRefused, ForceParks, Park, Parked
<1>11. CASE RResume
  <2>1. TypeOK'
    BY <1>1, <1>11, TypeStep DEF RResume, Next
  <2>2. Open
    BY <1>11 DEF RResume, Resume, RInv, Lineage
  <2> QED
    BY <1>11, <2>1, <2>2, StatusStep DEF RResume, Resume, Resumed
<1>12. CASE RClose
  <2>1. TypeOK'
    BY <1>1, <1>12, TypeStep DEF RClose, Next
  <2> QED
    BY <1>12, <2>1, ClosedStep
<1> QED
  BY <1>2, <1>3, <1>4, <1>5, <1>6, <1>7, <1>8, <1>9, <1>10, <1>11, <1>12
     DEF RNext

\* The inductive invariant.
LEMMA RInvariance == RSpec => []RInv
<1>1. RInit => RInv
  <2> SUFFICES ASSUME RInit PROVE RInv
    OBVIOUS
  <2>1. RTypeOK
    BY NoRunType, BoundsAssumption, AdoptsAssumption
       DEF RInit, Init, RTypeOK, TypeOK, Untallied
  <2>2. ~ Open /\ run.status = "none" /\ Live = {}
    BY NoRunType DEF RInit, Init, Open, Live, NoRun, NewRun
  <2>3. Within(Untallied)
    BY BoundsAssumption DEF Within, Untallied
  <2> QED
    BY <2>1, <2>2, <2>3, NoRunType DEF RInit, Init, RInv, Lineage, Counting
<1>2. RInv /\ [RNext]_rvars => RInv'
  BY RInvStep
<1> QED
  BY <1>1, <1>2, PTL DEF RSpec

\* The snapshot, the log folded to a snapshot per run, and the tally stay
\* well-formed.
THEOREM RecoveryTypeCorrect == RSpec => []RTypeOK
<1>1. RInv => RTypeOK
  BY DEF RInv
<1> QED
  BY <1>1, RInvariance, PTL

\* The run wf doctor derives from the log is the one of the snapshot, whatever
\* was branched, overwritten while parked, archived or adopted.
THEOREM DoctorAlwaysAgrees == RSpec => []DoctorAgrees
<1>1. RInv => DoctorAgrees
  <2> SUFFICES ASSUME RInv, Open PROVE Derived.id = run.id
    BY DEF DoctorAgrees
  <2>1. run.id \in Live /\ Live # {} /\ Live \subseteq Id
    BY OpenRun DEF Live, Open
  <2>2. /\ Max(Live) \in Live /\ \A i \in Live : i <= Max(Live)
    BY <2>1, NewestIsLast
  <2>3. Max(Live) \in Nat /\ run.id \in Nat
    <3>1. \A i \in Id : i \in Nat
      BY BoundsAssumption DEF Id
    <3>2. Max(Live) \in Id /\ run.id \in Id
      BY <2>1, <2>2
    <3> QED
      BY <3>1, <3>2
  <2>4. Max(Live) = run.id
    BY <2>1, <2>2, <2>3 DEF RInv, Lineage
  <2> QED
    BY <2>1, <2>4 DEF Derived, RInv, Lineage
<1> QED
  BY <1>1, RInvariance, PTL

\* Until an adoption starts its entry over, the log holds what the open run
\* was granted: waivers, forces, loops, exits and whether it is parked.
THEOREM GrantsStayLogged == RSpec => []GrantsAreLogged
<1>1. RInv => GrantsAreLogged
  BY DEF RInv, Tracks, GrantsAreLogged
<1> QED
  BY <1>1, RInvariance, PTL

\* The first adoption buys no run an extra force or loop, however many losses
\* MaxAdopts allows.
THEOREM CapsSurvive == RSpec => [](adopts <= 1 => CapsSurviveAdoption)
<1>1. RInv => (adopts <= 1 => CapsSurviveAdoption)
  BY DEF RInv, Counting, Within, CapsSurviveAdoption
<1> QED
  BY <1>1, RInvariance, PTL

=============================================================================
