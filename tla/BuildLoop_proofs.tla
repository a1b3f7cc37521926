-------------------------- MODULE BuildLoop_proofs --------------------------
(***************************************************************************)
(* Proofs about BuildLoop, for every set of native tasks, titles and       *)
(* commands, and every bound on task records.                              *)
(***************************************************************************)
EXTENDS BuildLoop, WellFoundedInduction, TLAPS

-----------------------------------------------------------------------------
(* The matching ladder.                                                    *)

\* A nonempty set of numbers has a least one.
LEMMA MinIsIn ==
  ASSUME NEW S, S \subseteq Nat, S # {}
  PROVE  Min(S) \in S
<1> DEFINE R == {ss \in Nat \X Nat : ss[1] < ss[2]}
<1>1. IsWellFoundedOn(R, Nat)
  BY NatLessThanWellFounded, Zenon DEF OpToRel
<1> HIDE DEF R
<1>2. PICK x \in S : \A y \in S : ~ (<<y, x>> \in R)
  BY <1>1, WFMin, Zenon
<1>3. \A y \in S : x =< y
  <2> TAKE y \in S
  <2>1. x \in Nat /\ y \in Nat
    OBVIOUS
  <2>2. <<y, x>> \in R <=> y < x
    BY <2>1 DEF R
  <2> QED
    BY <1>2, <2>1, <2>2
<1> QED
  BY <1>3 DEF Min

\* A record names a native task by its tid or by its subject.
Names(i, n) == \/ tasks[i].tid = Subject[n].tid
               \/ tasks[i].title = Subject[n].title

Named(n) == \E i \in DOMAIN tasks : Names(i, n)

\* The ladder finds a record that exists and names the task, and finds one for
\* whatever is named.
LEMMA LadderFinds ==
  ASSUME tasks \in Seq(TaskType), NEW n
  PROVE  /\ MatchTaskRecord(Subject[n]) \in 0..Len(tasks)
         /\ Named(n) <=> MatchTaskRecord(Subject[n]) # NoRecord
         /\ LET i == MatchTaskRecord(Subject[n])
            IN  i # NoRecord => Names(i, n)
<1> DEFINE A == WithTid(Subject[n].tid)
           B == WithTitle(Subject[n].title)
<1>1. A \subseteq 1..Len(tasks) /\ B \subseteq 1..Len(tasks)
  BY DEF WithTid, WithTitle
<1>2. Named(n) <=> A # {} \/ B # {}
  BY DEF Named, Names, WithTid, WithTitle
<1>9. \A i \in A \cup B : Names(i, n)
  BY DEF Names, WithTid, WithTitle
<1>3. A # {} => Min(A) \in A
  BY <1>1, MinIsIn
<1>4. B # {} => Min(B) \in B
  BY <1>1, MinIsIn
<1> HIDE DEF A, B
<1>5. MatchTaskRecord(Subject[n]) =
        IF A # {} THEN Min(A) ELSE IF B = {} THEN NoRecord ELSE Min(B)
  BY DEF MatchTaskRecord, First, A, B
<1>6. CASE A # {}
  <2>1. MatchTaskRecord(Subject[n]) \in 1..Len(tasks)
    BY <1>1, <1>3, <1>5, <1>6
  <2> QED
    BY <1>2, <1>3, <1>5, <1>6, <1>9, <2>1 DEF NoRecord
<1>7. CASE A = {} /\ B # {}
  <2>1. MatchTaskRecord(Subject[n]) \in 1..Len(tasks)
    BY <1>1, <1>4, <1>5, <1>7
  <2> QED
    BY <1>2, <1>4, <1>5, <1>7, <1>9, <2>1 DEF NoRecord
<1>8. CASE A = {} /\ B = {}
  <2>1. MatchTaskRecord(Subject[n]) = 0
    BY <1>5, <1>8 DEF NoRecord
  <2> QED
    BY <1>2, <1>8, <2>1 DEF NoRecord
<1> QED
  BY <1>6, <1>7, <1>8

-----------------------------------------------------------------------------
(* Red-green pairs.                                                        *)

\* A run captured for a task leaves its evidence well typed, and whatever
\* paired before still does.
LEMMA PairsStay ==
  ASSUME NEW e \in Evidence, NEW c \in Cmd
  PROVE  /\ Passed(e, c) \in Evidence /\ Failed(e, c) \in Evidence
         /\ e.pair # "none" => /\ Passed(e, c).pair # "none"
                               /\ Failed(e, c).pair # "none"
<1>1. e.reds \cup {c} \subseteq Cmd
  BY DEF Evidence
<1>2. Failed(e, c) \in Evidence /\ Failed(e, c).pair = e.pair
  BY <1>1 DEF Failed, Evidence
<1> DEFINE pairs == {e.pair} \cup {Pair(red, c) : red \in e.reds}
<1>3. e.pair \in pairs
  OBVIOUS
<1>4. Passed(e, c) = IF "strict" \in pairs THEN [reds |-> {}, pair |-> "strict"]
                     ELSE IF "weak" \in pairs THEN [e EXCEPT !.pair = "weak"]
                     ELSE e
  BY DEF Passed
<1> HIDE DEF pairs
<1>5. Passed(e, c) \in Evidence
  BY <1>4 DEF Evidence
<1>6. e.pair # "none" => Passed(e, c).pair # "none"
  BY <1>3, <1>4 DEF Evidence
<1> QED
  BY <1>2, <1>5, <1>6

-----------------------------------------------------------------------------
(* The inductive invariant.                                                *)

\* Records are only added, and a record keeps its number.
RefersTo(i) == i \in 0..Len(tasks)

\* Every reference is to a record that exists, and a hook that found none has
\* taken a number that is free or given already.
Refs ==
  /\ \A n \in Native : RefersTo(mirror[n]) /\ RefersTo(native[n].rec)
  /\ \A n, m \in Native : RefersTo(native[n].copy[m])
  /\ \A n \in Native : native[n].at \in {"recorded", "open"} =>
                        native[n].rec # NoRecord
  /\ \A n \in Native : native[n].at = "matched" /\ native[n].rec = NoRecord =>
                        native[n].tid \in 1..Len(tasks) + 1

\* Once the gate has its record, that record names the native task for good
\* unless an update takes the name away: losing the mirror entry does not lose
\* the task.
Admitted ==
  \A n \in Native :
    \/ native[n].at \in {"recorded", "open"}
    \/ native[n].at = "matched" /\ native[n].rec # NoRecord
    => n \in renamed \/ Names(native[n].rec, n)

IInv == TypeOK /\ Refs /\ Admitted /\ ClosedIsProven /\ NeverUnjudged

-----------------------------------------------------------------------------
(* What a step does to the records.                                        *)

\* No record goes away.
Grown ==
  /\ tasks' \in Seq(TaskType) /\ Len(tasks') <= MaxTasks
  /\ Len(tasks) <= Len(tasks')

\* A record keeps its tid and its title.
KeepsName(i) ==
  tasks'[i].tid = tasks[i].tid /\ tasks'[i].title = tasks[i].title

\* Nor is what was proven for a tid taken back.
EvidenceStays ==
  /\ evidence' \in [Tid -> Evidence] /\ waived' \subseteq Testless
  /\ \A t \in Tid : Proven(t) => Proven(t)'

\* A new record.
LEMMA AppendGrows ==
  ASSUME TypeOK, NEW name \in [tid : Tid, title : Title], Len(tasks) < MaxTasks,
         tasks' = Append(tasks, Task(name, "open"))
  PROVE  /\ Grown
         /\ \A i \in 1..Len(tasks) : KeepsName(i)
         /\ Len(tasks') = Len(tasks) + 1
         /\ tasks'[Len(tasks) + 1].title = name.title
<1>1. Task(name, "open") \in TaskType /\ Task(name, "open").title = name.title
  BY DEF Task, TaskType, Status
<1> HIDE DEF Task
<1>2. tasks \in Seq(TaskType) /\ MaxTasks \in Nat
  BY BuildLoopAssumption DEF TypeOK
<1>3. /\ tasks' \in Seq(TaskType)
      /\ Len(tasks') = Len(tasks) + 1
      /\ \A i \in 1..Len(tasks) : tasks'[i] = tasks[i]
      /\ tasks'[Len(tasks) + 1] = Task(name, "open")
  BY <1>1, <1>2
<1>4. Len(tasks') <= MaxTasks /\ Len(tasks) <= Len(tasks')
  BY <1>2, <1>3
<1> QED
  BY <1>1, <1>3, <1>4 DEF Grown, KeepsName

\* A new status.
LEMMA StatusGrows ==
  ASSUME TypeOK, NEW i \in 1..Len(tasks), NEW s \in Status,
         tasks' = [tasks EXCEPT ![i].status = s]
  PROVE  /\ Grown /\ Len(tasks') = Len(tasks)
         /\ \A j \in 1..Len(tasks) : KeepsName(j)
<1>1. tasks \in Seq(TaskType) /\ Len(tasks) \in Nat /\ Len(tasks) <= MaxTasks
  BY DEF TypeOK
<1>2. /\ DOMAIN tasks' = 1..Len(tasks)
      /\ \A j \in 1..Len(tasks) :
           tasks'[j] = IF j = i THEN [tasks[j] EXCEPT !.status = s] ELSE tasks[j]
  BY <1>1
<1>3. \A j \in 1..Len(tasks) : /\ tasks'[j] \in TaskType
                              /\ tasks'[j].tid = tasks[j].tid
                              /\ tasks'[j].title = tasks[j].title
  <2> TAKE j \in 1..Len(tasks)
  <2>1. tasks[j] \in TaskType
    BY <1>1
  <2> QED
    BY <1>2, <2>1 DEF TaskType
<1>4. tasks' \in Seq(TaskType) /\ Len(tasks') = Len(tasks)
  BY <1>1, <1>2, <1>3
<1> QED
  BY <1>1, <1>3, <1>4 DEF Grown, KeepsName

\* An update.
LEMMA UpdateGrows ==
  ASSUME TypeOK, NEW i \in 1..Len(tasks), NEW s \in Status,
         NEW name \in Name \cup {NameOf(i)},
         tasks' = [tasks EXCEPT ![i] = Task(name, s)]
  PROVE  /\ Grown
         /\ \A j \in 1..Len(tasks) : j # i \/ name = NameOf(i) => KeepsName(j)
<1>1. tasks \in Seq(TaskType) /\ Len(tasks) \in Nat /\ Len(tasks) <= MaxTasks
  BY DEF TypeOK
<1>2. tasks[i] \in TaskType
  BY <1>1
<1>3. name \in [tid : Tid, title : Title]
  BY <1>2, BuildLoopAssumption DEF NameOf, TaskType, Tid
<1>4. /\ Task(name, s) \in TaskType
      /\ Task(name, s).tid = name.tid /\ Task(name, s).title = name.title
  BY <1>3 DEF Task, TaskType
<1>5. name = NameOf(i) => name.tid = tasks[i].tid /\ name.title = tasks[i].title
  BY DEF NameOf
<1> HIDE DEF Task
<1>6. /\ DOMAIN tasks' = 1..Len(tasks)
      /\ \A j \in 1..Len(tasks) :
           tasks'[j] = IF j = i THEN Task(name, s) ELSE tasks[j]
  BY <1>1
<1>7. tasks' \in Seq(TaskType) /\ Len(tasks') = Len(tasks)
  BY <1>1, <1>4, <1>6
<1>8. Grown
  BY <1>1, <1>7 DEF Grown
<1> QED
  BY <1>4, <1>5, <1>6, <1>8 DEF KeepsName

-----------------------------------------------------------------------------
(* Initially.                                                              *)

\* The invariant holds at the start.
LEMMA InitIInv == Init => IInv
<1> SUFFICES ASSUME Init PROVE IInv
  OBVIOUS
<1>1. TypeOK
  <2>1. tasks \in Seq(TaskType) /\ Len(tasks) <= MaxTasks
    BY BuildLoopAssumption DEF Init
  <2>2. mirror \in Mirror /\ NoMirror \in Mirror
    BY DEF Init, NoMirror, Mirror, NoRecord
  <2>3. native \in [Native -> NativeType]
    BY <2>2 DEF Init, NativeType, NoRecord, NoTid
  <2>4. evidence \in [Tid -> Evidence] /\ waived \subseteq Testless
    BY DEF Init, Evidence
  <2>5. judged \in [Native -> Tid \cup {NoTid}] /\ renamed \subseteq Native
    BY DEF Init
  <2> QED
    BY <2>1, <2>2, <2>3, <2>4, <2>5 DEF TypeOK
<1>2. Refs
  BY DEF Init, Refs, RefersTo, NoMirror, NoRecord
<1>3. Admitted /\ ClosedIsProven /\ NeverUnjudged
  BY DEF Init, Admitted, ClosedIsProven, NeverUnjudged, NoMirror
<1> QED
  BY <1>1, <1>2, <1>3 DEF IInv

-----------------------------------------------------------------------------
(* A step that leaves the hooks alone.                                     *)

\* A step that leaves the hooks alone keeps it, if it remembers the tasks whose
\* record it gives another name.
LEMMA QuietStep ==
  ASSUME IInv, Grown, EvidenceStays, UNCHANGED <<mirror, native, judged>>,
         renamed \subseteq renamed', renamed' \subseteq Native,
         \A n \in Native : native[n].rec \in 1..Len(tasks) =>
                             n \in renamed' \/ KeepsName(native[n].rec)
  PROVE  IInv'
<1> USE DEF IInv
<1>1. /\ tasks \in Seq(TaskType) /\ Len(tasks) \in Nat /\ Len(tasks') \in Nat
      /\ Len(tasks) <= Len(tasks')
  BY DEF TypeOK, Grown
<1>2. TypeOK'
  BY DEF TypeOK, Grown, EvidenceStays
<1>3. Refs'
  <2>1. 1..Len(tasks) + 1 \subseteq 1..Len(tasks') + 1
    BY <1>1
  <2>2. /\ \A n \in Native : RefersTo(mirror[n])' /\ RefersTo(native[n].rec)'
        /\ \A n, m \in Native : RefersTo(native[n].copy[m])'
    BY <1>1 DEF Refs, RefersTo
  <2> QED
    BY <2>1, <2>2 DEF Refs
<1>4. Admitted'
  <2> SUFFICES ASSUME NEW n \in Native,
                      \/ native[n].at \in {"recorded", "open"}
                      \/ native[n].at = "matched" /\ native[n].rec # NoRecord
               PROVE  n \in renamed' \/ Names(native[n].rec, n)'
    BY DEF Admitted
  <2>1. native[n].rec \in 1..Len(tasks)
    BY <1>1 DEF Refs, RefersTo, NoRecord
  <2>2. n \in renamed \/ Names(native[n].rec, n)
    BY DEF Admitted
  <2> QED
    BY <2>1, <2>2 DEF Names, KeepsName
<1>5. ClosedIsProven'
  <2> SUFFICES ASSUME NEW n \in Native, judged[n] # NoTid
               PROVE  Proven(judged[n])'
    BY DEF ClosedIsProven
  <2>1. judged[n] \in Tid
    BY DEF TypeOK
  <2>2. Proven(judged[n])
    BY DEF ClosedIsProven
  <2> QED
    BY <2>1, <2>2 DEF EvidenceStays, Proven
<1>6. NeverUnjudged'
  BY DEF NeverUnjudged
<1> QED
  BY <1>2, <1>3, <1>4, <1>5, <1>6

\* Nothing is taken back where nothing changes.
LEMMA SameGrows ==
  ASSUME TypeOK, UNCHANGED tasks
  PROVE  Grown /\ \A i \in 1..Len(tasks) : KeepsName(i)
  BY DEF Grown, KeepsName, TypeOK

\* While its records are the same, what proved a task proves it.
LEMMA SameEvidence ==
  ASSUME TypeOK, UNCHANGED <<evidence, waived>>
  PROVE  EvidenceStays
  BY DEF EvidenceStays, TypeOK, Proven

\* The task a test run is captured for exists.
LEMMA ActiveTaskExists ==
  ASSUME TypeOK, ActiveTask # NoRecord
  PROVE  ActiveTask \in 1..Len(tasks)
<1>1. ASSUME NEW S, S \subseteq 1..Len(tasks), Only(S)
      PROVE  Max(S) \in 1..Len(tasks)
  <2>1. PICK i \in S : S = {i}
    BY <1>1 DEF Only
  <2>2. i \in Nat
    BY <1>1, <2>1 DEF TypeOK
  <2>3. i \in S /\ \A y \in S : i >= y
    BY <2>1, <2>2
  <2>4. Max(S) \in S
    BY <2>3 DEF Max
  <2> QED
    BY <1>1, <2>4
<1>2. \A S : InStatus(S) \subseteq 1..Len(tasks)
  BY DEF InStatus, TypeOK
<1> QED
  BY <1>1, <1>2 DEF ActiveTask

\* Test runs, waivers and records by hand.
LEMMA ByHandStep ==
  ASSUME IInv,
         \/ \E name \in Name : RecordTask(name)
         \/ \E i \in DOMAIN tasks, s \in Status :
              \E name \in Name \cup {NameOf(i)} : UpdateTask(i, name, s)
         \/ \E t \in Testless : Waive(t)
         \/ \E c \in Cmd, green \in BOOLEAN : CaptureTest(c, green)
  PROVE  IInv'
<1>0. TypeOK /\ renamed \subseteq Native /\ DOMAIN tasks = 1..Len(tasks)
  BY DEF IInv, TypeOK
<1>1. CASE \E name \in Name : RecordTask(name)
  <2>1. PICK name \in Name : RecordTask(name)
    BY <1>1
  <2>2. name \in [tid : Tid, title : Title]
    BY BuildLoopAssumption DEF Tid
  <2>3. Grown /\ \A i \in 1..Len(tasks) : KeepsName(i)
    BY <1>0, <2>1, <2>2, AppendGrows DEF RecordTask
  <2>4. EvidenceStays
    BY <1>0, <2>1, SameEvidence DEF RecordTask
  <2> QED
    BY <1>0, <2>1, <2>3, <2>4, QuietStep DEF RecordTask
<1>2. CASE \E i \in DOMAIN tasks, s \in Status :
             \E name \in Name \cup {NameOf(i)} : UpdateTask(i, name, s)
  <2>0. PICK i \in 1..Len(tasks), s \in Status :
               \E name \in Name \cup {NameOf(i)} : UpdateTask(i, name, s)
    BY <1>0, <1>2
  <2>1. PICK name \in Name \cup {NameOf(i)} : UpdateTask(i, name, s)
    BY <2>0
  <2>2. /\ tasks' = [tasks EXCEPT ![i] = Task(name, s)]
        /\ renamed' = IF name = NameOf(i) THEN renamed
                      ELSE renamed \cup {n \in Native : native[n].rec = i}
        /\ UNCHANGED <<mirror, native, evidence, waived, judged>>
    BY <2>1 DEF UpdateTask
  <2>3. /\ Grown
        /\ \A j \in 1..Len(tasks) : j # i \/ name = NameOf(i) => KeepsName(j)
    BY <1>0, <2>2, UpdateGrows
  <2>4. EvidenceStays
    BY <1>0, <2>2, SameEvidence
  <2>5. renamed \subseteq renamed' /\ renamed' \subseteq Native
    BY <1>0, <2>2
  <2>6. \A n \in Native : native[n].rec \in 1..Len(tasks) =>
                            n \in renamed' \/ KeepsName(native[n].rec)
    BY <2>2, <2>3
  <2> QED
    BY <2>2, <2>3, <2>4, <2>5, <2>6, QuietStep
<1>3. CASE \E t \in Testless : Waive(t)
  <2>1. Grown /\ \A i \in 1..Len(tasks) : KeepsName(i)
    BY <1>0, <1>3, SameGrows DEF Waive
  <2>2. EvidenceStays
    BY <1>0, <1>3 DEF Waive, EvidenceStays, TypeOK, Proven
  <2> QED
    BY <1>0, <1>3, <2>1, <2>2, QuietStep DEF Waive
<1>4. CASE \E c \in Cmd, green \in BOOLEAN : CaptureTest(c, green)
  <2>1. PICK c \in Cmd, green \in BOOLEAN : CaptureTest(c, green)
    BY <1>4
  <2> DEFINE t   == tasks[ActiveTask].tid
             new == IF green THEN Passed(evidence[t], c) ELSE Failed(evidence[t], c)
  <2>2. ActiveTask \in 1..Len(tasks)
    BY <1>0, <2>1, ActiveTaskExists DEF CaptureTest
  <2>3. tasks[ActiveTask] \in TaskType
    BY <1>0, <2>2 DEF TypeOK
  <2>4. t \in Tid
    BY <2>3 DEF TaskType
  <2>5. evidence \in [Tid -> Evidence]
    BY <1>0 DEF TypeOK
  <2>6. new \in Evidence /\ (evidence[t].pair # "none" => new.pair # "none")
    BY <2>4, <2>5, PairsStay
  <2>7. /\ evidence' = [evidence EXCEPT ![t] = new]
        /\ UNCHANGED <<tasks, mirror, native, waived, judged, renamed>>
    BY <2>1 DEF CaptureTest
  <2> HIDE DEF t, new
  <2>8. EvidenceStays
    BY <1>0, <2>4, <2>5, <2>6, <2>7 DEF EvidenceStays, TypeOK, Proven
  <2>9. Grown /\ \A i \in 1..Len(tasks) : KeepsName(i)
    BY <1>0, <2>7, SameGrows
  <2> QED
    BY <1>0, <2>7, <2>8, <2>9, QuietStep
<1> QED
  BY <1>1, <1>2, <1>3, <1>4

-----------------------------------------------------------------------------
(* The hooks of one native task.                                           *)

\* The matching record is found or the next number is taken.
LEMMA BeginCreateStep ==
  ASSUME IInv, NEW n \in Native, BeginCreate(n)
  PROVE  IInv'
<1> DEFINE new == [at |-> "matched", rec |-> MatchTaskRecord(Subject[n]),
                   tid |-> NextNumber, copy |-> NoMirror]
<1>1. native' = [native EXCEPT ![n] = new]
  BY DEF BeginCreate
<1>2. TypeOK /\ Refs /\ Admitted /\ ClosedIsProven /\ NeverUnjudged
  BY DEF IInv
<1>3. tasks \in Seq(TaskType) /\ Len(tasks) \in Nat
  BY <1>2 DEF TypeOK
<1>4. /\ MatchTaskRecord(Subject[n]) \in 0..Len(tasks)
      /\ LET i == MatchTaskRecord(Subject[n]) IN i # NoRecord => Names(i, n)
  BY <1>3, LadderFinds
<1>5. NoMirror \in Mirror /\ \A m \in Native : NoMirror[m] = 0
  BY DEF NoMirror, Mirror, NoRecord
<1>6. new \in NativeType
  BY <1>3, <1>4, <1>5 DEF NativeType, NextNumber
<1>7. /\ new.at = "matched" /\ new.rec = MatchTaskRecord(Subject[n])
      /\ new.tid = Len(tasks) + 1 /\ new.copy = NoMirror
  BY DEF NextNumber
<1> HIDE DEF new
<1>8. UNCHANGED <<tasks, mirror, evidence, waived, judged, renamed>>
  BY DEF BeginCreate
<1>9. native \in [Native -> NativeType]
  BY <1>2 DEF TypeOK
<1>10. TypeOK'
  BY <1>1, <1>2, <1>6, <1>8 DEF TypeOK
<1>11. \A m \in Native : native'[m] = IF m = n THEN new ELSE native[m]
  BY <1>1, <1>9
<1>12. Refs'
  <2>1. \A m \in Native : RefersTo(mirror[m])' /\ RefersTo(native[m].rec)'
    BY <1>2, <1>3, <1>4, <1>7, <1>8, <1>11 DEF Refs, RefersTo
  <2>2. ASSUME NEW m \in Native, NEW k \in Native
        PROVE  RefersTo(native[m].copy[k])'
    <3>1. native[m].copy[k] \in 0..Len(tasks)
      BY <1>2 DEF Refs, RefersTo
    <3> QED
      BY <1>3, <1>5, <1>7, <1>8, <1>11, <3>1 DEF RefersTo
  <2>3. \A m \in Native :
          /\ native'[m].at \in {"recorded", "open"} => native'[m].rec # NoRecord
          /\ native'[m].at = "matched" /\ native'[m].rec = NoRecord =>
               native'[m].tid \in 1..Len(tasks') + 1
    BY <1>2, <1>3, <1>7, <1>8, <1>11 DEF Refs
  <2> QED
    BY <2>1, <2>2, <2>3 DEF Refs
<1>13. Admitted'
  BY <1>2, <1>4, <1>7, <1>8, <1>11 DEF Admitted, Names
<1>14. ClosedIsProven'
  BY <1>2, <1>8 DEF ClosedIsProven, Proven
<1>15. NeverUnjudged'
  BY <1>2, <1>7, <1>8, <1>11 DEF NeverUnjudged
<1> QED
  BY <1>10, <1>12, <1>13, <1>14, <1>15 DEF IInv

\* The record is made unless there is one; it names the task.
LEMMA CreateRecordStep ==
  ASSUME IInv, NEW n \in Native, CreateRecord(n)
  PROVE  IInv'
<1> DEFINE old == native[n].rec
           rec == IF old = NoRecord THEN Len(tasks) + 1 ELSE old
           new == [at |-> "recorded", rec |-> rec, tid |-> native[n].tid,
                   copy |-> mirror]
<1>1. /\ native[n].at = "matched"
      /\ native' = [native EXCEPT ![n] = new]
      /\ UNCHANGED <<mirror, evidence, waived, judged, renamed>>
  BY DEF CreateRecord
<1>2. TypeOK /\ Refs /\ Admitted /\ ClosedIsProven /\ NeverUnjudged
  BY DEF IInv
<1>3. tasks \in Seq(TaskType) /\ Len(tasks) \in Nat /\ native \in [Native -> NativeType]
  BY <1>2 DEF TypeOK
<1>4. old \in 0..Len(tasks) /\ native[n].tid \in Nat /\ mirror \in Mirror
  BY <1>2, <1>3 DEF Refs, RefersTo, NativeType, TypeOK
<1>5. /\ Grown /\ \A i \in 1..Len(tasks) : KeepsName(i)
      /\ old = NoRecord => /\ Len(tasks') = Len(tasks) + 1
                           /\ tasks'[Len(tasks) + 1].title = Subject[n].title
  <2>1. CASE old = NoRecord
    <3>1. /\ Len(tasks) < MaxTasks
          /\ tasks' = Append(tasks, Task(NewName(n), "open"))
      BY <2>1 DEF CreateRecord
    <3>2. native[n].tid \in Tid
      BY <1>1, <1>2, <1>3, <2>1, <3>1, BuildLoopAssumption DEF Refs, Tid
    <3>3. Subject[n].title \in Title
      BY BuildLoopAssumption
    <3>4. NewName(n) \in [tid : Tid, title : Title] /\ NewName(n).title = Subject[n].title
      BY <3>2, <3>3 DEF NewName
    <3> HIDE DEF NewName
    <3> QED
      BY <1>2, <3>1, <3>4, AppendGrows
  <2>2. CASE old # NoRecord
    <3>1. UNCHANGED tasks
      BY <2>2 DEF CreateRecord
    <3> QED
      BY <1>2, <2>2, <3>1, SameGrows
  <2> QED
    BY <2>1, <2>2
<1>6. EvidenceStays
  BY <1>1, <1>2, SameEvidence
<1>8. Len(tasks') \in Nat /\ Len(tasks) <= Len(tasks') /\ tasks' \in Seq(TaskType)
  BY <1>5 DEF Grown
<1>9. rec \in 1..Len(tasks')
  BY <1>3, <1>4, <1>5, <1>8 DEF NoRecord
<1>10. \/ n \in renamed'
       \/ tasks'[rec].tid = Subject[n].tid
       \/ tasks'[rec].title = Subject[n].title
  <2>1. CASE old = NoRecord
    BY <1>5, <2>1
  <2>2. CASE old # NoRecord
    <3>1. old \in 1..Len(tasks) /\ KeepsName(old)
      BY <1>3, <1>4, <1>5, <2>2 DEF NoRecord
    <3>2. n \in renamed \/ Names(old, n)
      BY <1>1, <1>2, <2>2 DEF Admitted
    <3> QED
      BY <1>1, <2>2, <3>1, <3>2 DEF Names, KeepsName
  <2> QED
    BY <2>1, <2>2
<1> HIDE DEF old, rec
<1>11. new \in NativeType
  BY <1>4, <1>8, <1>9 DEF NativeType
<1>12. new.at = "recorded" /\ new.rec = rec /\ new.copy = mirror
  OBVIOUS
<1> HIDE DEF new
<1>13. \A m \in Native : native'[m] = IF m = n THEN new ELSE native[m]
  BY <1>1, <1>3
<1>14. TypeOK'
  BY <1>1, <1>2, <1>5, <1>6, <1>11 DEF TypeOK, Grown, EvidenceStays
<1>15. Refs'
  <2>1. 1..Len(tasks) + 1 \subseteq 1..Len(tasks') + 1
    BY <1>3, <1>8
  <2>2. \A m \in Native : RefersTo(mirror[m])'
    BY <1>1, <1>2, <1>3, <1>8 DEF Refs, RefersTo
  <2>3. \A m \in Native : RefersTo(native[m].rec)'
    BY <1>2, <1>3, <1>8, <1>9, <1>12, <1>13 DEF Refs, RefersTo
  <2>4. ASSUME NEW m \in Native, NEW k \in Native
        PROVE  RefersTo(native[m].copy[k])'
    <3>1. native'[m].copy[k] \in 0..Len(tasks)
      <4>1. mirror[k] \in 0..Len(tasks) /\ native[m].copy[k] \in 0..Len(tasks)
        BY <1>2 DEF Refs, RefersTo
      <4> QED
        BY <1>12, <1>13, <4>1
    <3> QED
      BY <1>3, <1>8, <3>1 DEF RefersTo
  <2>5. \A m \in Native : native'[m].at \in {"recorded", "open"} =>
                           native'[m].rec # NoRecord
    BY <1>2, <1>8, <1>9, <1>12, <1>13 DEF Refs, NoRecord
  <2>6. \A m \in Native : native'[m].at = "matched" /\ native'[m].rec = NoRecord =>
                           native'[m].tid \in 1..Len(tasks') + 1
    BY <1>2, <1>12, <1>13, <2>1 DEF Refs
  <2> QED
    BY <2>2, <2>3, <2>4, <2>5, <2>6 DEF Refs
<1>16. Admitted'
  <2> SUFFICES ASSUME NEW m \in Native,
                      \/ native'[m].at \in {"recorded", "open"}
                      \/ native'[m].at = "matched" /\ native'[m].rec # NoRecord
               PROVE  m \in renamed' \/ Names(native[m].rec, m)'
    BY DEF Admitted
  <2>1. CASE m = n
    BY <1>10, <1>12, <1>13, <2>1 DEF Names
  <2>2. CASE m # n
    <3>1. native'[m] = native[m]
      BY <1>13, <2>2
    <3>2. native[m].rec \in 1..Len(tasks)
      BY <1>2, <1>3, <3>1 DEF Refs, RefersTo, NoRecord
    <3>3. m \in renamed \/ Names(native[m].rec, m)
      BY <1>2, <3>1 DEF Admitted
    <3> QED
      BY <1>1, <1>5, <3>1, <3>2, <3>3 DEF Names, KeepsName
  <2> QED
    BY <2>1, <2>2
<1>17. ClosedIsProven'
  BY <1>1, <1>2 DEF ClosedIsProven, Proven
<1>18. NeverUnjudged'
  BY <1>1, <1>2, <1>12, <1>13 DEF NeverUnjudged
<1> QED
  BY <1>14, <1>15, <1>16, <1>17, <1>18 DEF IInv

\* The mirror read is written back with the task's record, over whatever
\* another hook has written since.
LEMMA WriteMirrorStep ==
  ASSUME IInv, NEW n \in Native, WriteMirror(n)
  PROVE  IInv'
<1> DEFINE new == [at |-> "open", rec |-> native[n].rec, tid |-> NoTid,
                   copy |-> NoMirror]
<1>1. /\ native[n].at = "recorded"
      /\ mirror' = [native[n].copy EXCEPT ![n] = native[n].rec]
      /\ native' = [native EXCEPT ![n] = new]
      /\ UNCHANGED <<tasks, evidence, waived, judged, renamed>>
  BY DEF WriteMirror
<1>2. TypeOK /\ Refs /\ Admitted /\ ClosedIsProven /\ NeverUnjudged
  BY DEF IInv
<1>3. /\ tasks \in Seq(TaskType) /\ Len(tasks) \in Nat
      /\ native \in [Native -> NativeType]
  BY <1>2 DEF TypeOK
<1>4. NoMirror \in Mirror /\ \A m \in Native : NoMirror[m] = 0
  BY DEF NoMirror, Mirror, NoRecord
<1>5. new \in NativeType
  BY <1>3, <1>4 DEF NativeType, NoRecord, NoTid
<1>6. new.at = "open" /\ new.rec = native[n].rec /\ new.copy = NoMirror
  OBVIOUS
<1> HIDE DEF new
<1>7. \A m \in Native : native'[m] = IF m = n THEN new ELSE native[m]
  BY <1>1, <1>3
<1>8. native[n].copy \in Mirror /\ native[n].rec \in Nat
  BY <1>3 DEF NativeType
<1>9. \A m \in Native :
        mirror'[m] = IF m = n THEN native[n].rec ELSE native[n].copy[m]
  BY <1>1, <1>8 DEF Mirror
<1>10. TypeOK'
  <2>1. mirror' \in Mirror
    BY <1>1, <1>8 DEF Mirror
  <2> QED
    BY <1>1, <1>2, <1>5, <2>1 DEF TypeOK
<1>11. Refs'
  <2>1. \A m \in Native : RefersTo(mirror[m])'
    BY <1>1, <1>2, <1>9 DEF Refs, RefersTo
  <2>2. \A m, k \in Native : RefersTo(native[m].rec)' /\ RefersTo(native[m].copy[k])'
    BY <1>1, <1>2, <1>3, <1>4, <1>6, <1>7 DEF Refs, RefersTo, NoRecord
  <2>3. \A m \in Native :
          /\ native'[m].at \in {"recorded", "open"} => native'[m].rec # NoRecord
          /\ native'[m].at = "matched" /\ native'[m].rec = NoRecord =>
               native'[m].tid \in 1..Len(tasks') + 1
    BY <1>1, <1>2, <1>6, <1>7 DEF Refs
  <2> QED
    BY <2>1, <2>2, <2>3 DEF Refs
<1>12. Admitted'
  BY <1>1, <1>2, <1>6, <1>7 DEF Admitted, Names
<1>13. ClosedIsProven'
  BY <1>1, <1>2 DEF ClosedIsProven, Proven
<1>14. NeverUnjudged'
  BY <1>1, <1>2, <1>6, <1>7 DEF NeverUnjudged
<1> QED
  BY <1>10, <1>11, <1>12, <1>13, <1>14 DEF IInv

\* A step that closes a native task and leaves the names of records alone keeps
\* it, if the task is judged under a tid that is proven, or its record was given
\* another name.
LEMMA CloseStep ==
  ASSUME IInv, NEW n \in Native, native[n].at = "open", Closes(n),
         Grown, \A i \in 1..Len(tasks) : KeepsName(i),
         NEW t \in Tid \cup {NoTid}, judged' = [judged EXCEPT ![n] = t],
         t # NoTid => Proven(t),
         renamed' \subseteq Native, renamed \ {n} \subseteq renamed',
         t # NoTid \/ n \in renamed'
  PROVE  IInv'
<1>1. TypeOK /\ Refs /\ Admitted /\ ClosedIsProven /\ NeverUnjudged
  BY DEF IInv
<1>2. /\ tasks \in Seq(TaskType) /\ Len(tasks) \in Nat
      /\ native \in [Native -> NativeType]
      /\ judged \in [Native -> Tid \cup {NoTid}]
  BY <1>1 DEF TypeOK
<1>3. /\ native' = [native EXCEPT ![n].at = "closed", ![n].rec = NoRecord]
      /\ UNCHANGED <<mirror, evidence, waived>>
  BY DEF Closes
<1>4. EvidenceStays
  BY <1>1, <1>3, SameEvidence
<1>5. Len(tasks') \in Nat /\ Len(tasks) <= Len(tasks')
  BY DEF Grown
<1>6. \A m \in Native :
        /\ native'[m] \in NativeType
        /\ native'[m].at = IF m = n THEN "closed" ELSE native[m].at
        /\ native'[m].rec = IF m = n THEN NoRecord ELSE native[m].rec
        /\ native'[m].tid = native[m].tid
        /\ native'[m].copy = native[m].copy
  <2> TAKE m \in Native
  <2>1. native[m] \in NativeType
    BY <1>2
  <2>2. CASE m = n
    <3>1. native'[m] = [native[m] EXCEPT !.at = "closed", !.rec = NoRecord]
      BY <1>2, <1>3, <2>2
    <3>2. \A r \in NativeType :
            LET new == [r EXCEPT !.at = "closed", !.rec = NoRecord]
            IN  /\ new \in NativeType
                /\ new.at = "closed" /\ new.rec = NoRecord
                /\ new.tid = r.tid /\ new.copy = r.copy
      BY DEF NativeType, NoRecord
    <3> HIDE DEF NativeType, NoRecord
    <3> QED
      BY <2>1, <2>2, <3>1, <3>2
  <2>3. CASE m # n
    BY <1>2, <1>3, <2>1, <2>3
  <2> QED
    BY <2>2, <2>3
<1>7. \A m \in Native : judged'[m] = IF m = n THEN t ELSE judged[m]
  BY <1>2
<1>8. TypeOK'
  <2>1. native' \in [Native -> NativeType]
    BY <1>2, <1>3, <1>6
  <2>2. judged' \in [Native -> Tid \cup {NoTid}]
    BY <1>2
  <2> QED
    BY <1>1, <1>3, <1>4, <2>1, <2>2 DEF TypeOK, Grown, EvidenceStays
<1>9. Refs'
  <2>1. 1..Len(tasks) + 1 \subseteq 1..Len(tasks') + 1
    BY <1>2, <1>5
  <2>2. \A m \in Native : RefersTo(mirror[m])' /\ RefersTo(native[m].rec)'
    BY <1>1, <1>2, <1>3, <1>5, <1>6 DEF Refs, RefersTo, NoRecord
  <2>3. \A m, k \in Native : RefersTo(native[m].copy[k])'
    BY <1>1, <1>2, <1>5, <1>6 DEF Refs, RefersTo
  <2>4. \A m \in Native :
          /\ native'[m].at \in {"recorded", "open"} => native'[m].rec # NoRecord
          /\ native'[m].at = "matched" /\ native'[m].rec = NoRecord =>
               native'[m].tid \in 1..Len(tasks') + 1
    BY <1>1, <1>6, <2>1 DEF Refs
  <2> QED
    BY <2>2, <2>3, <2>4 DEF Refs
<1>10. Admitted'
  <2> SUFFICES ASSUME NEW m \in Native,
                      \/ native'[m].at \in {"recorded", "open"}
                      \/ native'[m].at = "matched" /\ native'[m].rec # NoRecord
               PROVE  m \in renamed' \/ Names(native[m].rec, m)'
    BY DEF Admitted
  <2>1. m # n /\ native'[m].rec = native[m].rec /\ native'[m].at = native[m].at
    BY <1>6
  <2>2. native[m].rec \in 1..Len(tasks)
    BY <1>1, <1>2, <2>1 DEF Refs, RefersTo, NoRecord
  <2>3. m \in renamed \/ Names(native[m].rec, m)
    BY <1>1, <2>1 DEF Admitted
  <2> QED
    BY <2>1, <2>2, <2>3 DEF Names, KeepsName
<1>11. ClosedIsProven'
  <2> SUFFICES ASSUME NEW m \in Native, judged'[m] # NoTid
               PROVE  Proven(judged[m])'
    BY DEF ClosedIsProven
  <2>1. judged'[m] \in Tid /\ Proven(judged'[m])
    BY <1>1, <1>2, <1>7 DEF ClosedIsProven
  <2> QED
    BY <1>3, <2>1 DEF Proven
<1>12. NeverUnjudged'
  BY <1>1, <1>6, <1>7 DEF NeverUnjudged
<1> QED
  BY <1>8, <1>9, <1>10, <1>11, <1>12 DEF IInv

\* A task that has a record is judged; one that has none any more had it taken
\* away by an update.
LEMMA CompleteStep ==
  ASSUME IInv, NEW n \in Native, Complete(n)
  PROVE  IInv'
<1> DEFINE i == FindTaskRecord(n)
<1>1. TypeOK /\ Refs /\ Admitted
  BY DEF IInv
<1>2. /\ tasks \in Seq(TaskType) /\ Len(tasks) \in Nat
      /\ judged \in [Native -> Tid \cup {NoTid}] /\ renamed \subseteq Native
  BY <1>1 DEF TypeOK
<1>3. /\ MatchTaskRecord(Subject[n]) \in 0..Len(tasks)
      /\ Named(n) <=> MatchTaskRecord(Subject[n]) # NoRecord
  BY <1>2, LadderFinds
<1>4. native[n].at = "open" /\ Closes(n)
  BY DEF Complete
<1>5. CASE i # NoRecord
  <2>1. i \in 1..Len(tasks)
    <3>1. mirror[n] \in 0..Len(tasks)
      BY <1>1 DEF Refs, RefersTo
    <3> QED
      BY <1>2, <1>3, <1>5, <3>1 DEF FindTaskRecord, NoRecord
  <2>2. tasks[i].tid \in Tid
    <3>1. tasks[i] \in TaskType
      BY <1>2, <2>1
    <3> QED
      BY <3>1 DEF TaskType
  <2>3. Judge(n, i)
    BY <1>5 DEF Complete
  <2> HIDE DEF i
  <2>4. Grown /\ \A j \in 1..Len(tasks) : KeepsName(j)
    BY <1>1, <2>1, <2>3, StatusGrows DEF Judge, Status
  <2>5. tasks[i].tid # NoTid
    BY <2>2 DEF Tid, NoTid
  <2> QED
    BY <1>2, <1>4, <2>2, <2>3, <2>4, <2>5, CloseStep DEF Judge
<1>6. CASE i = NoRecord
  <2>1. UNCHANGED <<tasks, judged, renamed>>
    BY <1>6 DEF Complete
  <2>2. ~ Named(n)
    BY <1>3, <1>6 DEF FindTaskRecord
  <2>3. native[n].rec \in 1..Len(tasks)
    BY <1>1, <1>2, <1>4 DEF Refs, RefersTo, NoRecord
  <2>4. n \in renamed
    BY <1>1, <1>2, <1>4, <2>2, <2>3 DEF Admitted, Named
  <2>5. Grown /\ \A j \in 1..Len(tasks) : KeepsName(j)
    BY <1>1, <2>1, SameGrows
  <2>6. judged[n] \in Tid \cup {NoTid} /\ judged' = [judged EXCEPT ![n] = judged[n]]
    BY <1>2, <2>1
  <2>7. judged[n] # NoTid => Proven(judged[n])
    BY DEF IInv, ClosedIsProven
  <2> QED
    BY <1>2, <1>4, <2>1, <2>4, <2>5, <2>6, <2>7, CloseStep
<1> QED
  BY <1>5, <1>6

-----------------------------------------------------------------------------
(* The results.                                                            *)

\* Every step keeps it.
LEMMA Inductive == IInv /\ [Next]_vars => IInv'
<1> SUFFICES ASSUME IInv, [Next]_vars PROVE IInv'
  OBVIOUS
<1>1. ASSUME NEW n \in Native,
             BeginCreate(n) \/ CreateRecord(n) \/ WriteMirror(n) \/ Complete(n)
      PROVE  IInv'
  BY <1>1, BeginCreateStep, CreateRecordStep, WriteMirrorStep, CompleteStep
<1>2. CASE UNCHANGED vars
  <2>1. TypeOK
    BY DEF IInv
  <2>2. /\ Grown /\ EvidenceStays
        /\ \A i \in 1..Len(tasks) : KeepsName(i)
    BY <1>2, <2>1, SameGrows, SameEvidence DEF vars
  <2>3. renamed \subseteq Native
    BY <2>1 DEF TypeOK
  <2> QED
    BY <1>2, <2>2, <2>3, QuietStep DEF vars
<1> QED
  BY <1>1, <1>2, ByHandStep DEF Next

\* It holds at every moment of every behaviour.
LEMMA Invariance == Spec => []IInv
  BY InitIInv, Inductive, PTL DEF Spec

\* Task records, mirror, hooks and evidence are well typed, and there are never
\* more records than MaxTasks.
THEOREM BuildTypeCorrect == Spec => []TypeOK
<1>1. IInv => TypeOK
  BY DEF IInv
<1> QED
  BY <1>1, Invariance, PTL

\* A native task that TaskCompleted let close has a red and a later green of
\* one runner, or a waiver, for the tid it was judged under, whatever tid its
\* record is given afterwards.
THEOREM CloseNeedsEvidence == Spec => []ClosedIsProven
<1>1. IInv => ClosedIsProven
  BY DEF IInv
<1> QED
  BY <1>1, Invariance, PTL

\* A native task that TaskCreated admitted is judged by a record when it
\* closes, whatever overlapping hooks did to the mirror, unless an update gave
\* the record of its admission another tid or subject.
THEOREM NoTaskSlipsThrough == Spec => []NeverUnjudged
<1>1. IInv => NeverUnjudged
  BY DEF IInv
<1> QED
  BY <1>1, Invariance, PTL

=============================================================================
