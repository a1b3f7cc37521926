------------------------------ MODULE BuildLoop ------------------------------
(***************************************************************************)
(* Test-first work on tasks in Plan and Build: the task gates that mirror  *)
(* the harness's native tasks into task records and let them close only on *)
(* evidence (gates.TaskCreated, gates.TaskCompleted), the capture of test  *)
(* runs (gates.CaptureTest), their red-green pairing (contracts, cmdid)    *)
(* and the waivers that stand for it.  The family is diff; one run, in     *)
(* Plan or Build: elsewhere a native task is rolled back at once, and      *)
(* nothing else here depends on the phase.                                 *)
(*                                                                         *)
(* Hooks of native tasks created at once overlap: the task records and the *)
(* file local/tasks-mirror.json are read, and later written.               *)
(*                                                                         *)
(* A task record may be updated in any of its fields; records of test runs *)
(* and waivers are taken not to be updated.                                *)
(***************************************************************************)
EXTENDS Naturals, Sequences, SequencesExt

NoTid == 0

CONSTANTS
  Native,     \* native tasks of the harness, each created once
  Title,      \* subjects, equal if one contains the other
  Subject,    \* native task -> the tid its subject starts with, and the rest
  Name,       \* tids and titles given to task records by hand
  Cmd,        \* test commands: sequences of tokens
  Testless,   \* tids a waiver is recorded for
  MaxTasks    \* bound: task records

ASSUME BuildLoopAssumption ==
  /\ MaxTasks \in Nat /\ Testless \subseteq 1..MaxTasks
  /\ \A c \in Cmd : Len(c) >= 1
  /\ Subject \in [Native -> [tid : 1..MaxTasks \cup {NoTid}, title : Title]]
  /\ Name \subseteq [tid : 1..MaxTasks, title : Title]

VARIABLES
  tasks,     \* task records; a record's id is its place
  mirror,    \* local/tasks-mirror.json: native task -> record, 0 for none
  native,    \* native task -> how far its hooks are
  evidence,  \* tid -> commands seen failing, best pair with a later green
  waived,    \* tids with a waiver record
  judged,    \* history: native task closed -> tid it was judged under, 0 none
  renamed    \* history: native tasks, not judged yet, whose record an update
             \*   gave another tid or subject since their hook took it

vars == <<tasks, mirror, native, evidence, waived, judged, renamed>>

Tid      == 1..MaxTasks
NoRecord == 0
Status   == {"open", "in_progress", "done"}

NoMirror == [n \in Native |-> NoRecord]

Init ==
  /\ tasks = <<>>
  /\ mirror = NoMirror
  /\ native = [n \in Native |-> [at |-> "none", rec |-> NoRecord, tid |-> NoTid,
                                 copy |-> NoMirror]]
  /\ evidence = [t \in Tid |-> [reds |-> {}, pair |-> "none"]]
  /\ waived = {}
  /\ judged = [n \in Native |-> NoTid]
  /\ renamed = {}

-----------------------------------------------------------------------------
(* Red-green pairs.                                                        *)

\* One command is a prefix of the other: strict.  The same runner only: weak.
Pair(red, green) ==
  IF IsPrefix(red, green) \/ IsPrefix(green, red) THEN "strict"
  ELSE IF Head(red) = Head(green) THEN "weak" ELSE "none"

\* Fault: a red discards the pairs before it.
Reopened(e, cmd) == [reds |-> e.reds \cup {cmd}, pair |-> "none"]

\* After a strict pair no more runs need to be known.
Failed(e, cmd) ==
  IF e.pair = "strict" THEN e ELSE [e EXCEPT !.reds = e.reds \cup {cmd}]

\* The best pair wins.
Passed(e, cmd) ==
  LET pairs == {e.pair} \cup {Pair(red, cmd) : red \in e.reds}
  IN  IF "strict" \in pairs THEN [reds |-> {}, pair |-> "strict"]
      ELSE IF "weak" \in pairs THEN [e EXCEPT !.pair = "weak"]
      ELSE e

Proven(t) == evidence[t].pair # "none" \/ t \in waived

-----------------------------------------------------------------------------
(* The matching ladder.                                                    *)

WithTid(t)    == {i \in DOMAIN tasks : tasks[i].tid = t}
WithTitle(ti) == {i \in DOMAIN tasks : tasks[i].title = ti}

First(S) == IF S = {} THEN NoRecord ELSE Min(S)

\* By the tid the subject starts with, else by the subject.
MatchTaskRecord(subject) ==
  IF WithTid(subject.tid) # {} THEN First(WithTid(subject.tid))
  ELSE First(WithTitle(subject.title))

NameOf(i) == [tid |-> tasks[i].tid, title |-> tasks[i].title]

Task(name, status) == [tid |-> name.tid, title |-> name.title, status |-> status]

-----------------------------------------------------------------------------
(* Records by hand.                                                        *)

\* wf record task; nothing keeps two records from having one tid.
RecordTask(name) ==
  /\ Len(tasks) < MaxTasks
  /\ tasks' = Append(tasks, Task(name, "open"))
  /\ UNCHANGED <<mirror, native, evidence, waived, judged, renamed>>

\* wf record task updates=<id>: whatever fields it has are taken as they are,
\* also of a task that is done.
UpdateTask(i, name, status) ==
  /\ tasks[i] # Task(name, status)
  /\ tasks' = [tasks EXCEPT ![i] = Task(name, status)]
  /\ renamed' = IF name = NameOf(i) THEN renamed
                ELSE renamed \cup {n \in Native : native[n].rec = i}
  /\ UNCHANGED <<mirror, native, evidence, waived, judged>>

\* wf contract waive <tid> --reason
Waive(t) ==
  /\ t \notin waived
  /\ waived' = waived \cup {t}
  /\ UNCHANGED <<tasks, mirror, native, evidence, judged, renamed>>

-----------------------------------------------------------------------------
(* TaskCreated.                                                            *)

\* Fault: the first one is T-0.
NumberedFromZero == Len(tasks)

NextNumber == Len(tasks) + 1

\* The hook looks for a matching record and, finding none, numbers a new one.
\* Another record may take the number before the hook does.
BeginCreate(n) ==
  /\ native[n].at = "none"
  /\ native' = [native EXCEPT ![n] =
       [at |-> "matched", rec |-> MatchTaskRecord(Subject[n]),
        tid |-> NextNumber, copy |-> NoMirror]]
  /\ UNCHANGED <<tasks, mirror, evidence, waived, judged, renamed>>

NewName(n) == [tid |-> native[n].tid, title |-> Subject[n].title]

\* The new record is appended; the mirror is read.
CreateRecord(n) ==
  /\ native[n].at = "matched"
  /\ LET new == native[n].rec = NoRecord
     IN  /\ new => Len(tasks) < MaxTasks
         /\ tasks' = IF new THEN Append(tasks, Task(NewName(n), "open"))
                     ELSE tasks
         /\ native' = [native EXCEPT ![n] =
              [at |-> "recorded", rec |-> IF new THEN Len(tasks) + 1 ELSE native[n].rec,
               tid |-> native[n].tid, copy |-> mirror]]
  /\ UNCHANGED <<mirror, evidence, waived, judged, renamed>>

WriteMirror(n) ==
  /\ native[n].at = "recorded"
  /\ mirror' = [native[n].copy EXCEPT ![n] = native[n].rec]
  /\ native' = [native EXCEPT ![n] = [at |-> "open", rec |-> native[n].rec,
                                      tid |-> NoTid, copy |-> NoMirror]]
  /\ UNCHANGED <<tasks, evidence, waived, judged, renamed>>

-----------------------------------------------------------------------------
(* TaskCompleted.                                                          *)

\* Fault: the mirror alone is asked.
FindInMirror(n) == mirror[n]

\* The mirrored record, or the one the ladder finds when the mirror has none.
FindTaskRecord(n) ==
  IF mirror[n] # NoRecord THEN mirror[n]
  ELSE MatchTaskRecord(Subject[n])

Closes(n) ==
  /\ native' = [native EXCEPT ![n].at = "closed", ![n].rec = NoRecord]
  /\ UNCHANGED <<mirror, evidence, waived>>

Judge(n, i) ==
  /\ Proven(tasks[i].tid)
  /\ tasks' = [tasks EXCEPT ![i].status = "done"]
  /\ judged' = [judged EXCEPT ![n] = tasks[i].tid]
  /\ renamed' = renamed \ {n}

\* A task without a record is not the gate's, and may close.
Complete(n) ==
  /\ native[n].at = "open"
  /\ Closes(n)
  /\ \/ FindTaskRecord(n) # NoRecord /\ Judge(n, FindTaskRecord(n))
     \/ FindTaskRecord(n) = NoRecord /\ UNCHANGED <<tasks, judged, renamed>>

-----------------------------------------------------------------------------
(* CaptureTest.                                                            *)

InStatus(S) == {i \in DOMAIN tasks : tasks[i].status \in S}

Only(S) == \E i \in S : S = {i}

\* Fault: open tasks count as much as those in progress.
ActiveOpen == IF Only(InStatus({"in_progress", "open"}))
              THEN Max(InStatus({"in_progress", "open"})) ELSE NoRecord

\* The one task in progress or, with none, the one that is open.
ActiveTask ==
  IF Only(InStatus({"in_progress"})) THEN Max(InStatus({"in_progress"}))
  ELSE IF Only(InStatus({"in_progress", "open"}))
       THEN Max(InStatus({"in_progress", "open"})) ELSE NoRecord

\* A run with an exit code of its own.  Any other is recorded as ungrounded,
\* one without an active task without a task; neither is evidence.
CaptureTest(cmd, green) ==
  /\ ActiveTask # NoRecord
  /\ LET t == tasks[ActiveTask].tid
     IN  evidence' = [evidence EXCEPT ![t] = IF green THEN Passed(evidence[t], cmd)
                                             ELSE Failed(evidence[t], cmd)]
  /\ UNCHANGED <<tasks, mirror, native, waived, judged, renamed>>

-----------------------------------------------------------------------------

Next ==
  \/ \E name \in Name : RecordTask(name)
  \/ \E i \in DOMAIN tasks, s \in Status :
       \E name \in Name \cup {NameOf(i)} : UpdateTask(i, name, s)
  \/ \E t \in Testless : Waive(t)
  \/ \E n \in Native :
       \/ BeginCreate(n)
       \/ CreateRecord(n)
       \/ WriteMirror(n)
       \/ Complete(n)
  \/ \E c \in Cmd, green \in BOOLEAN : CaptureTest(c, green)

Spec == Init /\ [][Next]_vars

\* One test is seen failing and passing again and again, whatever the others
\* do, and a native task is tried to be completed again and again.
Fairness ==
  LET test == CHOOSE c \in Cmd : TRUE
  IN  /\ \A green \in BOOLEAN : WF_vars(CaptureTest(test, green))
      /\ \A n \in Native : WF_vars(Complete(n))

FairSpec == Spec /\ Fairness

-----------------------------------------------------------------------------
(* Properties.                                                             *)

TaskType == [tid : Tid, title : Title, status : Status]

Mirror == [Native -> Nat]

NativeType ==
  [at : {"none", "matched", "recorded", "open", "closed"},
   rec : Nat, tid : Nat, copy : Mirror]

Evidence == [reds : SUBSET Cmd, pair : {"none", "weak", "strict"}]

TypeOK ==
  /\ tasks \in Seq(TaskType) /\ Len(tasks) <= MaxTasks
  /\ mirror \in Mirror
  /\ native \in [Native -> NativeType]
  /\ evidence \in [Tid -> Evidence]
  /\ waived \subseteq Testless
  /\ judged \in [Native -> Tid \cup {NoTid}]
  /\ renamed \subseteq Native

\* Whatever runs come later and whatever tids records are given, before the
\* close or after it: a native task that was let close has a red and a later
\* green of one runner, or a waiver, for the tid it was judged under.
ClosedIsProven ==
  \A n \in Native : judged[n] # NoTid => Proven(judged[n])

\* No task slips through: a native task the gate has admitted is judged by a
\* record when it closes, also when the mirror lost it to another hook, unless
\* an update gave the record of its admission another tid or subject.
NeverUnjudged ==
  \A n \in Native :
    native[n].at = "closed" => judged[n] # NoTid \/ n \in renamed

Focused(n, tid) ==
  /\ native[n].at = "open"
  /\ InStatus({"in_progress"}) = {FindTaskRecord(n)}
  /\ tasks[FindTaskRecord(n)].tid = tid

\* No wedge: a task that stays the only one in progress, and keeps its tid,
\* while one test fails and passes can be closed, whatever other runs were
\* captured for it.
FocusedTaskCloses == \A n \in Native, tid \in Tid : ~ <>[]Focused(n, tid)

=============================================================================
