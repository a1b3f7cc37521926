# Verification of the workflow engine `wf`

`wf` (src/engine, Go) drives an AI coding agent through a workflow of phases.
Its commands and its Claude Code hooks are separate operating-system processes
that share the files of a project's store; nothing runs in the background.
These TLA+ modules model the engine's own logic: the run state machine, the
event log, the gates that hold an agent to its phase contract, the evidence
and approvals those gates accept, the contracts and the trace a run is closed
under, and the lessons that extend the contracts of later runs. TLC checks them
on small instances. TLAPS proves the safety results, for every value of the
constants, of the run machine, recovery, the event log, the stop gate, verdict
evidence, the task gates, approvals, the close-out and lessons: every invariant
and every action property the passing runs check.

## 1. The system

### Components

| Component | State it keeps | Operations | What makes it correct |
|---|---|---|---|
| Run state machine (`internal/runctl`, `internal/spec`, `workflow.yaml`) | snapshot `state/run.json`: id, parent, family, phase, status, loops, slips, forces, waived, exited | `wf run start/branch/adopt/close/resume`, `wf phase exit [--force]/waive`, `wf loop`, `wf park`, `wf record classification` | phases are walked in order, a closed run is complete, rework is walked again, caps on loops and forces hold, a run ends |
| Event log and archive (`internal/store`) | `log/events.jsonl`, `runs/<id>/events.jsonl` | `Append` (heal, chain, write), `ArchiveRun` (scan, archive, verify, compact, clear), `VerifyChain` | what was acknowledged is found again after a kill, the chain never accuses an innocent user |
| Run recovery (`Store.DeriveRun`, `Ctl.RunAdopt`) | none of its own | fold the log into a snapshot, take it over | log and snapshot agree; a lost snapshot grants nothing |
| Store files | `config.json`, `local/*.json`, lockfile | atomic replacement, `Lock` with stale takeover | one writer at a time |
| Stop gate (`gates.Stop`) | `local/stop-gate.json`, `local/enforce-off.json` | Stop hook: allow, block, release after the cap | nobody is let go unearned, nobody is held for ever, a release is recorded |
| Verdict gate and evidence (`gates.Verdict`, `contracts` verdict-in) | `local/verdict-attempts.json`, verdict and disposition records | SubagentStop hook; `wf record verdict/disposition`; the effective verdict | captured evidence is not talked away, a reviewer is not wedged, a verdict is attributed to its review |
| Task gates (`gates.TaskCreated/TaskCompleted`) | `local/tasks-mirror.json`, task records | mirror native tasks; completion needs a red and a green run | no task is done without evidence |
| Capture hooks (`gates.Capture*`, `internal/cmdid`) | test-run, commit, edit records | classify a finished tool call, record it | a captured run is attributed to the right task |
| Tool gates (`gates.Pre*`) | none | skill, edit, Bash and read decisions over one call | matching only |
| Phase contracts (`internal/contracts`) | the fold of records and their updates | predicates of `workflow.yaml` over the records | what ships had its verdicts; an answer counts for the record it answers |
| Record validation (`Ctl.validateRecord`, `risk.go`) | none | refuse malformed or contradictory records | no record says what the log denies |
| Approvals and challenges (`Ctl.Approve`, `challenge.go`) | `local/challenge.json`, approval records | answer or single-use code | an approval rests on an answer about its gate, given since the last one, and on a code used once |
| Specification loading (`internal/spec`) | none | parse, validate, extend with the project's contract | extensions only add |
| Lessons and packs (`internal/ops`) | lesson records, `contracts.d/*.yaml`, a prose rule file | suggest, accept, reject, apply, pack install | the files say what the accepted lessons say, nothing unaccepted is enforced, no command leaves a workflow that does not load |
| Views (`internal/views`) | trace findings (recorded) | report, trace, rtm, status line | the trace leaves a finding for all there is to answer for, and none twice |
| Doctor (`internal/doctor`) | none | compares snapshot and log, chain report | no false alarm, no missed one |
| Prompt injection, hook protocol, command line, generators | none | text in, text out | — |

### How they interact

A command loads the snapshot, decides, appends its events and saves the
snapshot. A hook does the same through `Ctl.Record`, and keeps counters of its
own under `local/`. A contract is evaluated over the events of the current
run, folded by `Env.build`. Closing a run moves its events to the archive,
removes the counters and then the snapshot. `wf doctor` and `wf run adopt`
read the log alone. All coupling is through files, and `Store.Lock` has no
caller outside its tests, so a command is interleaved with every other process
at each file access.

### What is hard here

* **Sequences of commands.** Loops un-mark one phase and go back, waivers and
  forces skip, a branch parks, a classification changes the list of phases.
  The order in which they come decides what `nextUnwaived` finds.
* **Kills.** Every process may die between two file operations, and inside a
  write; the next process starts from what is there.
* **Processes at once.** Several sessions, several reviewers' hooks, a hook
  and a command.
* **Counters that end things.** Loops, forces, blocks, retries: each is the
  reason why something stops, and each is kept in a file that others write.
* **Evidence by hand and by hook.** Records, updates and dispositions of both,
  in any order.
* **Checked, then used.** A contract, a log or a directory is read, and what
  was read is acted on after another process has written.
* **Several files, no transaction.** Accepting a lesson is an approval, a
  status and two files; an approval is a code consumed and a record.

PROJECT.json lists each hazard at its line, with the properties that cover it.

## 2. Modules

| Module | Models | Composes |
|---|---|---|
| `RunControl` | the run state machine, one action per command and outcome | |
| `WorkflowSpec` | phases, families, participation and caps of workflow.yaml | |
| `RunRecovery` | what each command logs, `DeriveRun`, adoption, a lost snapshot | `RunControl` (each action is conjoined with its log entry) |
| `Run_proofs` | theorems about both | `RunControl`, `RunRecovery` |
| `Ledger` | the bytes of the log: lines, chain, torn writes, close transaction | |
| `Ledger_proofs` | theorems about it | `Ledger` |
| `StopGate` | the Stop hook and its counter file, several sessions | |
| `StopGate_proofs` | theorems about it | `StopGate` |
| `Evidence` | verdict capture and the effective verdict, overlapping hooks | |
| `Evidence_proofs` | theorems about it | `Evidence` |
| `BuildLoop` | task gates, mirror and matching, captured test runs and their pairing | |
| `BuildLoop_proofs` | theorems about it | `BuildLoop` |
| `SpecMerge` | what of contracts.d may be merged into the workflow, and its validation | |
| `Lessons` | lessons and packs: log, contracts.d, rule file, overlapping and killed commands | `SpecMerge` |
| `Lessons_proofs` | theorems about it | `Lessons` |
| `Contracts` | the fold of records and updates, the predicates, what of a contract is unmet, what an approval binds | |
| `CloseOut` | records, trace, approvals and exits from Verify to the end of Ship | `Contracts` |
| `CloseOut_proofs` | theorems about it | `CloseOut` |
| `Consent` | what an approval promises, in one step: the abstract specification | |
| `Approvals` | `wf approve` and the challenge file, step by step; it implements `Consent` | `Consent` |
| `Approvals_proofs` | theorems about it: it implements `Consent` | `Approvals`, `Consent` |
| `MC*` | values of the constants for TLC | the module they are named after, `WorkflowSpec` |

### Correspondence

**RunControl.** `run` is the snapshot with the fields of `store.Run` that
decide anything; `run.id = 0` when there is no file. `Start`, `Branch` (and
`BranchRefused`, which has parked the parent already when `RunStart` refuses
the child), `Close`, `ExitPhase`, `ForceExit`/`ForceParks`
(`forceEscalation`), `Waive`, `Loop`/`LoopParks`, `Park`, `Resume` and
`Reclassify` (the classification case of `validateRecord`) are the commands; a
guard is the command's early return. Whether a contract is met is decided
elsewhere, so `ExitPhase` may succeed or not whenever it is asked. `redo` is
a history variable: the phases a loop re-opened that were not exited since.

**RunRecovery.** `log[i]` is the snapshot `DeriveRun` folds from the live
events of run `i`; each command's action is `RunControl`'s with the folded
event beside it. `LoseSnapshot` is a fresh clone or an unreadable file.
`tally` counts the force and loop events themselves.

**Ledger.** `lines` is the live log, a line being an event, the hash of the
line before, and whether it parses and ends in a newline. `inode`
distinguishes the file a process opened from the one a rename put in its
place. `job` is the program counter of a process. `Crash` may come between
any two steps, `TornWrite` and `TornArchive` inside a write. The hash of a line
is all that is chained before it (`Hash`), so two lines have one hash only if
they are one line, as with SHA-256. `Kept` is what a close keeps or moves, in
its order.

**StopGate.** `gate` is local/stop-gate.json, `turn` says whether a session is
working and whether it is so because of a block (`stop_hook_active`). A
finding set is what the hook hashes: the first `MaxHashed` unmet items of the
phase (six in the code), or the fixed text of the exit and close reminders.
`blocked` and `answer` are history.

**Evidence.** `verdicts` is the fold of verdict records, updates and
dispositions. `UpdateVerdict` changes scope and status and keeps the record in
its place and marked as captured, as `Env.build` does; `MoveDisposition` is an
update of a disposition. `Elsewhere` is where a verdict is of no contract
here: another agent's, or with a scope none asks for. `Capture` takes a
verdict that parses and that `Record` accepts; `Refuse` is the block for one
that parses and is refused, for a status out of the vocabulary or for want of a
run, after which the reviewer goes on (`GoOn`) and no counter has moved. A hook
that finds no verdict is two steps, `ReadAttempts` and `WriteAttempts`, since
another hook may come between. `lost` records whose count was overwritten that
way; `captured` and `filed` (what a hook captured, and under which scope) and
`edited` in a verdict are history.

**BuildLoop.** `tasks` is the fold of task records; a record is known by its
place. `TaskCreated` is three steps, since hooks of tasks created at once
overlap: `BeginCreate` looks for a matching record and counts the records,
`CreateRecord` appends and reads the mirror, `WriteMirror` saves it.
`Complete` is `TaskCompleted`; a refusal changes nothing. `evidence[t]` is
what `redGreenClass` makes of the grounded runs with task `t`: the commands
seen failing, and the best pair with a later green; after a strict pair nothing
can change it. `UpdateTask` is `wf record task updates=<id>` with any tid,
subject and status; `judged` is history, the tid a native task was let close
under, and so is `renamed`, the tasks not judged yet whose record was given another
tid or subject after a hook had taken it. Records of test runs and waivers are
taken not to be updated. A subject is what the
ladder tells apart: the tid it starts with, and a title, where titles that
contain each other are one. The run is a diff in Plan or Build throughout;
elsewhere TaskCreated refuses and an assessment needs no evidence.

**SpecMerge.** A specification is what the rules of `Validate` and
`mergeContractsDir` tell apart: its record kinds, items, phases, loops and
roster, and whether it has a field the engine does not know. A name is a
prefix and a rest, as in `x-KIND` and `local.ID`. `Loads` is `Load`, which
every command starts with; `LoadsStrictly` is what an installation asks for.

**Lessons.** `log` holds lesson and status events of all runs, live or
archived, `ext` is contracts.d, `rules` the rule file's lessons. A lesson is
known by the number of the event that creates it, and an item of lessons.yaml by
its lesson, which is also the order of both. Suggest records its proposals one
by one, in the order of their trigger classes; accept is `Approve`, `RecordTriage`,
`Collect`, `WriteYaml`, `ReadProse`, `WriteProseRules`; apply the last four;
a pack is copied file by file in any order. `Kill` may come between any two
and in a copy. A person removes files and the plugin changes version.
`alone` in a job is history: nothing else has happened since it began.

**Contracts.** A record is the place of the event that creates it; a field is
the last word on it of that event and its updates, as `Env.build` folds them.
A field that is absent reads as the empty string, which is what the code's
type assertions give. `Eval` has the predicates the items of Verify and Ship
use.

**CloseOut.** `VerifyItems`, `ShipItems` and `ShipEntry` are the items of
workflow.yaml, one for one. `Record`, `Update`, `Approve` are commands of one
append; `MayRecord` is the part of `validateRecord` that looks at the log or
the disk. `RecordsAssumption` says what the commands of the model record and
update: fields as workflow.yaml requires them, no phase event, approval or trace
finding by hand. The engine would take the last two from `wf record`; nothing
is claimed of runs in which somebody writes them himself. An item carries its
predicate as `check`. A trace reads the log (`BeginTrace`), appends its findings one by
one (`TraceOne`) and reports (`EndTrace`); an exit evaluates the contract
(`BeginExit`, or `BeginForce`, which logs the force) and saves the snapshot it
read, advanced (`CommitExit`). In between, other commands go on. Phase events
other than forces are left out of `evs`, since nothing reads them.

**Approvals.** `answers` are the user-answer records, `approvals` those of the
gates, each with the number of answers before it, since `Approve` compares
positions in the log. A code is a number and `madeFor` remembers its gate;
that a code is new is how `mintCode` is modelled (six random characters).
`BeginApprove` reads the log; `AnchorPlain`, or `AnchorCode` and `MissCode`,
choose the answer or refuse; `MintCode` saves a new code; `ClearChallenge`
removes the file; `AppendApproval` writes the record. A user may type a code
in any later answer, also a consumed or a replaced one.

**Refinement.** `Approvals!ApprovalsConsented` is `Consent!Spec` under a
mapping that shows, of a code, the gate it was made for, and of a command, its
gate and the answers it may not use any more. `Ask` is `BeginApprove`, `Grant`
is `AppendApproval`, `Refuse` every way a command ends without an approval;
choosing the answer and clearing the code are stutters.

## 3. Runs

| Run | Question | Bounds, and why they are enough |
|---|---|---|
| `run_control` | Do any loops, waivers, forces, parks, branches and early reclassifications lead past a phase, to an incomplete close, to unwalked rework, or nowhere? | The seven phases of workflow.yaml, three families, three loops, one slip per AC, two runs: every loop target is reached from every place, twice in one run with a loop of another cause between, and one run is left for a branch. |
| `assessment_loop` | Is a run without a phase closeable, as `PhaseExit` says? No. | One run, two loops; one is enough. |
| `run_recovery` | Does the log hold what a run was granted, and do caps survive one loss and adoption? | One run (the fold of each run is its own), six phases (all but context, which no loop or waiver singles out), two families, two loops, forces up to their cap, one adoption. |
| `run_lineage` | Does doctor find the snapshot's run over branches and overwritten parked runs? | Two runs and one adoption: parent and child, or a run and the one that shadows it. Loops do not enter the lineage and are left out. |
| `ledger` | Does a killed process break the chain, hide what was acknowledged, or drop an event? | Two runs, eight appends, two kills: a torn write, a healed one, a close over them and a second run on the compacted log. |
| `close_retry` | Is anything acknowledged lost? Yes, by a close that is tried again. | One kill. |
| `stop_gate` | Is a release earned, is a turn capped and does it end, with sessions taking the counter from each other? | Two enforced sessions and one with `WF_ENFORCE=0`, two items of which one makes the hash, four steps of work between the hooks, two prompts. A count of four needs one prompt and three blocks. |
| `evidence` | Can captured evidence be talked away, does a reviewer come to its end? | Two reviewers (one pair of hooks is what it takes to lose a count, one pair of captures to move one into the scope of the other), two commands by hand of record, update, disposition and its update, four phases with two modes, loops and runs without bound. By hand the status is clean, the one that could open a gate. A clean verdict with findings stands for every word that fails, and a clean one for whatever says another scope. |
| `build_loop` | Can a task close unjudged or unproven, or not at all, with hooks that overlap? | Two native tasks, one that names its tid and one that does not, and both may match one record; two task records, made by hook or by hand and updated at any time, also to one tid; besides the names hooks give there is one more, a tid with a title no native task has; commands of two runners; a waiver for one tid. Two hooks are what it takes to lose a mirror entry. |
| `lessons` | Does what is accepted reach the files and nothing else, does a command that nobody disturbed leave a workflow that loads, is a lesson proposed once? | Two processes, four commands, four lesson events, two runs, one kill, one change from outside (a file removed or a new plugin version, which knows less). Lessons of each form: prose, a check of a kind only the pack declares, and one of an agent the next version lacks. A pack of two files of which one needs the other. |
| `close_out` | Does a run ship with something unanswered or unverified, does a trace make up for killed and overlapping ones? | Two processes; a diff whose secret scan was waived and an assessment whose Frame was forced, both back in Verify by a loop from Ship, so that all records of earlier phases are there; three records, updates, approvals or files, one forced exit, five moves in all. An unanswered finding takes two processes and three moves; a finding left out takes one kill. |
| `approvals` | Does an approval rest on what `Consent` says, is a code or an answer used twice? | Two processes, two gates, three modes; three answers, four commands, one kill: a code made, replaced by another gate's, made again, answered late. |

Bounds of `close_out` that are not numbers: no record is made twice in the
same words, no update says nothing new, no approval repeats one; an update is
of a record of its kind; within one class of findings a trace goes in some
fixed order; the scope gate stands for the three gates drift is about. A trace
and an exit are undisturbed (`alone`) when no other process's step falls
between their first and their last; the properties about what a trace leaves
or what an exit has checked are about those, since the engine excludes nobody.
What is done in between may be disturbed, doubled or killed without limit but
the bound.

The hypotheses of the theorems that are about how the engine is used
(`FrameOnly` and `ShipEnds`, `OneWriter`, `Kept`, `PacksStayApart`) are defined at
the end of their modules. `MCRunControl`, `MCCloseOut` and `MCLessons` assume that
theirs are true of the instance, so TLC evaluates them on it; `MCLedger` says of its instance that it
has one writer.

A *pass* run states what holds. A *violation* run checks one sentence of the
documentation or of a comment that the code does not keep; PROJECT.json's
findings quote it.

### Fairness

* `run_control`: strong fairness of `ExitPhase` and `Resume`, weak fairness of
  `Close`. The Stop hook sends the agent back until a contract is met or
  something is escalated to the user, so an open phase is exited again and
  again; a parked run is the user's to resume; and the Stop hook reminds of a
  closeable run. Nothing is assumed of loops, waivers or forces: that they run
  out is what `EveryRunEnds` says.
* `stop_gate`: a turn that goes on comes to the point where the agent wants
  to stop (weak fairness of `Stop`). No progress of the work is assumed.
* `evidence`: a reviewer's process comes to its end again and again (weak
  fairness of `Finish`). Which word it ends with is left open, also one that
  is refused each time: `ReviewsEnd` excepts the reviewer that is, since nothing
  in the code bounds it (section 6).
* `build_loop`: one test is seen failing and passing again and again, and the
  agent tries again and again to complete an open task (weak fairness of
  `CaptureTest` for that test and of `Complete`). This is what TaskCompleted's
  refusal tells the agent to do; that runs are attributed to the task at all
  is the property's own condition, the task being the only one in progress.
* `lessons`, `close_out` and `approvals` are safety only, and assume none.

### Deadlock

Every cfg switches the deadlock check off: the system rests when the bounds
on runs, prompts, records or commands are used up, or all phases are complete,
as the program does when nobody calls it. It never waits.

## 4. Proofs

`Run_proofs` proves, for every phase list, order, participation table,
set of families, caps and number of runs that satisfy the named assumptions of
`RunControl` (orders are distinct, loops go back, participation is one of
three words):

* `TypeCorrect`: `Spec => []TypeOK`, with no further assumption.
* `NoPhaseIsJumped`, `CloseIsComplete`, `ReworkIsDone`: the three safety
  results of the run machine, under `FrameOnly`: a classification is corrected
  only in a phase that is earlier than all others and that no loop goes back
  to, as frame is.
  The engine takes a classification in any phase; without the assumption the
  results are false (section 6).
* `CloseableIfReported`: a run without a phase is closeable, as PhaseExit says,
  if its family takes part in every phase a loop goes back to. It needs
  `ShipEnds`: ship is the last phase of every family and cannot be waived.

None of the safety results is inductive by itself. `IInv == TypeOK /\ (Open =>
Walked(run, redo))` is, where `Walked` says of every phase of the family
before the current one that it is settled: waived, or exited and not waiting
for rework; and, once the last phase of the family is exited and there is no
current one, of every phase. It is needed because a loop leaves later
phases marked exited, so "exited" alone says nothing about rework, and
because `RunClose` looks at the last phase only. The facts about phases rest
on `NextUnwaivedIsNext` (the next phase is the earliest participating one
ahead, so everything skipped was waived) and `NothingAhead`, which rest on
`EarliestPhase`, from the well-foundedness of the naturals.

`CloseableIfReported` has an invariant of its own, `EInv`: ship is never waived,
and a run whose loops fit its family is in one of the family's phases or has
exited ship (`Ending`); from a phase of its family nothing but ship's own exit
leads past the last (`EndIsShip`).

It also proves, of `RunRecovery` and for any number of runs, losses and adoptions:

* `RecoveryTypeCorrect`, `DoctorAlwaysAgrees`, `GrantsStayLogged`, with no
  assumption beyond those of `RunControl`.
* `CapsSurvive`: caps survive as long as there was at most one adoption. With
  two it is false, since `adopt` logs no family (section 6), and this is why the
  run has one.

`RInv` adds to `RTypeOK`: `Lineage` (ids are minted in order, an entry is about
its own run, and the snapshot's run is the newest one alive, which is why
doctor's derived run is it), `Tracks` (an entry with a family holds the
snapshot's waivers, forces, loops and status, and at least its exits), and
`Counting` (before the first adoption every entry counts in full what was ever
forced or looped; until the second the snapshot does).

`Ledger_proofs` proves, for any number of runs, events and kills,
`LedgerTypeCorrect` for any number of writers (`TypesKept`: a line run into an
unterminated one, and one written to a file that is no longer the log, leave a
log of lines), and, under `OneWriter`, `ChainStaysIntact`,
`FollowupsOutliveRuns`, `AckIsReadable` and `EventsAreMoved`. The engine has a
lock for this and takes it nowhere; with two writers the chain breaks and a
close drops events (section 6).
Kills, torn writes and healing are all in. `LInv` says where a command is: one
about to write holds the file that is there and the hash of its last readable line
(`ReadyToWrite`); one that closes has every readable event of the log either in
what it archives or in what it keeps, and keeps nothing else (`Split`), and once
it has archived, the archive is what it took. That events have distinct numbers
(`EventsNumbered`) is what makes the verification of the archive mean something.

`StopGate_proofs` proves, for every set of sessions and items and every number
of items in the hash, under `StopGateAssumption`: `StopTypeCorrect`,
`ReleaseNeedsBlocks` and `CapHolds`. The two results are of the two directions
of one relation between the counter, which sessions take from each other, and
what each was really told: `CountIsOfBlocks` (the counter never exceeds the
blocks in a row of the session it is of, so a release is earned) and
`BlocksAreCounted` (it is not below the blocks of a turn nobody interfered with,
so there are at most three).

`Evidence_proofs` proves, for every set of gating agents and every list of
phases with their scopes, under `EvidenceAssumption`: `EvidenceTypeCorrect`,
`GatesAreCaptured`, `FailsAreSticky` and `BlocksAreBounded`. The lemmas say which
verdict of a scope is effective (`EffectiveIsOf` and those after it); `CapturesStand`
says that a captured verdict still reads as it was captured, status and scope,
unless it was updated, and `BlocksAreCounted` that a hook's copy of the counter,
too, has all counted blocks of a reviewer whose count nobody overwrote.
`FailSticks` is about the last verdict a hook filed under a scope; what can get
past it by hand is a disposition of it, an update of it, and an update that moves
another, later capture into the scope (`MovedInSince`). The last is what the code
lets happen, and the theorem says that nothing else does.

`BuildLoop_proofs` proves, for every set of native tasks, titles and commands
and every number of records, under `BuildLoopAssumption` (a command has a
token; tids are numbers up to the bound):

* `BuildTypeCorrect`: `Spec => []TypeOK`.
* `CloseNeedsEvidence`: `Spec => []ClosedIsProven`.
* `NoTaskSlipsThrough`: `Spec => []NeverUnjudged`.

`IInv` adds two parts. `Refs`: every reference of the mirror, of a copy of it
in a hook's hands and of a hook is to a record that exists, and a number taken
for a new record is at most one past the records. `Admitted`: from the moment
a hook has its record, that record names the native task, by tid or title,
unless an update gave it another tid or subject. The last is why a lost mirror
entry does no harm: records are never removed, so the ladder finds what the
mirror lost (`LadderFinds`), and a task that closes with nothing found is one
whose record was renamed (`CompleteStep`). `NoTaskSlipsThrough` has this
exception in its statement; `CloseNeedsEvidence` needs none, since it is about
the tid a task was judged under, and evidence is tagged by tid. `EvidenceStays`
gathers what every step leaves true of it, and `PairsStay` says that no
captured run takes a pair back. Neither is claimed of a run in which somebody
updates a record of a test run or a waiver.

`Approvals_proofs` proves, for every set of processes and gates and every
number of answers, commands and kills, under `ApprovalsAssumption` (there are
processes and gates, and "no topic" is not a gate):

* `ApprovalsTypeCorrect`: `Spec => []TypeOK`.
* `ApprovalsImplementConsent`: `Spec => ApprovalsConsented`, the refinement of
  section 2.
* `AnswersAreUsedOnce`: `Spec => SingleUse`.

`IInv` is `LogOK` (the log's references lie within it), `ChallengeOK` (the
pending code is one that was made for the gate it is pending for) and
`JobsOK`: a command that is past the choice of its answer holds one it may
rest on, or none where the project asks for none (`Good`). The last is what an
approval needs long after the log was read; it survives other commands because
the log and the codes only grow (`Grows`, `GoodStays`) and a code is never made
again for another gate. Every step then maps to a step of `Consent` or to
none (`StepMaps`): a refusal, a code made or a kill is `Refuse`
(`RefusalMaps`), a command that goes on is a stutter (`GoingOnMaps`).

For `AnswersAreUsedOnce`, `UInv` adds `Spent` (no approval, written or about to
be, rests on the code that is pending) and `AllFresh` (a command nobody
disturbed knows every approval of its gate, and none rests on the code it has
found).

`CloseOut_proofs` proves, for every log Verify may be entered with and every
set of records, updates, gates and files that satisfies the named assumptions:

* `CloseOutTypeCorrect`: `Spec => []TypeOK`, without further hypothesis.
* `TracesAnswer`, `CleanIsAnswered`, `ShippingIsVerified`: the three results of
  the close-out, under `Kept`. It has two parts. `NothingRenamed`: no update
  changes what a record is about (its rid, criteria, path, gate, refs or key).
  The engine does not look at this, and a requirement renamed after its verdict,
  or a finding re-keyed after its answer, would have neither. `PriorBound`: a
  scope approval already in the log names requirements that were agreed by then,
  which is how `wf approve` writes one.

The invariant follows what an undisturbed command knows. `Tracing`: what such a
trace has still to do is everything there is to answer for that has no finding,
and nothing that has. `Leaving`: such an exit has found every criterion judged
(from Verify) or no finding open (from Ship). `Answered` and `Judged` carry the
results on to the end of Ship: a finding, or an answer to one, adds nothing to
answer for (`ProblemsStay`) and any other record ends `traced`; what stood at the
exit of Verify is not changed by later events (`StandsOn`, `JudgedOn`). What
the properties say of the log (a value stands at an event, `Stands`) is tied
to what the code reads (`Field`, the folded record) by `FieldStands`.

`Lessons_proofs` proves, for every set of texts, checks, packs and plugin versions
and every number of processes, lesson events, runs, commands, kills and changes
from outside, under `LessonsAssumption` (trigger classes have distinct texts):

* `LessonsTypeCorrect`: `Spec => []TypeOK`.
* `LoadsAfterwards`, `DeliveryIsComplete`, `NeverProposedTwice`: what a command
  that nothing disturbed leaves behind.
* `NothingUnacceptedEver`: of commands that overlap, too, under `PacksStayApart`:
  no pack is called "lessons" (section 6).
* `LessonsMayGo`: under the same condition nothing in contracts.d comes to depend on
  lessons.yaml, so taking every lesson back never breaks a workflow that loads
  (`NotNeeded`, about `Merged` and `Validate`).

`IInv == Types /\ AllFit`. `Types` has, beside `TypeOK`, `LogOK`: an event names a
record an earlier event, or itself, created, and repeats its text. The first and
the last event of a record are a least and a largest number, which
`MinIsMember` and `MaxIsMember` make available without a fold (`RecordIs`,
`ItemsAre`). `AllFit` says what an undisturbed command knows (`Fit`): the workflow
loads, or will with the items it is about to write or once the whole pack is
there; what it has read of the accepted lessons is still so; lessons.yaml has
their names once it is written; no text it has left to propose was proposed. It is
needed because the result is about the last step and the validation three to
five steps back. `OwnStep` says that a step which leaves p undisturbed is one of p;
every other makes `alone` false. `CopyOne` and `CopyLast` are why a pack
copied in any order ends as the directory that was validated.

`NothingForged` makes `NothingUnaccepted` inductive: the same is true of what a
command has read and has in hand to write. Here `alone` plays no part; that a
lesson was accepted some time stays true whoever writes (`EverStays`).

Only model-checked: liveness, which is out of the prover's reach (`EveryRunEnds`,
`EveryTurnEnds`, `ReviewsEnd`, `FocusedTaskCloses`). `SpecMerge` has no theorem of
its own: what it says is used in `Lessons` as a whole, by `Loads` and
`LoadsStrictly`, and in `NotNeeded` in detail.

## 5. Plan

Done: `RunControl`, `RunRecovery`, `Ledger`, `StopGate`, `Evidence`,
`BuildLoop`, `SpecMerge` and `Lessons`, `Contracts` and `CloseOut`, `Consent`
and `Approvals`.

Of the theorems, what would be worth having are those the hypotheses now exclude, once
the code does: `CapsSurviveAdoption` for any number of adoptions, when `adopt`
logs the family; the chain with two writers, when `Append` takes the lock.

Of the models, what would be worth having: the load, append and save of every
command as separate steps (`SharedCommands`), with the lockfile it would take
to make them atomic.

## 6. Where code and documentation part

Shown by runs: see the findings. Met while modelling and left as text.

Runs and log:

* A classification is accepted in every phase (runctl.go:478), so a family
  corrected late takes part in phases the run has already passed;
  `FrameOnly` excludes this.
* The `branch` event is logged after the child's `enter` and restarts the
  fold: an adopted branch has no phase (runctl.go:128, store.go:671).
  `adopt` does the same (runctl.go:144), and logs no family, so a second
  adoption finds neither; slips are not folded at all (store.go:693).
* Classification records are not folded: an adopted run has the family it was
  started with (store.go:671).
* PhaseExit of the last phase logs no enter event, so a run adopted after it is
  in ship with ship exited (store.go:689). An audit loop from there un-marks
  verify only, and RunClose, which looks at ship alone, lets it close without
  verify walked again, where runctl.go:296 says that loop "re-opens Verify".
* A command saves the snapshot it read: an exit that was overtaken moves the
  phase back, or over one another process has entered (runctl.go:230).
* Append reads the last line and writes the next without `Store.Lock`, which no
  command calls (store.go:231): two processes may chain to one line, and
  VerifyChain calls that "edited out-of-band". 08-state-and-storage.md:142 says
  "Lockfile single-writer".
* keepLive judges a followup's event, not its updates (store.go:545): what stays
  live after a close is the open event of a followup that was resolved.
* A record appended while a close is between scan and rename is lost
  (store.go:496).

Gates and evidence:

* The exit reminder's hash names no phase (gates.go:72): blocks over one
  phase's reminder count for the next one's.
* Two sessions that take turns reset each other's count (gates.go:108), so
  neither is ever let go; `EveryTurnEnds` names the exception. The same
  holds of two reviewers' hooks (gates.go:401), `lost` in `ReviewsEnd`.
* The release of the stop gate is recorded at a count of exactly cap + 1
  (gates.go:117). The count also grows on a block of a fresh turn, so it can
  pass that value on a block; the release that follows is silent, where the
  comment above says "never silence".
* A new task record is numbered by the count of records (gates.go:203), read
  before it is appended. Two hooks at once, or a plan that numbers ahead, give
  one tid to two records, and the ladder that "keeps native tasks and wf task
  records one-to-one" (gates.go:290) finds the first. Evidence is tagged by
  tid, so the two share it. The results of `build_loop` hold all the same:
  each task is judged by its tid's evidence.
* A later red does not take back a pair (contracts.go:768): a task may close
  while its last run fails.
* defaultScope reads the phase when the reviewer ends (gates.go:475): a verdict
  without a scope of an adversary spawned in design and answered in build counts
  as red-team. 04-enforcement-spine.md:100 says "the verdict event carries the
  run/phase the engine injected".
* A verdict block that parses (gates.go:369) with a status out of the
  vocabulary, as `status: approved`, is refused by validateRecord
  (runctl.go:606), and the reviewer is blocked without a count (gates.go:433);
  so is one whose run is gone. Nothing bounds how often. gates.go:380 says the
  gate "blocks the reviewer until a parseable block is emitted (2 attempts),
  then records `unparsed` … no wedge". `ReviewsEnd` excepts a reviewer that is
  refused again and again, and `BlockedTwice` is about the blocks that are
  counted.
* An update of a captured verdict folds every field and keeps the record marked
  as captured (contracts.go:74). A failing capture may be updated to clean,
  or a clean capture of another scope or agent, later in the stream, moved
  into the failing one's scope, where it is the newest capture and passes,
  though the failing record was never touched. The comment at contracts.go:502
  says that "only a newer auto capture or an explicit disposition referencing it
  can" supersede. `GateNeedsCapture` and `FailSticks` name both ways. A
  disposition may be updated to refer to another verdict, too.
* An update of a task record may change its tid or subject (contracts.go:74),
  before and after a native task closed on it. After the close the record
  is left without a pair or waiver of its own; what `ClosedIsProven` says is of
  the tid the task was judged under. Before it, together with a mirror entry
  lost to another hook, the ladder finds no record and TaskCompleted lets the
  task close unjudged (gates.go:240), as "not a mirrored wf task";
  `NeverUnjudged` names this exception. An update of a test-run or waiver record
  would take evidence away; `BuildLoop` has none.

Lessons:

* A lesson of an earlier run is found, and its acceptance or rejection approved;
  then Record refuses the status, since it updates nothing the current run did
  not record (runctl.go:444). The approval stands without it, where
  lessons.go:290 says "lesson records stay live".
* A pack called "lessons" installs its lessons.yaml as contracts.d/lessons.yaml
  where there is none yet (pack.go:66): its items are enforced as accepted lessons would be, and the next
  apply replaces them. `PacksStayApart` excludes it.
* An update of a lesson may change its text or its check (runctl.go:436), after
  it was accepted, too; the next apply enforces the new one and nobody is asked
  again. `Lessons` has updates of the status alone.

Records, trace and exits:

* Record does not ask that an update is of the kind of its record
  (runctl.go:436); `CloseOut` takes it to be.
* `hasGroundedGreen` is given the acceptance criterion the command names
  (runctl.go:636). An update of an ac-verdict that names none looks for a
  grounded green run without one, so the secret scan will do and the tagged run
  does not, where skills/verify/SKILL.md:13 says a pass is refused without "a
  grounded green test-run tagged with that AC". A passing run has the update
  name it.
* `grounded` is a required field of test-run, so the default for records by
  hand (runctl.go:648) never applies to `wf record`.
* A requirement that gains a criterion by an update, or a second record under an
  approved rid, is no drift, since refs are rids (contracts.go:814); after
  Verify it gets no verdict either. An approval with nothing to bind leaves no
  baseline, so drift from it is never reported (trace.go:83).
* All late edits share the key `stale-verdicts` (trace.go:136), so one answer
  silences them for good, and any newer gating verdict, the auditor's too, hides
  the edits before it.

Approvals:

* challenge.json holds one code. Approving another gate replaces it
  (challenge.go:33), and two sessions may go on replacing each other's.
* Two approvals of a gate at once may both find the code in the same answer
  before either clears it (challenge.go:48); `SingleUse` is about approvals that
  nobody disturbed.
* A kill between clearing the code and appending the approval (runctl.go:870)
  consumes the answer for nothing.
* When the log cannot be read, `Approve` skips all it would have checked and
  appends the approval, without an answer or a code and in every mode
  (runctl.go:811, 888). `Approvals` has kills and overlap, but no file that
  cannot be read.

## 7. Not modelled, and why

Tool gates, prompt injection, status line, report and traceability matrix,
hook protocol and generators decide over one input and keep no state; their
content is text matching or rendering. Configuration and ULIDs have no
protocol. The lockfile has none either as long as no command takes it. The
contract items of the phases before Verify are existence checks of the same
predicates, but for red-green and its waivers, which `BuildLoop` has; the
shape checks of `validateRecord` look at one record. Dependency check, origin
discovery and new documents (`ops.go`) record what one command read.
