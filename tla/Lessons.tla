------------------------------- MODULE Lessons -------------------------------
(***************************************************************************)
(* What makes the workflow grow: lessons (internal/ops/lessons.go) and     *)
(* contract packs (internal/ops/pack.go).  A lesson is a record of a run;  *)
(* accepted, it is delivered to one of two files that are regenerated from *)
(* all the lessons there ever were: contracts.d/lessons.yaml when it       *)
(* carries a check, the prose rules otherwise.  A pack adds files of its   *)
(* own to contracts.d.                                                     *)
(*                                                                         *)
(* A command is a process, takes no lock and may be killed between any two *)
(* of its steps.  What a command checks at its start it may act on after   *)
(* somebody else changed it.                                               *)
(***************************************************************************)
EXTENDS SpecMerge, FiniteSetsExt

CONSTANTS
  Proc,         \* wf processes that may run at the same time
  Text,         \* lesson texts, prose or with a check
  Check,        \* text -> its check field: [form, item]
  Suggestible,  \* the text of each trigger class, in their order
  Pack,         \* the packs: each a function from file names to contents
  Plugin,       \* version -> that version's workflow.yaml
  Shipped,      \* the one installed at first
  MaxEvents,    \* bound: lesson events
  MaxRuns,      \* bound: runs started
  MaxCommands,  \* bound: commands begun
  MaxKills,     \* bound: processes killed
  MaxEdits      \* bound: files removed by hand, plugin versions installed

ASSUME LessonsAssumption ==
  /\ Proc # {}
  /\ \A t \in Text : Check[t].form \in {"prose", "item", "garbled"}
  /\ Suggestible \in Seq(Text)
  /\ \A c, d \in DOMAIN Suggestible : Suggestible[c] = Suggestible[d] => c = d
  /\ Shipped \in DOMAIN Plugin
  /\ MaxRuns \in Nat \ {0}
  /\ {MaxEvents, MaxCommands, MaxKills, MaxEdits} \subseteq Nat

VARIABLES
  plugin,    \* the version installed
  ext,       \* contracts.d: file name -> content
  rules,     \* the lesson records the prose rule file lists
  log,       \* the lesson events of all runs, archived or live
  cur,       \* the current run, 0 when there is none
  runs,      \* runs started; those before cur are archived
  job,       \* process -> the command it executes
  commands,  \* commands begun
  kills,     \* processes killed
  edits      \* changes made outside the engine

vars == <<plugin, ext, rules, log, cur, runs, job, commands, kills, edits>>

LessonsFile == "lessons.yaml"

-----------------------------------------------------------------------------
(* Lesson records.  An event either creates the record rec or updates its  *)
(* status; AllEvents reads those of archived runs as well.                 *)

EventsOf(rec) == {n \in DOMAIN log : log[n].rec = rec}

\* Fault: what left the live log with its run is not read.
LiveRecords == {e.rec : e \in {f \in Range(log) : f.run = cur}}

LessonRecords == {e.rec : e \in Range(log)}

TextOf(rec)   == log[Min(EventsOf(rec))].text
RunOf(rec)    == log[Min(EventsOf(rec))].run
StatusOf(rec) == log[Max(EventsOf(rec))].status
ItemOf(rec)   == Check[TextOf(rec)].item

\* Fault: what is not rejected is enforced.
NotRejected == {rec \in LessonRecords : StatusOf(rec) # "rejected"}

Accepted == {rec \in LessonRecords : StatusOf(rec) = "accepted"}

AcceptedProse == {rec \in Accepted : Check[TextOf(rec)].form = "prose"}

AcceptedChecks == {rec \in Accepted : Check[TextOf(rec)].form = "item"}

\* acceptedCheckItems: unreadable checks are passed over, and of two lessons
\* with one item name the first counts.  The items are in the order of their
\* lessons and known by them.
AcceptedCheckItems ==
  [rec \in {r \in AcceptedChecks :
              \A q \in AcceptedChecks : ItemOf(q).name = ItemOf(r).name => r <= q}
     |-> ItemOf(rec)]

\* Items with one more behind them.
OneMore(items, item) ==
  [n \in DOMAIN items \cup {Len(log) + 1} |-> IF n \in DOMAIN items THEN items[n] ELSE item]

-----------------------------------------------------------------------------
(* contracts.d                                                             *)

Without(name) == Restrict(ext, DOMAIN ext \ {name})

\* The directory with these files written to it.
With(files) ==
  [f \in DOMAIN ext \cup DOMAIN files |->
     IF f \in DOMAIN files THEN files[f] ELSE ext[f]]

\* The directory once lessons.yaml holds these items; none, and it is gone.
WithLessons(items) ==
  IF DOMAIN items = {} THEN Without(LessonsFile)
  ELSE With([f \in {LessonsFile} |->
               [kinds |-> <<>>, items |-> items, unknown |-> FALSE, readable |-> TRUE]])

\* Fault: nothing is validated.
NoValidation(items) == TRUE

\* validateLessonItems: a mirror of the directory with the new lessons.yaml.
ValidateLessonItems(items) == LoadsStrictly(Plugin[plugin], WithLessons(items))

ValidatePack(pack) == LoadsStrictly(Plugin[plugin], With(pack))

-----------------------------------------------------------------------------
(* Commands.                                                               *)

Idle == [at |-> "idle"]

\* alone: nothing else has happened since the command began.
Disturbed(j) == IF j = Idle THEN j ELSE [j EXCEPT !.alone = FALSE]

Step(p, j) == job' = [q \in Proc |-> IF q = p THEN j ELSE Disturbed(job[q])]

Quiet == \A p \in Proc : job[p] = Idle

Outside == job' = [q \in Proc |-> Disturbed(job[q])]

Init ==
  /\ plugin = Shipped
  /\ ext = <<>>
  /\ rules = {}
  /\ log = <<>>
  /\ cur = 1
  /\ runs = 1
  /\ job = [p \in Proc |-> Idle]
  /\ commands = 0 /\ kills = 0 /\ edits = 0

\* A command loads the workflow before anything else.
Begin(p, j) ==
  /\ job[p] = Idle
  /\ commands < MaxCommands
  /\ commands' = commands + 1
  /\ Loads(Plugin[plugin], ext)
  /\ Step(p, j)

Room == Len(log) < MaxEvents

Event(rec, text, status) ==
  [rec |-> rec, run |-> cur, text |-> text, status |-> status]

\* Fault: numbered by how many events there are.
NumberedFromZero(t) == Event(Len(log), t, "proposed")

\* A record is known by the event that creates it.
NewLesson(t) == Event(Len(log) + 1, t, "proposed")

StatusUpdate(rec, status) == Event(rec, TextOf(rec), status)

\* wf record lesson: proposed by the agent, in one append.
RecordLesson(p, t) ==
  /\ job[p] = Idle
  /\ commands < MaxCommands
  /\ commands' = commands + 1
  /\ Loads(Plugin[plugin], ext)
  /\ cur # 0 /\ Room
  /\ log' = Append(log, NewLesson(t))
  /\ Outside
  /\ UNCHANGED <<plugin, ext, rules, cur, runs, kills, edits>>

\* The same with updates=: nothing keeps the agent from setting a status.
RecordStatus(p, rec, status) ==
  /\ job[p] = Idle
  /\ commands < MaxCommands
  /\ commands' = commands + 1
  /\ Loads(Plugin[plugin], ext)
  /\ cur # 0 /\ Room /\ RunOf(rec) = cur
  /\ log' = Append(log, StatusUpdate(rec, status))
  /\ Outside
  /\ UNCHANGED <<plugin, ext, rules, cur, runs, kills, edits>>

-----------------------------------------------------------------------------
(* LessonsSuggest: the texts the run's signals call for and no lesson has  *)
(* yet, each recorded in turn.                                             *)

Known == {TextOf(rec) : rec \in LessonRecords}

BeginSuggest(p, called) ==
  LET todo == {c \in called : Suggestible[c] \notin Known}
  IN  /\ todo # {}
      /\ Begin(p, [at |-> "suggest", todo |-> todo, alone |-> Quiet])
      /\ UNCHANGED <<plugin, ext, rules, log, cur, runs, kills, edits>>

SuggestOne(p) ==
  LET c == Min(job[p].todo)
  IN  /\ job[p].at = "suggest"
      /\ cur # 0 /\ Room
      /\ log' = Append(log, NewLesson(Suggestible[c]))
      /\ Step(p, IF job[p].todo = {c} THEN Idle
                 ELSE [job[p] EXCEPT !.todo = @ \ {c}])
      /\ UNCHANGED <<plugin, ext, rules, cur, runs, commands, kills, edits>>

-----------------------------------------------------------------------------
(* LessonsAccept, LessonsReject, LessonsApply.                             *)

\* A check has to be readable, and to load with all that is accepted.
BeginAccept(p, rec) ==
  /\ Begin(p, [at |-> "approve", rec |-> rec, status |-> "accepted", alone |-> Quiet])
  /\ \/ Check[TextOf(rec)].form = "prose"
     \/ /\ Check[TextOf(rec)].form = "item"
        /\ ValidateLessonItems(OneMore(AcceptedCheckItems, ItemOf(rec)))
  /\ UNCHANGED <<plugin, ext, rules, log, cur, runs, kills, edits>>

BeginReject(p, rec) ==
  /\ Begin(p, [at |-> "approve", rec |-> rec, status |-> "rejected", alone |-> Quiet])
  /\ UNCHANGED <<plugin, ext, rules, log, cur, runs, kills, edits>>

BeginApply(p) ==
  /\ Begin(p, [at |-> "collect", alone |-> Quiet])
  /\ UNCHANGED <<plugin, ext, rules, log, cur, runs, kills, edits>>

\* Approve("lesson", id): the approval goes to whatever run is current.
Approve(p) ==
  /\ job[p].at = "approve"
  /\ Step(p, IF cur = 0 THEN Idle ELSE [job[p] EXCEPT !.at = "record"])
  /\ UNCHANGED <<plugin, ext, rules, log, cur, runs, commands, kills, edits>>

\* Record updates only what the current run recorded.
RecordTriage(p) ==
  LET rec == job[p].rec
  IN  /\ job[p].at = "record"
      /\ \/ /\ cur # 0 /\ RunOf(rec) = cur /\ Room
            /\ log' = Append(log, StatusUpdate(rec, job[p].status))
            /\ Step(p, [at |-> "collect", alone |-> job[p].alone])
         \/ /\ cur = 0 \/ RunOf(rec) # cur
            /\ Step(p, Idle)
            /\ UNCHANGED log
      /\ UNCHANGED <<plugin, ext, rules, cur, runs, commands, kills, edits>>

\* LessonsApply reads the accepted checks and validates them, or refuses.
Collect(p) ==
  LET items == AcceptedCheckItems
  IN  /\ job[p].at = "collect"
      /\ Step(p, IF ValidateLessonItems(items)
                 THEN [at |-> "yaml", items |-> items, alone |-> job[p].alone]
                 ELSE Idle)
      /\ UNCHANGED <<plugin, ext, rules, log, cur, runs, commands, kills, edits>>

WriteYaml(p) ==
  /\ job[p].at = "yaml"
  /\ ext' = WithLessons(job[p].items)
  /\ Step(p, [at |-> "prose", alone |-> job[p].alone])
  /\ UNCHANGED <<plugin, rules, log, cur, runs, commands, kills, edits>>

ReadProse(p) ==
  /\ job[p].at = "prose"
  /\ Step(p, [at |-> "rules", prose |-> AcceptedProse, alone |-> job[p].alone])
  /\ UNCHANGED <<plugin, ext, rules, log, cur, runs, commands, kills, edits>>

\* writeProseRules: what the user wrote around the block stays, and the file
\* goes when nothing is left in it.
WriteProseRules(p) ==
  /\ job[p].at = "rules"
  /\ rules' = job[p].prose
  /\ Step(p, Idle)
  /\ UNCHANGED <<plugin, ext, log, cur, runs, commands, kills, edits>>

-----------------------------------------------------------------------------
(* PackInstall: validated as a whole, copied file by file.                 *)

BeginPack(p, pack) ==
  /\ DOMAIN pack # {} /\ DOMAIN pack \cap DOMAIN ext = {}
  /\ Begin(p, [at |-> "copy", pack |-> pack, todo |-> DOMAIN pack, alone |-> Quiet])
  /\ ValidatePack(pack)
  /\ UNCHANGED <<plugin, ext, rules, log, cur, runs, kills, edits>>

\* The files are in a map, copied in any order.
CopyFile(p) ==
  /\ job[p].at = "copy"
  /\ \E f \in job[p].todo :
       /\ ext' = With(Restrict(job[p].pack, {f}))
       /\ Step(p, IF job[p].todo = {f} THEN Idle
                  ELSE [job[p] EXCEPT !.todo = @ \ {f}])
  /\ UNCHANGED <<plugin, rules, log, cur, runs, commands, kills, edits>>

\* Killed in the write of one: the file is there and cannot be parsed.
TornCopy(p) ==
  /\ job[p].at = "copy"
  /\ kills < MaxKills
  /\ kills' = kills + 1
  /\ \E f \in job[p].todo :
       ext' = With([g \in {f} |-> [job[p].pack[f] EXCEPT !.readable = FALSE]])
  /\ Step(p, Idle)
  /\ UNCHANGED <<plugin, rules, log, cur, runs, commands, edits>>

-----------------------------------------------------------------------------
(* The world around.                                                       *)

Kill(p) ==
  /\ job[p] # Idle
  /\ kills < MaxKills
  /\ kills' = kills + 1
  /\ Step(p, Idle)
  /\ UNCHANGED <<plugin, ext, rules, log, cur, runs, commands, edits>>

\* "Remove the files to uninstall."
RemoveFile(f) ==
  /\ f \in DOMAIN ext \ {LessonsFile}
  /\ edits < MaxEdits
  /\ edits' = edits + 1
  /\ ext' = Without(f)
  /\ Outside
  /\ UNCHANGED <<plugin, rules, log, cur, runs, commands, kills>>

\* Another version of the plugin.
Upgrade(s) ==
  /\ s # plugin
  /\ edits < MaxEdits
  /\ edits' = edits + 1
  /\ plugin' = s
  /\ Outside
  /\ UNCHANGED <<ext, rules, log, cur, runs, commands, kills>>

\* A run closes, its lesson events with it; another starts.
CloseRun ==
  /\ cur # 0
  /\ cur' = 0
  /\ Outside
  /\ UNCHANGED <<plugin, ext, rules, log, runs, commands, kills, edits>>

StartRun ==
  /\ cur = 0
  /\ runs < MaxRuns
  /\ runs' = runs + 1
  /\ cur' = runs + 1
  /\ Outside
  /\ UNCHANGED <<plugin, ext, rules, log, commands, kills, edits>>

Next ==
  \/ \E p \in Proc :
       \/ \E t \in Text : RecordLesson(p, t)
       \/ \E rec \in LessonRecords :
            \/ \E status \in {"accepted", "rejected"} : RecordStatus(p, rec, status)
            \/ BeginAccept(p, rec)
            \/ BeginReject(p, rec)
       \/ \E called \in SUBSET DOMAIN Suggestible : BeginSuggest(p, called)
       \/ SuggestOne(p)
       \/ BeginApply(p)
       \/ Approve(p)
       \/ RecordTriage(p)
       \/ Collect(p)
       \/ WriteYaml(p)
       \/ ReadProse(p)
       \/ WriteProseRules(p)
       \/ \E pack \in Pack : BeginPack(p, pack)
       \/ CopyFile(p)
       \/ TornCopy(p)
       \/ Kill(p)
  \/ \E f \in DOMAIN ext : RemoveFile(f)
  \/ \E s \in DOMAIN Plugin : Upgrade(s)
  \/ CloseRun
  \/ StartRun

Spec == Init /\ [][Next]_vars

-----------------------------------------------------------------------------
(* Properties.                                                             *)

\* p ends its command in this step, and not because it was killed.
Finishes(p) == job[p] # Idle /\ job'[p] = Idle /\ kills' = kills

\* p is disturbed by nothing, up to and in this step.
Alone(p) ==
  job[p] # Idle /\ job[p].alone /\ (job'[p] = Idle \/ job'[p].alone)

Recorded == {e.rec : e \in Range(log)}

LessonEvent ==
  [rec : 1..MaxEvents, run : 1..MaxRuns, text : Text,
   status : {"proposed", "accepted", "rejected"}]

CheckItem == {Check[t].item : t \in {u \in Text : Check[u].form = "item"}}

Job ==
  {Idle}
    \cup [at : {"suggest"}, todo : SUBSET DOMAIN Suggestible, alone : BOOLEAN]
    \cup [at : {"approve", "record"}, rec : 1..MaxEvents,
          status : {"accepted", "rejected"}, alone : BOOLEAN]
    \cup [at : {"collect", "prose"}, alone : BOOLEAN]
    \cup [at : {"yaml"}, items : UNION {[K -> CheckItem] : K \in SUBSET (1..MaxEvents)},
          alone : BOOLEAN]
    \cup [at : {"rules"}, prose : SUBSET (1..MaxEvents), alone : BOOLEAN]
    \cup [at : {"copy"}, pack : Pack, todo : SUBSET UNION {DOMAIN pack : pack \in Pack},
          alone : BOOLEAN]

TypeOK ==
  /\ plugin \in DOMAIN Plugin
  /\ log \in Seq(LessonEvent) /\ Len(log) <= MaxEvents
  /\ rules \subseteq 1..Len(log)
  /\ cur \in {0, runs} /\ runs \in 1..MaxRuns
  /\ job \in [Proc -> Job]

\* A command that ran to its end with nothing going on beside it leaves a
\* workflow that loads, whatever was killed, removed or replaced before it:
\* the next command is not locked out by what this one wrote.
CommandsLeaveItLoading ==
  [][\A p \in Proc :
       Alone(p) /\ Finishes(p) => Loads(Plugin[plugin'], ext')]_vars

\* Once such an acceptance, rejection or apply is through, the two files hold
\* the accepted lessons of all runs and no other, however an earlier command
\* left them.
ApplyDelivers ==
  [][\A p \in Proc :
       job[p].at = "rules" /\ Alone(p) /\ Finishes(p) =>
         /\ rules' = {rec \in Recorded :
                        StatusOf(rec) = "accepted" /\ Check[TextOf(rec)].form = "prose"}
         /\ (IF LessonsFile \in DOMAIN ext THEN Names(ext[LessonsFile].items) ELSE {}) =
            {ItemOf(rec).name : rec \in
               {r \in Recorded :
                  StatusOf(r) = "accepted" /\ Check[TextOf(r)].form = "item"}}]_vars

\* Whatever overlaps and wherever commands are killed, no check is enforced
\* and no rule written that no one ever accepted.
NothingUnaccepted ==
  LET ever == {e.rec : e \in {f \in Range(log) : f.status = "accepted"}}
  IN  /\ rules \subseteq ever
      /\ LessonsFile \in DOMAIN ext =>
           \A n \in DOMAIN ext[LessonsFile].items :
             \E rec \in ever : /\ Check[TextOf(rec)].form = "item"
                               /\ ItemOf(rec) = ext[LessonsFile].items[n]

\* A lesson once proposed, in whatever run and with whatever answer, is not
\* proposed again by a suggest that nobody disturbs.
NotProposedAgain ==
  [][\A p \in Proc :
       job[p].at = "suggest" /\ Alone(p) /\ log' # log =>
         \A n \in DOMAIN log : log[n].text # log'[Len(log')].text]_vars

-----------------------------------------------------------------------------
(* Hypothesis of a theorem.                                                *)

\* No pack brings a lessons.yaml of its own.  PackInstall puts the pack's name
\* before every file name that does not have it, so only one called "lessons"
\* could.
PacksStayApart == \A pack \in Pack : LessonsFile \notin DOMAIN pack

=============================================================================
