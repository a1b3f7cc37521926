------------------------------- MODULE Ledger -------------------------------
(***************************************************************************)
(* The event log of internal/store, line by line: Append with its healing  *)
(* of a torn tail and its hash chain, the close transaction of ArchiveRun, *)
(* and VerifyChain, which wf doctor reports from.                          *)
(*                                                                         *)
(* Every wf command is a process of its own.  It may die between any two   *)
(* steps, and in the middle of a write.  Store.Lock exists but no command  *)
(* takes it, so nothing here excludes two processes from one another: one  *)
(* element in Proc is the single writer the documentation promises, two    *)
(* are what the code allows.                                               *)
(***************************************************************************)
EXTENDS Naturals, Sequences, FiniteSets, SequencesExt

CONSTANTS
  Proc,        \* wf processes that may run at the same time
  MaxRuns,     \* bound: runs started
  MaxEvents,   \* bound: appends begun
  MaxCrashes   \* bound: processes killed

ASSUME LedgerAssumption ==
  /\ Proc # {}
  /\ MaxRuns \in Nat /\ MaxEvents \in Nat /\ MaxCrashes \in Nat

VARIABLES
  lines,     \* log/events.jsonl
  inode,     \* which file that name leads to: a rename replaces it
  archive,   \* run -> the events in runs/<id>/events.jsonl
  snap,      \* id in state/run.json, 0 when there is none
  job,       \* process -> the command it executes
  minted,    \* runs started
  events,    \* appends begun
  crashes,   \* processes killed
  acked      \* history: events whose Append returned

vars == <<lines, inode, archive, snap, job, minted, events, crashes, acked>>

Run == 1..MaxRuns

-----------------------------------------------------------------------------
(* Lines and their chain.                                                  *)

\* A line holds an event (ev, run, kind) and the hash of the line before it;
\* a write cut short leaves it unparseable, unterminated or both.
Line(e, prev, whole, ended) ==
  [ev |-> e.ev, run |-> e.run, kind |-> e.kind,
   prev |-> prev, whole |-> whole, ended |-> ended]

NoHash == <<>>

\* chainHash: of the raw line, its prev included, so that a hash stands for
\* all that is chained before it and for what the line itself holds.
Hash(l) == Append(l.prev, <<l.ev, l.whole>>)

TailHash(ls) == IF ls = <<>> THEN NoHash ELSE Hash(Last(ls))

\* Fault: a torn tail is left as it is.
NotHealed(ls) == ls

\* A newline after an unterminated last line.
Healed(ls) ==
  IF ls = <<>> THEN ls ELSE [ls EXCEPT ![Len(ls)].ended = TRUE]

\* O_APPEND: what is written after an unterminated line becomes part of it,
\* and the whole unreadable.
Appended(ls, l) ==
  IF ls # <<>> /\ ~ Last(ls).ended
  THEN [ls EXCEPT ![Len(ls)].whole = FALSE, ![Len(ls)].ended = l.ended]
  ELSE Append(ls, l)

\* scan: unparseable lines are skipped.
Parsed(ls) == {n \in DOMAIN ls : ls[n].whole}

Holds(ls, e) == \E n \in Parsed(ls) : ls[n].ev = e.ev

\* The lines at the positions K, in their order.
Nth(K, n) == CHOOSE k \in K : Cardinality({j \in K : j <= k}) = n
Kept(ls, K) == [n \in 1..Cardinality(K) |-> ls[Nth(K, n)]]

\* Fault: rewriting keeps the prev the event was read with.
CopiedOver(ls) == [n \in DOMAIN ls |-> [ls[n] EXCEPT !.ended = TRUE]]

\* writeEvents: every event on a line of its own, the chain anchored anew.
Rewritten(ls) ==
  [n \in DOMAIN ls |->
     Line(ls[n], [m \in 1..(n - 1) |-> <<ls[m].ev, TRUE>>], TRUE, TRUE)]

\* What VerifyChain calls a break: a line that names another predecessor, or
\* none after lines that did.
Break(ls, n) ==
  /\ ls[n].whole
  /\ IF ls[n].prev = NoHash
     THEN \E m \in 1..(n - 1) : ls[m].whole /\ ls[m].prev # NoHash
     ELSE ls[n].prev # IF n = 1 THEN NoHash ELSE Hash(ls[n - 1])

-----------------------------------------------------------------------------
(* Commands.                                                               *)

Idle == [at |-> "idle"]

\* The command cmd of p, on run r, with the events it is to append.
Command(cmd, r, kinds) ==
  [at |-> "open", cmd |-> cmd, run |-> r, todo |-> kinds]

Init ==
  /\ lines = <<>>
  /\ inode = 0
  /\ archive = [r \in Run |-> <<>>]
  /\ snap = 0
  /\ job = [p \in Proc |-> Idle]
  /\ minted = 0
  /\ events = 0
  /\ crashes = 0
  /\ acked = {}

Goto(p, at) == job' = [job EXCEPT ![p].at = at]
Done(p)     == job' = [job EXCEPT ![p] = Idle]

\* RunStart: the start and enter events, then the snapshot.
BeginStart(p) ==
  /\ job[p].at = "idle"
  /\ snap = 0
  /\ minted < MaxRuns
  /\ minted' = minted + 1
  /\ job' = [job EXCEPT ![p] = Command("start", minted + 1, <<"start", "enter">>)]
  /\ UNCHANGED <<lines, inode, archive, snap, events, crashes, acked>>

\* A record of the current run; an open followup outlives it.
BeginRecord(p, kind) ==
  /\ job[p].at = "idle"
  /\ snap # 0
  /\ job' = [job EXCEPT ![p] = Command("record", snap, <<kind>>)]
  /\ UNCHANGED <<lines, inode, archive, snap, minted, events, crashes, acked>>

\* RunClose, its phase check passed.
BeginClose(p) ==
  /\ job[p].at = "idle"
  /\ snap # 0
  /\ job' = [job EXCEPT ![p] = Command("close", snap, <<"close">>)]
  /\ UNCHANGED <<lines, inode, archive, snap, minted, events, crashes, acked>>

-----------------------------------------------------------------------------
(* Append: open and heal, read the last line, write.                       *)

OpenLog(p) ==
  /\ job[p].at = "open"
  /\ events < MaxEvents
  /\ events' = events + 1
  /\ lines' = Healed(lines)
  /\ job' = [job EXCEPT ![p] =
              [at |-> "write", cmd |-> @.cmd, run |-> @.run, todo |-> @.todo,
               fd |-> inode, ev |-> events + 1, prev |-> TailHash(lines')]]
  /\ UNCHANGED <<inode, archive, snap, minted, crashes, acked>>

\* Fault: an event is stamped with the saved run, not with its command's.
EventOfSaved(j) == [ev |-> j.ev, run |-> snap, kind |-> Head(j.todo)]

EventOf(j) == [ev |-> j.ev, run |-> j.run, kind |-> Head(j.todo)]

\* What is written to a file the name no longer leads to is not seen again.
Write(p, whole, ended) ==
  LET j == job[p]
  IN  lines' = IF j.fd = inode
               THEN Appended(lines, Line(EventOf(j), j.prev, whole, ended))
               ELSE lines

\* Where a command goes on once its events are appended.
After(cmd) ==
  CASE cmd = "start"  -> "save"
    [] cmd = "record" -> "idle"
    [] cmd = "close"  -> "scan"

WriteLine(p) ==
  /\ job[p].at = "write"
  /\ Write(p, TRUE, TRUE)
  /\ acked' = acked \cup {EventOf(job[p])}
  /\ LET j    == job[p]
         rest == Tail(j.todo)
         at   == IF rest # <<>> THEN "open" ELSE After(j.cmd)
     IN  job' = [job EXCEPT ![p] =
                  IF at = "idle" THEN Idle
                  ELSE [at |-> at, cmd |-> j.cmd, run |-> j.run, todo |-> rest]]
  /\ UNCHANGED <<inode, archive, snap, minted, events, crashes>>

\* Killed in the write: part of the line is there, or all but its newline.
TornWrite(p) ==
  /\ job[p].at = "write"
  /\ crashes < MaxCrashes
  /\ crashes' = crashes + 1
  /\ \E whole \in BOOLEAN : Write(p, whole, FALSE)
  /\ Done(p)
  /\ UNCHANGED <<inode, archive, snap, minted, events, acked>>

-----------------------------------------------------------------------------
(* The end of RunStart and the close transaction.                          *)

SaveSnapshot(p) ==
  /\ job[p].at = "save"
  /\ snap' = job[p].run
  /\ Done(p)
  /\ UNCHANGED <<lines, inode, archive, minted, events, crashes, acked>>

\* Fault: open followups leave with their run.
KeepNothing(l) == FALSE

\* keepLive
KeepLive(l) == l.kind = "followup"

Mine(l, r) == l.run = r /\ ~ KeepLive(l)

\* Fault: what stays is what belongs to other runs.
OtherRuns(l, r) == l.run # r

Rest(l, r) == ~ Mine(l, r)

\* Read the log and split it.
Scan(p) ==
  /\ job[p].at = "scan"
  /\ LET r == job[p].run
     IN  job' = [job EXCEPT ![p] =
                  [at |-> "archive", cmd |-> "close", run |-> r,
                   mine |-> Kept(lines, {n \in Parsed(lines) : Mine(lines[n], r)}),
                   rest |-> Kept(lines, {n \in Parsed(lines) : Rest(lines[n], r)})]]
  /\ UNCHANGED <<lines, inode, archive, snap, minted, events, crashes, acked>>

\* O_TRUNC, then the run's events.
WriteArchive(p) ==
  /\ job[p].at = "archive"
  /\ archive' = [archive EXCEPT ![job[p].run] = Rewritten(job[p].mine)]
  /\ Goto(p, "verify")
  /\ UNCHANGED <<lines, inode, snap, minted, events, crashes, acked>>

\* Killed in it: only the first of them are there.
TornArchive(p) ==
  /\ job[p].at = "archive"
  /\ crashes < MaxCrashes
  /\ crashes' = crashes + 1
  /\ \E n \in 0..(Len(job[p].mine) - 1) :
       archive' = [archive EXCEPT ![job[p].run] =
                    Rewritten(SubSeq(job[p].mine, 1, n))]
  /\ Done(p)
  /\ UNCHANGED <<lines, inode, snap, minted, events, acked>>

\* The archive has the lines it should.
Verify(p) ==
  /\ job[p].at = "verify"
  /\ IF Len(archive[job[p].run]) = Len(job[p].mine)
     THEN Goto(p, "compact") ELSE Done(p)
  /\ UNCHANGED <<lines, inode, archive, snap, minted, events, crashes, acked>>

\* The rest is written aside and renamed over the log.
Compact(p) ==
  /\ job[p].at = "compact"
  /\ lines' = Rewritten(job[p].rest)
  /\ inode' = inode + 1
  /\ Goto(p, "clear")
  /\ UNCHANGED <<archive, snap, minted, events, crashes, acked>>

ClearRun(p) ==
  /\ job[p].at = "clear"
  /\ snap' = 0
  /\ Done(p)
  /\ UNCHANGED <<lines, inode, archive, minted, events, crashes, acked>>

\* Killed between two steps.
Crash(p) ==
  /\ job[p].at # "idle"
  /\ crashes < MaxCrashes
  /\ crashes' = crashes + 1
  /\ Done(p)
  /\ UNCHANGED <<lines, inode, archive, snap, minted, events, acked>>

Next ==
  \E p \in Proc :
    \/ BeginStart(p)
    \/ \E kind \in {"record", "followup"} : BeginRecord(p, kind)
    \/ BeginClose(p)
    \/ OpenLog(p)
    \/ WriteLine(p)
    \/ TornWrite(p)
    \/ SaveSnapshot(p)
    \/ Scan(p)
    \/ WriteArchive(p)
    \/ TornArchive(p)
    \/ Verify(p)
    \/ Compact(p)
    \/ ClearRun(p)
    \/ Crash(p)

Spec == Init /\ [][Next]_vars

-----------------------------------------------------------------------------
(* Properties.                                                             *)

Kind == {"start", "enter", "record", "followup", "close"}

HashType == Seq((1..MaxEvents) \X BOOLEAN)

LineType ==
  [ev : 1..MaxEvents, run : Run, kind : Kind, prev : HashType,
   whole : BOOLEAN, ended : BOOLEAN]

\* The command of a process: nothing; its events still to be appended; one of
\* them about to be written; all of them appended; the split of the log.
Job ==
  [at : {"idle"}]
    \cup [at : {"open"}, cmd : {"start", "record", "close"}, run : Run,
          todo : Seq(Kind) \ {<<>>}]
    \cup [at : {"write"}, cmd : {"start", "record", "close"}, run : Run,
          todo : Seq(Kind) \ {<<>>}, fd : Nat, ev : 1..MaxEvents, prev : HashType]
    \cup [at : {"save", "scan"}, cmd : {"start", "close"}, run : Run, todo : {<<>>}]
    \cup [at : {"archive", "verify", "compact", "clear"}, cmd : {"close"}, run : Run,
          mine : Seq(LineType), rest : Seq(LineType)]

TypeOK ==
  /\ lines \in Seq(LineType)
  /\ inode \in Nat
  /\ archive \in [Run -> Seq(LineType)]
  /\ snap \in 0..MaxRuns /\ minted \in 0..MaxRuns
  /\ job \in [Proc -> Job]
  /\ events \in 0..MaxEvents /\ crashes \in 0..MaxCrashes
  /\ acked \subseteq [ev : 1..MaxEvents, run : Run, kind : Kind]

\* wf doctor does not accuse the user: with nobody but the engine writing the
\* log VerifyChain reports no break, whatever was torn, healed or compacted.
ChainIntact == \A n \in DOMAIN lines : ~ Break(lines, n)

\* An event whose Append returns is readable, whatever write was cut short
\* before it.
AckedMeansReadable ==
  [][\A e \in acked' \ acked : Holds(lines', e)]_vars

\* No step takes an acknowledged event out of the log before the archive of
\* its run holds it.
MovedNotDropped ==
  [][\A e \in acked :
       Holds(lines, e) => Holds(lines', e) \/ Holds(archive'[e.run], e)]_vars

\* An open followup stays where the next run reads it.
FollowupsStayLive ==
  \A e \in acked : e.kind = "followup" => Holds(lines, e)

\* Nothing acknowledged is ever lost.
AckedIsReadable ==
  \A e \in acked : Holds(lines, e) \/ Holds(archive[e.run], e)

-----------------------------------------------------------------------------
(* Hypothesis of the theorems.                                             *)

\* One wf process at a time, as the documentation has it and Store.Lock, which
\* no command takes, would ensure.
OneWriter == \A p, q \in Proc : p = q

=============================================================================
