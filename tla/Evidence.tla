------------------------------ MODULE Evidence ------------------------------
(***************************************************************************)
(* Reviewer verdicts: how the SubagentStop gate captures them              *)
(* (gates.Verdict), how the main agent may add to them by hand             *)
(* (wf record verdict, wf record disposition), and which of them a phase   *)
(* contract accepts (contracts, the verdict-in predicate with its sticky   *)
(* automatic evidence).                                                    *)
(*                                                                         *)
(* One gating agent, the adversary, whose mode (the verdict's scope)       *)
(* depends on the phase.  Several of its subagents may run at once, each   *)
(* reported by a hook process of its own; they share one counter file,     *)
(* local/verdict-attempts.json, which a hook reads, then replaces.         *)
(*                                                                         *)
(* A verdict is what the fold of records makes of its record and the       *)
(* updates of it.  A verdict of another agent, or with a scope no contract *)
(* asks the adversary for, is filed Elsewhere.  All other items of a       *)
(* contract are met or not as they like.                                   *)
(***************************************************************************)
EXTENDS Naturals, Sequences, FiniteSetsExt

CONSTANTS
  Agent,     \* subagents that may be spawned, each once
  PhaseSeq,  \* the phases with the adversary's part in them, in order
  Scope,     \* phase -> the adversary's mode there
  RiskyOK,   \* risky_with_dispositions: the critic's items have it
  Word,      \* what verdicts say that name their mode, another scope or none
  Said,      \* the statuses the main agent gives by hand
  MaxManual  \* bound: records the main agent makes by hand

Modes     == {Scope[PhaseSeq[n]] : n \in DOMAIN PhaseSeq}
Elsewhere == "elsewhere"
Scopes    == Modes \cup {Elsewhere}

Status == {"clean", "risky", "changes-required"}
Named  == {"mode", "other", "none"}

ASSUME EvidenceAssumption ==
  /\ Agent # {} /\ RiskyOK \in BOOLEAN /\ Elsewhere \notin Modes
  /\ PhaseSeq \in Seq(DOMAIN Scope) /\ Len(PhaseSeq) >= 3
  /\ Word \in [Named -> SUBSET (Status \cup {"contradictory"})]
  /\ Said \subseteq Status
  /\ MaxManual \in Nat

VARIABLES
  phase,     \* position in PhaseSeq, 0 when there is no run
  verdicts,  \* verdict records of the run, in stream order
  reviewer,  \* subagent -> where it is, and the mode it was spawned in
  attempts,  \* local/verdict-attempts.json: subagent -> blocks so far
  copy,      \* subagent -> the counter file as its hook read it
  manual,    \* records made by hand
  blocks,    \* history: subagent -> how often it was sent back in this run
             \*   for want of a verdict that parses, up to three
  lost       \* history: subagents a count of which another's hook undid

vars == <<phase, verdicts, reviewer, attempts, copy, manual, blocks, lost>>

Open == phase # 0
Mode == Scope[PhaseSeq[phase]]

NoAttempts == [a \in Agent |-> 0]

Init ==
  /\ phase = 0
  /\ verdicts = <<>>
  /\ reviewer = [a \in Agent |-> [at |-> "unborn", mode |-> "none"]]
  /\ attempts = NoAttempts
  /\ copy = [a \in Agent |-> NoAttempts]
  /\ manual = 0
  /\ blocks = [a \in Agent |-> 0]
  /\ lost = {}

-----------------------------------------------------------------------------
(* Effective verdicts.                                                     *)

Pass == {"clean"}                          \* clean, safe, n/a
Fail == {"changes-required", "unparsed"}   \* and unsafe

\* The records of the agent with this scope: positions in the stream.
Of(s) == {i \in DOMAIN verdicts : verdicts[i].scope = s}

Newest(S) == Max(S)

Captured(S) == {i \in S : verdicts[i].auto}

\* Fault: the last word counts, whoever spoke it.
LastVerdict(s) == Newest(Of(s))

\* A manual record does not supersede a captured failing verdict unless a
\* disposition refers to that.
EffectiveVerdict(s) ==
  LET last == Newest(Of(s))
      auto == Captured(Of(s))
  IN  IF \/ verdicts[last].auto
         \/ auto = {}
         \/ verdicts[Newest(auto)].status \notin Fail
         \/ verdicts[Newest(auto)].disposed
      THEN last ELSE Newest(auto)

Disposed(s) == \E i \in Of(s) : verdicts[i].disposed

\* Fault: whether capture works is not asked.
ManualAccepted(s) == TRUE

\* A verdict by hand counts only where no hook has captured any verdict in
\* this run, or a disposition stands for it.
ManualStands(s) == Captured(DOMAIN verdicts) = {} \/ Disposed(s)

VerdictIn(s) ==
  /\ Of(s) # {}
  /\ LET v == verdicts[EffectiveVerdict(s)]
     IN  /\ v.auto \/ ManualStands(s)
         /\ \/ v.status \in Pass
            \/ v.status = "risky" /\ RiskyOK /\ v.disposed

-----------------------------------------------------------------------------
(* The run.                                                                *)

End == Len(PhaseSeq)

StartRun ==
  /\ ~ Open
  /\ phase' = 1
  /\ UNCHANGED <<verdicts, reviewer, attempts, copy, manual, blocks, lost>>

\* The contract's verdict item is met.
ExitPhase ==
  /\ Open /\ phase < End
  /\ VerdictIn(Mode)
  /\ phase' = phase + 1
  /\ UNCHANGED <<verdicts, reviewer, attempts, copy, manual, blocks, lost>>

\* A loop leaves the verdicts as they are.  The cap on loops is left out.
Loop ==
  /\ phase = End - 1
  /\ phase' = End - 2
  /\ UNCHANGED <<verdicts, reviewer, attempts, copy, manual, blocks, lost>>

\* The records are archived and the counter file is removed.
CloseRun ==
  /\ phase = End
  /\ phase' = 0
  /\ verdicts' = <<>>
  /\ attempts' = NoAttempts
  /\ blocks' = [a \in Agent |-> 0] /\ lost' = {}
  /\ UNCHANGED <<reviewer, copy, manual>>

-----------------------------------------------------------------------------
(* By hand.                                                                *)

ByHand == Open /\ manual < MaxManual /\ manual' = manual + 1

\* wf record verdict: what contradicts itself is refused.
RecordVerdict(s, status) ==
  /\ ByHand
  /\ verdicts' = Append(verdicts, [auto |-> FALSE, scope |-> s, status |-> status,
                                   disposed |-> FALSE, edited |-> FALSE,
                                   captured |-> "none", filed |-> "none"])
  /\ UNCHANGED <<phase, reviewer, attempts, copy, blocks, lost>>

\* wf record verdict updates=<id>: every field it has is folded over the
\* record, agent and scope as well as status.  The record keeps its place, and
\* stays auto.
UpdateVerdict(i, s, status) ==
  /\ ByHand
  /\ verdicts' = [verdicts EXCEPT ![i].scope = s, ![i].status = status,
                                  ![i].edited = TRUE]
  /\ UNCHANGED <<phase, reviewer, attempts, copy, blocks, lost>>

\* wf record disposition --ref <id>
Dispose(i) ==
  /\ ByHand
  /\ ~ verdicts[i].disposed
  /\ verdicts' = [verdicts EXCEPT ![i].disposed = TRUE]
  /\ UNCHANGED <<phase, reviewer, attempts, copy, blocks, lost>>

\* wf record disposition updates=<id> ref=<another>: what it stood for it
\* stands for no more.
MoveDisposition(i, j) ==
  /\ ByHand
  /\ verdicts[i].disposed /\ ~ verdicts[j].disposed
  /\ verdicts' = [verdicts EXCEPT ![i].disposed = FALSE, ![j].disposed = TRUE]
  /\ UNCHANGED <<phase, reviewer, attempts, copy, blocks, lost>>

-----------------------------------------------------------------------------
(* Reviewers and their hooks.                                              *)

Spawn(a) ==
  /\ Open
  /\ reviewer[a].at = "unborn"
  /\ reviewer' = [reviewer EXCEPT ![a] = [at |-> "working", mode |-> Mode]]
  /\ UNCHANGED <<phase, verdicts, attempts, copy, manual, blocks, lost>>

Ends(a) == reviewer' = [reviewer EXCEPT ![a] = [at |-> "ended", mode |-> "none"]]

\* Fault: the reviewer's word is taken as it is.
NotDowngraded(word) == word

\* The reviewer's own word, but clean with findings is changes-required.
Downgraded(word) ==
  IF word = "contradictory" THEN "changes-required" ELSE word

Record(a, scope, status) ==
  verdicts' = Append(verdicts, [auto |-> TRUE, scope |-> scope, status |-> status,
                                disposed |-> FALSE, edited |-> FALSE,
                                captured |-> status, filed |-> scope])

\* The scope the verdict names, its own mode or another, or, where it names
\* none, the mode of the phase the run is in when the reviewer ends.
ScopeOf(a, named) ==
  CASE named = "mode"  -> reviewer[a].mode
    [] named = "other" -> Elsewhere
    [] named = "none"  -> Mode

\* A verdict that parses, of a status the vocabulary has.
Capture(a, word, named) ==
  /\ reviewer[a].at = "working"
  /\ Open
  /\ Record(a, ScopeOf(a, named), Downgraded(word))
  /\ Ends(a)
  /\ UNCHANGED <<phase, attempts, copy, manual, blocks, lost>>

\* A verdict that parses and Record refuses: its status is some other word
\* (`approved`), or there is no run.  The reviewer is sent back, which no
\* counter counts.
Refuse(a) ==
  /\ reviewer[a].at = "working"
  /\ reviewer' = [reviewer EXCEPT ![a].at = "refused"]
  /\ UNCHANGED <<phase, verdicts, attempts, copy, manual, blocks, lost>>

\* What was refused works on.
GoOn(a) ==
  /\ reviewer[a].at = "refused"
  /\ reviewer' = [reviewer EXCEPT ![a].at = "working"]
  /\ UNCHANGED <<phase, verdicts, attempts, copy, manual, blocks, lost>>

\* A verdict that does not parse: the counter file is read ...
ReadAttempts(a) ==
  /\ reviewer[a].at = "working"
  /\ reviewer' = [reviewer EXCEPT ![a].at = "reading"]
  /\ copy' = [copy EXCEPT ![a] = attempts]
  /\ UNCHANGED <<phase, verdicts, attempts, manual, blocks, lost>>

UpTo(n, max) == IF n < max THEN n ELSE max

\* Fault: the block is not counted.
NotCounted(a) == copy[a]

\* Above two only "more than two" matters.
OneMore(a) == [copy[a] EXCEPT ![a] = UpTo(copy[a][a] + 1, 3)]

\* Fault: one retry too many.
ThirdRetry(n) == n <= 3

\* The reviewer is sent back to give a verdict twice.
Retry(n) == n <= 2

\* ... and replaced, the reviewer sent back or, its retries used up, let go
\* with `unparsed` recorded.  With no run to record that in it is refused.
WriteAttempts(a) ==
  /\ reviewer[a].at = "reading"
  /\ attempts' = OneMore(a)
  /\ copy' = [copy EXCEPT ![a] = NoAttempts]
  /\ lost' = lost \cup {b \in Agent \ {a} : attempts'[b] < attempts[b]}
  /\ \/ /\ Retry(attempts'[a])
        /\ reviewer' = [reviewer EXCEPT ![a].at = "working"]
        /\ blocks' = [blocks EXCEPT ![a] = UpTo(@ + 1, 3)]
        /\ UNCHANGED verdicts
     \/ /\ ~ Retry(attempts'[a]) /\ Open
        /\ Ends(a)
        /\ Record(a, Mode, "unparsed")
        /\ UNCHANGED blocks
     \/ /\ ~ Retry(attempts'[a]) /\ ~ Open
        /\ reviewer' = [reviewer EXCEPT ![a].at = "refused"]
        /\ UNCHANGED <<verdicts, blocks>>
  /\ UNCHANGED <<phase, manual>>

Finish(a) ==
  \/ \E named \in Named : \E word \in Word[named] : Capture(a, word, named)
  \/ Refuse(a)
  \/ GoOn(a)
  \/ ReadAttempts(a)
  \/ WriteAttempts(a)

Next ==
  \/ StartRun
  \/ ExitPhase
  \/ Loop
  \/ CloseRun
  \/ \E s \in Modes, status \in Said : RecordVerdict(s, status)
  \/ \E i \in DOMAIN verdicts :
       \/ \E s \in Scopes, status \in Said : UpdateVerdict(i, s, status)
       \/ Dispose(i)
       \/ \E j \in DOMAIN verdicts : MoveDisposition(i, j)
  \/ \E a \in Agent : Spawn(a) \/ Finish(a)

Spec == Init /\ [][Next]_vars

\* A reviewer comes to its end again and again, as any subagent does.
Fairness == \A a \in Agent : WF_vars(Finish(a))

FairSpec == Spec /\ Fairness

-----------------------------------------------------------------------------
(* Properties.                                                             *)

Verdict ==
  [auto : BOOLEAN, scope : Scopes, status : Status \cup Fail,
   disposed : BOOLEAN, edited : BOOLEAN,
   captured : {"none"} \cup Status \cup Fail,
   filed : Scopes \cup {"none"}]

At == {"unborn", "working", "refused", "reading", "ended"}

TypeOK ==
  /\ phase \in 0..End
  /\ \A i \in DOMAIN verdicts : verdicts[i] \in Verdict
  /\ reviewer \in [Agent -> [at : At, mode : Modes \cup {"none"}]]
  /\ attempts \in [Agent -> 0..3]
  /\ copy \in [Agent -> [Agent -> 0..3]]
  /\ manual \in 0..MaxManual
  /\ blocks \in [Agent -> 0..3]
  /\ lost \subseteq Agent

\* Once a hook has captured a verdict in the run, the main agent's own word
\* opens no gate: behind a verdict item that is met stands a passing capture
\* of that scope, an update of a captured record, or a disposition in it.
GateNeedsCapture ==
  \A s \in Modes :
    VerdictIn(s) /\ Captured(DOMAIN verdicts) # {} =>
      \/ \E i \in Captured(Of(s)) : verdicts[i].captured \in Pass \/ verdicts[i].edited
      \/ Disposed(s)

\* What the hooks filed under this scope, whatever updates made of it.
FiledIn(s) == {i \in Captured(DOMAIN verdicts) : verdicts[i].filed = s}

\* The last of these fails, and nobody disposed of it or updated it.
FailStands(s) ==
  /\ FiledIn(s) # {}
  /\ LET fail == verdicts[Newest(FiledIn(s))]
     IN  fail.captured \in Fail /\ ~ fail.disposed /\ ~ fail.edited

\* Captured later for something else, and brought into this scope by hand.
MovedInSince(s) ==
  {i \in Captured(Of(s)) : i > Newest(FiledIn(s)) /\ verdicts[i].edited
                           /\ verdicts[i].filed # s}

\* The last verdict captured for a scope, when it fails (also an unparsed one),
\* is not got past by hand, whatever is recorded, updated or disposed of: only
\* by a disposition of it, an update of it, or an update that moves into its
\* scope a verdict that a hook captured later elsewhere.
FailSticks ==
  \A s \in Modes : FailStands(s) /\ VerdictIn(s) => MovedInSince(s) # {}

\* A reviewer that gives no verdict that parses is sent back for one twice in a
\* run at most, unless the hook of another one wrote its count away.  How often
\* a verdict that does parse is refused is not counted, and has no bound.
BlockedTwice == \A a \in Agent \ lost : blocks[a] <= 2

\* No wedge: within a run every reviewer comes to its end, whether or not it
\* ever gives a verdict that parses, unless its count was written away or its
\* verdicts parse and are refused again and again.
ReviewsEnd ==
  \A a \in Agent :
    \/ reviewer[a].at = "working" ~> reviewer[a].at = "ended" \/ ~ Open \/ a \in lost
    \/ []<>(reviewer[a].at = "refused")

=============================================================================
