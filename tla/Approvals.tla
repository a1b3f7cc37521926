------------------------------ MODULE Approvals ------------------------------
(***************************************************************************)
(* wf approve (Ctl.Approve): how an approval finds the answer it rests on, *)
(* and the single-use code a project may ask for (challenge.go).           *)
(*                                                                         *)
(* The hook of AskUserQuestion records the user's answers, with the gate   *)
(* the question is about where it can tell.  The code lies in one file,    *)
(* local/challenge.json, for one gate at a time; the user sees it in the   *)
(* status line and types it into an answer, now or later.  Commands take   *)
(* no lock: each works on the log as it was when it began and may be       *)
(* killed between any two steps.                                           *)
(***************************************************************************)
EXTENDS Naturals, Sequences, FiniteSetsExt

CONSTANTS
  Proc,        \* wf processes that may run at the same time
  Gate,        \* approval gates
  NoTopic,     \* no gate, or the words of several, in a question
  MaxAnswers,  \* bound: answers given
  MaxAsked,    \* bound: approve commands begun
  MaxKills     \* bound: processes killed

ASSUME ApprovalsAssumption ==
  /\ Proc # {} /\ Gate # {} /\ NoTopic \notin Gate
  /\ {MaxAnswers, MaxAsked, MaxKills} \subseteq Nat

VARIABLES
  mode,       \* the project's config: "open", "hardened" or "challenge"
  answers,    \* user-answer records of the log: [topic, code], code 0 for none
  approvals,  \* its approvals: [gate, ref, upto], upto the answers before it
  challenge,  \* the pending code and its gate
  madeFor,    \* the codes made so far: the gate each was made for
  job,        \* process -> the approve command it executes
  commands,   \* approve commands begun
  kills       \* processes killed

vars == <<mode, answers, approvals, challenge, madeFor, job, commands, kills>>

NoChallenge == [gate |-> NoTopic, code |-> 0]

Idle == [at |-> "idle"]

Init ==
  /\ mode \in {"open", "hardened", "challenge"}
  /\ answers = <<>> /\ approvals = <<>>
  /\ challenge = NoChallenge
  /\ madeFor = <<>>
  /\ job = [p \in Proc |-> Idle]
  /\ commands = 0 /\ kills = 0

-----------------------------------------------------------------------------

\* alone: nothing else has happened since the command began.
Disturbed(j) == IF j = Idle THEN j ELSE [j EXCEPT !.alone = FALSE]

Step(p, j) == job' = [q \in Proc |-> IF q = p THEN j ELSE Disturbed(job[q])]

\* CaptureQuestion: an answer with a code the user has seen, or none.
CaptureQuestion(topic, code) ==
  /\ Len(answers) < MaxAnswers
  /\ answers' = Append(answers, [topic |-> topic, code |-> code])
  /\ job' = [q \in Proc |-> Disturbed(job[q])]
  /\ UNCHANGED <<mode, approvals, challenge, madeFor, commands, kills>>

-----------------------------------------------------------------------------
(* The answers an approval of a gate may rest on: of those read, the ones  *)
(* since the last approval of the gate.                                    *)

Since(gate) ==
  LET A == {approvals[i].upto : i \in {n \in DOMAIN approvals : approvals[n].gate = gate}}
  IN  IF A = {} THEN 0 ELSE Max(A)

\* Fault: what a question was about is not asked.
AnyTopic(j) == j.since+1..j.read

TopicCands(j) == {i \in j.since+1..j.read : answers[i].topic = j.gate}

PlainCands(j) == {i \in j.since+1..j.read : answers[i].topic = NoTopic}

\* The newest about the gate, else the newest about none; 0 if there is none.
Preferred(topical, plain) ==
  IF topical # {} THEN Max(topical) ELSE IF plain # {} THEN Max(plain) ELSE 0

Anchor(j) == Preferred(TopicCands(j), PlainCands(j))

Carrying(S, code) == {i \in S : answers[i].code = code}

AnchorWith(code, j) ==
  Preferred(Carrying(TopicCands(j), code), Carrying(PlainCands(j), code))

-----------------------------------------------------------------------------
(* Approve.                                                                *)

\* The log is read, once.
BeginApprove(p, gate) ==
  /\ job[p] = Idle
  /\ commands < MaxAsked
  /\ commands' = commands + 1
  /\ Step(p, [at |-> "anchor", gate |-> gate, since |-> Since(gate),
              read |-> Len(answers), ref |-> 0,
              alone |-> \A q \in Proc : job[q] = Idle])
  /\ UNCHANGED <<mode, answers, approvals, challenge, madeFor, kills>>

\* On with this answer; without one it is refused.
Found(p, ref, at) ==
  Step(p, IF ref = 0 THEN Idle ELSE [job[p] EXCEPT !.at = at, !.ref = ref])

\* No code is asked for: hardened, an approval without an answer is refused.
AnchorPlain(p) ==
  /\ job[p].at = "anchor" /\ mode # "challenge"
  /\ IF mode = "open"
     THEN Step(p, [job[p] EXCEPT !.at = "append", !.ref = Anchor(job[p])])
     ELSE Found(p, Anchor(job[p]), "append")
  /\ UNCHANGED <<mode, answers, approvals, challenge, madeFor, commands, kills>>

\* ensureChallenge finds the gate's code pending: an answer has to carry it.
AnchorCode(p) ==
  /\ job[p].at = "anchor" /\ mode = "challenge"
  /\ challenge.gate = job[p].gate
  /\ Found(p, AnchorWith(challenge.code, job[p]), "clear")
  /\ UNCHANGED <<mode, answers, approvals, challenge, madeFor, commands, kills>>

\* It finds none, or one for another gate, and will make one.
MissCode(p) ==
  /\ job[p].at = "anchor" /\ mode = "challenge"
  /\ challenge.gate # job[p].gate
  /\ Step(p, [job[p] EXCEPT !.at = "mint"])
  /\ UNCHANGED <<mode, answers, approvals, challenge, madeFor, commands, kills>>

\* Fault: the last code is given out again.
OldCode == Len(madeFor)

NewCode == Len(madeFor) + 1

\* The code is new, so no answer read carries it: refused.
MintCode(p) ==
  /\ job[p].at = "mint"
  /\ challenge' = [gate |-> job[p].gate, code |-> NewCode]
  /\ madeFor' = Append(madeFor, job[p].gate)
  /\ Step(p, Idle)
  /\ UNCHANGED <<mode, answers, approvals, commands, kills>>

\* Fault: a code is left where it is.
StillPending == challenge

Cleared == NoChallenge

\* clearChallenge: consumed before the approval is written, whatever is there.
ClearChallenge(p) ==
  /\ job[p].at = "clear"
  /\ challenge' = Cleared
  /\ Step(p, [job[p] EXCEPT !.at = "append"])
  /\ UNCHANGED <<mode, answers, approvals, madeFor, commands, kills>>

AppendApproval(p) ==
  /\ job[p].at = "append"
  /\ approvals' = Append(approvals, [gate |-> job[p].gate, ref |-> job[p].ref,
                                      upto |-> Len(answers)])
  /\ Step(p, Idle)
  /\ UNCHANGED <<mode, answers, challenge, madeFor, commands, kills>>

Kill(p) ==
  /\ job[p] # Idle
  /\ kills < MaxKills
  /\ kills' = kills + 1
  /\ Step(p, Idle)
  /\ UNCHANGED <<mode, answers, approvals, challenge, madeFor, commands>>

Next ==
  \/ \E topic \in Gate \cup {NoTopic}, code \in 0..Len(madeFor) :
       CaptureQuestion(topic, code)
  \/ \E p \in Proc :
       \/ \E gate \in Gate : BeginApprove(p, gate)
       \/ AnchorPlain(p)
       \/ AnchorCode(p)
       \/ MissCode(p)
       \/ MintCode(p)
       \/ ClearChallenge(p)
       \/ AppendApproval(p)
       \/ Kill(p)

Spec == Init /\ [][Next]_vars

-----------------------------------------------------------------------------
(* Properties.                                                             *)

TypeOK ==
  /\ mode \in {"open", "hardened", "challenge"}
  /\ \A n \in DOMAIN answers :
       answers[n].topic \in Gate \cup {NoTopic} /\ answers[n].code \in 0..Len(madeFor)
  /\ \A n \in DOMAIN approvals :
       /\ approvals[n].gate \in Gate
       /\ approvals[n].upto \in 0..Len(answers)
       /\ approvals[n].ref \in 0..approvals[n].upto
  /\ \/ challenge = NoChallenge
     \/ challenge.code \in 1..Len(madeFor) /\ madeFor[challenge.code] = challenge.gate
  /\ \A p \in Proc : job[p].at \in {"idle", "anchor", "mint", "clear", "append"}

\* The log and the commands as Consent sees them: of a code it asks which
\* gate it was made for.
Consented == INSTANCE Consent WITH
  Asker   <- Proc,
  answers <- [n \in DOMAIN answers |->
                [topic |-> answers[n].topic,
                 code  |-> IF answers[n].code = 0 THEN NoTopic
                           ELSE madeFor[answers[n].code]]],
  granted <- approvals,
  asked   <- [p \in Proc |-> IF job[p] = Idle THEN [gate |-> NoTopic, since |-> 0]
                             ELSE [gate |-> job[p].gate, since |-> job[p].since]]

\* Whatever overlaps, is killed or typed too late, an approval rests on what
\* Consent says it rests on.
ApprovalsConsented == Consented!Spec

\* p is disturbed by nothing, up to and in this step.
Alone(p) ==
  job[p] # Idle /\ job[p].alone /\ (job'[p] = Idle \/ job'[p].alone)

\* An approval that nobody disturbed rests on an answer that none of its gate
\* rested on before, and in challenge mode on a code that none did: single-use,
\* also after overlapping approvals and commands killed half-way.
SingleUse ==
  [][\A p \in Proc :
       /\ job[p].at = "append" /\ Alone(p)
       /\ approvals' # approvals /\ job[p].ref # 0
       => \A n \in DOMAIN approvals :
            /\ approvals[n].gate = job[p].gate => approvals[n].ref # job[p].ref
            /\ mode = "challenge" =>
                 answers[approvals[n].ref].code # answers[job[p].ref].code]_vars

=============================================================================
