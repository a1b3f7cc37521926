------------------------------- MODULE Consent -------------------------------
(***************************************************************************)
(* What wf approve promises, whatever files and processes it takes: an     *)
(* approval of a gate rests on an answer of the user, to a question about  *)
(* that gate or about none in particular, given since the gate was last    *)
(* approved when the approval was asked for.  A project may insist on such *)
(* an answer (hardened), and on one with a code made for this gate         *)
(* (challenge); one that does not takes what there is.                     *)
(***************************************************************************)
EXTENDS Naturals, Sequences, FiniteSetsExt

CONSTANTS
  Gate,    \* approval gates
  Asker,   \* who may ask for an approval, one at a time each
  NoTopic  \* the topic of a question about no gate in particular

VARIABLES
  mode,     \* "open", "hardened" or "challenge"
  answers,  \* the user's answers: [topic, code], the gate the code was made for
  granted,  \* the approvals: [gate, ref, upto], ref 0 when it rests on nothing
  asked     \* asker -> [gate, since], or NotAsked

NotAsked == [gate |-> NoTopic, since |-> 0]

Init ==
  /\ mode \in {"open", "hardened", "challenge"}
  /\ answers = <<>>
  /\ granted = <<>>
  /\ asked = [a \in Asker |-> NotAsked]

Answer(topic, code) ==
  /\ answers' = Append(answers, [topic |-> topic, code |-> code])
  /\ UNCHANGED <<mode, granted, asked>>

\* How many answers there were when the gate was last approved.
Since(gate) ==
  LET A == {granted[n].upto : n \in {m \in DOMAIN granted : granted[m].gate = gate}}
  IN  IF A = {} THEN 0 ELSE Max(A)

Ask(a, gate) ==
  /\ asked[a] = NotAsked
  /\ asked' = [asked EXCEPT ![a] = [gate |-> gate, since |-> Since(gate)]]
  /\ UNCHANGED <<mode, answers, granted>>

Refuse(a) ==
  /\ asked[a] # NotAsked
  /\ asked' = [asked EXCEPT ![a] = NotAsked]
  /\ UNCHANGED <<mode, answers, granted>>

RestsOn(gate, since, ref) ==
  \/ /\ ref \in since+1..Len(answers)
     /\ answers[ref].topic \in {gate, NoTopic}
     /\ mode = "challenge" => answers[ref].code = gate
  \/ ref = 0 /\ mode = "open"

Grant(a, ref) ==
  LET gate == asked[a].gate
  IN  /\ asked[a] # NotAsked
      /\ RestsOn(gate, asked[a].since, ref)
      /\ granted' = Append(granted, [gate |-> gate, ref |-> ref, upto |-> Len(answers)])
      /\ asked' = [asked EXCEPT ![a] = NotAsked]
      /\ UNCHANGED <<mode, answers>>

Next ==
  \/ \E topic, code \in Gate \cup {NoTopic} : Answer(topic, code)
  \/ \E a \in Asker :
       \/ \E gate \in Gate : Ask(a, gate)
       \/ Refuse(a)
       \/ \E ref \in 0..Len(answers) : Grant(a, ref)

Spec == Init /\ [][Next]_<<mode, answers, granted, asked>>

=============================================================================
