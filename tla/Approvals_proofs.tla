-------------------------- MODULE Approvals_proofs --------------------------
(***************************************************************************)
(* Proofs about Approvals, for every set of processes and gates and every  *)
(* number of answers, commands and kills: the state is well-formed, and    *)
(* what the commands do, step by step, is what Consent allows.             *)
(***************************************************************************)
EXTENDS Approvals, WellFoundedInduction, SequenceTheorems, TLAPS

-----------------------------------------------------------------------------
(* The newest of some answers.                                             *)

\* A nonempty set of numbers up to a bound has a largest member.
LEMMA MaxIsMember ==
  ASSUME NEW b \in Nat, NEW S \in SUBSET (0..b), S # {}
  PROVE  Max(S) \in S /\ \A y \in S : Max(S) >= y
<1> DEFINE T == {b - x : x \in S}
           R == {ss \in Nat \X Nat : ss[1] < ss[2]}
<1>1. T \subseteq Nat /\ T # {}
  <2>1. \A x \in S : b - x \in Nat
    <3> TAKE x \in S
    <3>1. x \in 0..b
      OBVIOUS
    <3> QED
      BY <3>1
  <2>2. PICK x \in S : TRUE
    OBVIOUS
  <2>3. b - x \in T
    OBVIOUS
  <2> QED
    BY <2>1, <2>3
<1>2. IsWellFoundedOn(R, Nat)
  BY NatLessThanWellFounded, Zenon DEF OpToRel
<1> HIDE DEF R, T
<1>3. PICK t \in T : \A y \in T : ~ (<<y, t>> \in R)
  BY <1>1, <1>2, WFMin, Zenon
<1>4. \A y \in T : t <= y
  <2> TAKE y \in T
  <2>1. t \in Nat /\ y \in Nat
    BY <1>1
  <2>2. <<y, t>> \in R <=> y < t
    BY <2>1 DEF R
  <2> QED
    BY <1>3, <2>1, <2>2
<1>5. PICK x \in S : t = b - x
  BY DEF T
<1>6. \A y \in S : x >= y
  <2> TAKE y \in S
  <2>1. b - y \in T
    BY DEF T
  <2> QED
    BY <1>4, <1>5, <2>1
<1> QED
  BY <1>6 DEF Max

\* Preferred is a member of one of the two sets, or 0.
LEMMA PreferredIsOne ==
  ASSUME NEW b \in Nat, NEW S \in SUBSET (0..b), NEW T \in SUBSET (0..b)
  PROVE  Preferred(S, T) \in S \cup T \cup {0}
  BY MaxIsMember DEF Preferred

-----------------------------------------------------------------------------
(* The inductive invariant.                                                *)

AnswerRecord == [topic : Gate \cup {NoTopic}, code : Nat]

ApprovalRecord == [gate : Gate, ref : Nat, upto : Nat]

Command ==
  [at : {"anchor", "mint", "clear", "append"}, gate : Gate,
   since : Nat, read : Nat, ref : Nat, alone : BOOLEAN]

\* An answer that an approval of the gate may rest on.
Anchors(ref, j, md, ans, made) ==
  /\ ref \in j.since+1..j.read
  /\ ans[ref].topic \in {j.gate, NoTopic}
  /\ md = "challenge" => ans[ref].code # 0 /\ made[ans[ref].code] = j.gate

\* A command has read no more than there is and goes on with an answer that
\* will do or, where none is asked for, with none.
Good(j, md, ans, made) ==
  j # Idle =>
    /\ j.read <= Len(ans)
    /\ j.at \in {"clear", "append"} =>
         \/ Anchors(j.ref, j, md, ans, made)
         \/ j.at = "append" /\ j.ref = 0 /\ md = "open"

LogOK ==
  /\ mode \in {"open", "hardened", "challenge"}
  /\ answers \in Seq(AnswerRecord)
  /\ madeFor \in Seq(Gate)
  /\ \A n \in 1..Len(answers) : answers[n].code <= Len(madeFor)
  /\ approvals \in Seq(ApprovalRecord)
  /\ \A n \in 1..Len(approvals) :
       approvals[n].ref <= approvals[n].upto /\ approvals[n].upto <= Len(answers)

ChallengeOK ==
  \/ challenge = NoChallenge
  \/ /\ challenge \in [gate : Gate, code : Nat]
     /\ challenge.code \in 1..Len(madeFor)
     /\ madeFor[challenge.code] = challenge.gate

JobsOK ==
  /\ job \in [Proc -> Command \cup {Idle}]
  /\ \A p \in Proc : Good(job[p], mode, answers, madeFor)

IInv == LogOK /\ ChallengeOK /\ JobsOK

\* What every step leaves true of the log and of the codes.
Grows ==
  /\ mode' = mode
  /\ Len(answers) <= Len(answers')
  /\ \A n \in 1..Len(answers) : answers'[n] = answers[n]
  /\ Len(madeFor) <= Len(madeFor')
  /\ \A n \in 1..Len(madeFor) : madeFor'[n] = madeFor[n]

-----------------------------------------------------------------------------
(* Commands beside a step of another.                                      *)

\* A command beside a step of another loses only the mark that it was alone.
LEMMA DisturbedKeeps ==
  ASSUME NEW j \in Command \cup {Idle}
  PROVE  /\ Disturbed(j) \in Command \cup {Idle}
         /\ Disturbed(j) = Idle <=> j = Idle
         /\ j # Idle => /\ Disturbed(j).at = j.at
                        /\ Disturbed(j).gate = j.gate
                        /\ Disturbed(j).since = j.since
                        /\ Disturbed(j).read = j.read
                        /\ Disturbed(j).ref = j.ref
  BY DEF Disturbed, Command, Idle

\* A command that was right stays so, whatever else is added to the log.
LEMMA GoodStays ==
  ASSUME LogOK, Grows, LogOK',
         NEW j \in Command \cup {Idle}, Good(j, mode, answers, madeFor)
  PROVE  /\ Good(j, mode', answers', madeFor')
         /\ Good(Disturbed(j), mode', answers', madeFor')
<1>1. Good(j, mode', answers', madeFor')
  <2> SUFFICES ASSUME j # Idle
               PROVE  Good(j, mode', answers', madeFor')
    BY DEF Good
  <2>1. j \in Command /\ j.read <= Len(answers)
    BY DEF Good
  <2>2. j.read <= Len(answers')
    BY <2>1 DEF Grows, LogOK, Command
  <2>3. ASSUME Anchors(j.ref, j, mode, answers, madeFor)
        PROVE  Anchors(j.ref, j, mode', answers', madeFor')
    <3>1. j.ref \in 1..Len(answers) /\ j.since \in Nat
      BY <2>1, <2>3 DEF Anchors, Command, LogOK
    <3>2. answers'[j.ref] = answers[j.ref] /\ mode' = mode
      BY <3>1 DEF Grows
    <3>3. answers[j.ref].code # 0 => answers[j.ref].code \in 1..Len(madeFor)
      <4>1. answers[j.ref] \in AnswerRecord
        BY <3>1, ElementOfSeq DEF LogOK
      <4> QED
        BY <3>1, <4>1 DEF LogOK, AnswerRecord
    <3> QED
      BY <2>3, <3>2, <3>3 DEF Anchors, Grows
  <2> QED
    BY <2>1, <2>2, <2>3 DEF Good, Grows
<1>2. Good(Disturbed(j), mode', answers', madeFor')
  BY <1>1, DisturbedKeeps DEF Good, Anchors
<1> QED
  BY <1>1, <1>2

\* Any step of the commands: the one that moves is right, the others stay so.
LEMMA StepKeeps ==
  ASSUME LogOK, Grows, LogOK', JobsOK,
         NEW p \in Proc, NEW j \in Command \cup {Idle},
         Good(j, mode', answers', madeFor'), Step(p, j)
  PROVE  JobsOK'
<1>1. \A q \in Proc : job[q] \in Command \cup {Idle} /\ Good(job[q], mode, answers, madeFor)
  BY DEF JobsOK
<1>2. \A q \in Proc : job'[q] = IF q = p THEN j ELSE Disturbed(job[q])
  BY DEF Step
<1>3. \A q \in Proc : /\ Disturbed(job[q]) \in Command \cup {Idle}
                      /\ Good(Disturbed(job[q]), mode', answers', madeFor')
  BY <1>1, DisturbedKeeps, GoodStays
<1>4. job' \in [Proc -> Command \cup {Idle}]
  BY <1>2, <1>3 DEF Step
<1>5. \A q \in Proc : Good(job'[q], mode', answers', madeFor')
  BY <1>2, <1>3
<1> QED
  BY <1>4, <1>5 DEF JobsOK

\* The place where a gate was last approved is a number.
LEMMA SinceIsNumber ==
  ASSUME LogOK, NEW gate \in Gate
  PROVE  Since(gate) \in Nat
<1> DEFINE A == {approvals[i].upto : i \in {n \in DOMAIN approvals : approvals[n].gate = gate}}
<1>1. Len(answers) \in Nat /\ DOMAIN approvals = 1..Len(approvals)
  BY LenProperties DEF LogOK
<1>2. \A n \in 1..Len(approvals) : approvals[n].upto \in 0..Len(answers)
  <2> TAKE n \in 1..Len(approvals)
  <2>1. approvals[n] \in ApprovalRecord
    BY ElementOfSeq DEF LogOK
  <2> QED
    BY <1>1, <2>1 DEF LogOK, ApprovalRecord
<1>3. A \subseteq 0..Len(answers)
  BY <1>1, <1>2
<1>4. A # {} => Max(A) \in A
  <2> HIDE DEF A
  <2> QED
    BY <1>1, <1>3, MaxIsMember
<1> HIDE DEF A
<1>5. Since(gate) = IF A = {} THEN 0 ELSE Max(A)
  BY DEF Since, A
<1>6. \A x \in A : x \in Nat
  BY <1>1, <1>3
<1>7. CASE A = {}
  BY <1>5, <1>7
<1>8. CASE A # {}
  <2>1. Since(gate) = Max(A)
    BY <1>5, <1>8
  <2>2. Max(A) \in A
    BY <1>4, <1>8
  <2> QED
    BY <1>6, <2>1, <2>2
<1> QED
  BY <1>7, <1>8

\* The answer an approval goes on with is one that it may rest on.
LEMMA AnchorAnchors ==
  ASSUME LogOK, NEW j \in Command, j.read <= Len(answers), mode # "challenge",
         Anchor(j) # 0
  PROVE  Anchors(Anchor(j), j, mode, answers, madeFor)
<1>1. j.since \in Nat /\ j.read \in Nat
  BY DEF Command
<1>2. TopicCands(j) \in SUBSET (0..j.read) /\ PlainCands(j) \in SUBSET (0..j.read)
  BY <1>1 DEF TopicCands, PlainCands
<1>3. Anchor(j) \in TopicCands(j) \cup PlainCands(j)
  BY <1>1, <1>2, PreferredIsOne DEF Anchor
<1> QED
  BY <1>3 DEF Anchors, TopicCands, PlainCands

\* The answer with a code, where one is found, is one to rest on.
LEMMA AnchorWithAnchors ==
  ASSUME LogOK, ChallengeOK, NEW j \in Command, j.read <= Len(answers),
         challenge.gate = j.gate, AnchorWith(challenge.code, j) # 0
  PROVE  Anchors(AnchorWith(challenge.code, j), j, mode, answers, madeFor)
<1> DEFINE c == challenge.code
           S == Carrying(TopicCands(j), c)
           T == Carrying(PlainCands(j), c)
<1>1. j.since \in Nat /\ j.read \in Nat /\ j.gate \in Gate
  BY DEF Command
<1>2. S \in SUBSET (0..j.read) /\ T \in SUBSET (0..j.read)
  BY <1>1 DEF TopicCands, PlainCands, Carrying
<1>3. AnchorWith(c, j) \in S \cup T
  BY <1>1, <1>2, PreferredIsOne DEF AnchorWith
<1>4. c # 0 /\ madeFor[c] = j.gate
  BY <1>1, ApprovalsAssumption DEF ChallengeOK, NoChallenge
<1> QED
  BY <1>3, <1>4 DEF Anchors, TopicCands, PlainCands, Carrying

-----------------------------------------------------------------------------
(* The invariant is inductive.                                             *)

\* Without answers, codes or commands the invariant holds.
LEMMA InitHolds == Init => IInv
  BY ApprovalsAssumption, EmptySeq DEF Init, IInv, LogOK, ChallengeOK, JobsOK, Good, Idle

\* What adding a record to a sequence makes of it.
LEMMA Appended ==
  ASSUME NEW S, NEW s \in Seq(S), NEW e \in S
  PROVE  /\ Append(s, e) \in Seq(S)
         /\ Len(Append(s, e)) = Len(s) + 1
         /\ \A n \in 1..Len(s) : Append(s, e)[n] = s[n]
         /\ Append(s, e)[Len(s) + 1] = e
         /\ Len(s) \in Nat
  BY LenProperties

\* A sequence with one more element, as a function.
LEMMA AppendIs ==
  ASSUME NEW S, NEW s \in Seq(S), NEW e \in S
  PROVE  Append(s, e) = [n \in 1..Len(s)+1 |-> IF n = Len(s)+1 THEN e ELSE s[n]]
<1> DEFINE t == [n \in 1..Len(s)+1 |-> IF n = Len(s)+1 THEN e ELSE s[n]]
<1>1. Len(s) \in Nat
  BY LenProperties
<1>2. t \in [1..Len(s)+1 -> S]
  BY <1>1, ElementOfSeq
<1>3. \A n \in 1..Len(s)+1 : t[n] = Append(s, e)[n]
  <2> TAKE n \in 1..Len(s)+1
  <2>1. n \in 1..Len(s) \/ n = Len(s)+1
    BY <1>1
  <2> QED
    BY <1>1, <2>1, Appended
<1> HIDE DEF t
<1>4. t \in Seq(S) /\ Len(t) = Len(s)+1
  BY <1>1, <1>2
<1>5. Append(s, e) \in Seq(S) /\ Len(Append(s, e)) = Len(s)+1
  BY Appended
<1>6. Append(s, e) = t
  BY <1>1, <1>3, <1>4, <1>5, SeqEqual
<1> QED
  BY <1>6 DEF t

\* Steps that leave the log and the codes alone.
LEMMA LogStays ==
  ASSUME LogOK, UNCHANGED <<mode, answers, approvals, madeFor>>
  PROVE  LogOK' /\ Grows
<1>1. LogOK'
  BY DEF LogOK
<1>2. Len(answers) \in Nat /\ Len(madeFor) \in Nat
  BY LenProperties DEF LogOK
<1> QED
  BY <1>1, <1>2 DEF Grows

\* Every step keeps the invariant.
LEMMA NextKeeps ==
  ASSUME IInv, [Next]_vars
  PROVE  IInv'
<1> USE DEF IInv
<1>0. Len(answers) \in Nat /\ Len(madeFor) \in Nat /\ Len(approvals) \in Nat
  BY LenProperties DEF LogOK
<1>j. \A p \in Proc : /\ job[p] \in Command \cup {Idle}
                      /\ Good(job[p], mode, answers, madeFor)
                      /\ job[p].at # "idle" => job[p] \in Command /\ job[p].read <= Len(answers)
  BY DEF JobsOK, Good, Idle
<1>1. ASSUME NEW topic \in Gate \cup {NoTopic}, NEW code \in 0..Len(madeFor),
             CaptureQuestion(topic, code)
      PROVE  IInv'
  <2> DEFINE e == [topic |-> topic, code |-> code]
  <2>1. e \in AnswerRecord /\ e.code <= Len(madeFor)
    BY <1>0 DEF AnswerRecord
  <2>2. answers' = Append(answers, e)
    BY <1>1 DEF CaptureQuestion
  <2> HIDE DEF e
  <2>3. /\ answers' \in Seq(AnswerRecord) /\ Len(answers') = Len(answers) + 1
        /\ \A n \in 1..Len(answers) : answers'[n] = answers[n]
        /\ answers'[Len(answers) + 1] = e
    BY <2>1, <2>2, Appended DEF LogOK
  <2>4. UNCHANGED <<mode, approvals, challenge, madeFor>>
    BY <1>1 DEF CaptureQuestion
  <2>5. Grows
    BY <1>0, <2>3, <2>4 DEF Grows
  <2>6. LogOK'
    <3>1. \A n \in 1..Len(answers') : answers'[n].code <= Len(madeFor')
      <4> TAKE n \in 1..Len(answers')
      <4>1. n \in 1..Len(answers) \/ n = Len(answers) + 1
        BY <1>0, <2>3
      <4> QED
        BY <2>1, <2>3, <2>4, <4>1 DEF LogOK
    <3>2. \A n \in 1..Len(approvals') :
            approvals'[n].ref <= approvals'[n].upto /\ approvals'[n].upto <= Len(answers')
      <4> TAKE n \in 1..Len(approvals')
      <4>1. approvals[n] \in ApprovalRecord
        BY <2>4, ElementOfSeq DEF LogOK
      <4> QED
        BY <1>0, <2>3, <2>4, <4>1 DEF LogOK, ApprovalRecord
    <3> QED
      BY <2>3, <2>4, <3>1, <3>2 DEF LogOK
  <2>7. ChallengeOK'
    BY <2>4 DEF ChallengeOK
  <2>8. JobsOK'
    <3>1. \A q \in Proc : job'[q] = Disturbed(job[q])
      BY <1>1 DEF CaptureQuestion
    <3>2. \A q \in Proc : /\ Disturbed(job[q]) \in Command \cup {Idle}
                          /\ Good(Disturbed(job[q]), mode', answers', madeFor')
      BY <1>j, <2>5, <2>6, DisturbedKeeps, GoodStays
    <3>3. job' \in [Proc -> Command \cup {Idle}]
      BY <1>1, <3>2 DEF CaptureQuestion
    <3> QED
      BY <3>1, <3>2, <3>3 DEF JobsOK
  <2> QED
    BY <2>6, <2>7, <2>8
<1>2. ASSUME NEW p \in Proc, NEW gate \in Gate, BeginApprove(p, gate)
      PROVE  IInv'
  <2>1. LogOK' /\ Grows /\ ChallengeOK'
    BY <1>2, LogStays DEF BeginApprove, ChallengeOK
  <2> DEFINE alone == \A q \in Proc : job[q] = Idle
             j == [at |-> "anchor", gate |-> gate, since |-> Since(gate),
                   read |-> Len(answers), ref |-> 0, alone |-> alone]
  <2>2. Step(p, j)
    BY <1>2 DEF BeginApprove
  <2>3. alone \in BOOLEAN
    OBVIOUS
  <2> HIDE DEF alone
  <2>4. j \in Command
    BY <1>0, <2>3, SinceIsNumber DEF Command
  <2>5. Good(j, mode', answers', madeFor')
    BY <1>0, <2>1 DEF Good, Grows
  <2> HIDE DEF j
  <2> QED
    BY <2>1, <2>2, <2>4, <2>5, StepKeeps
<1>3. ASSUME NEW p \in Proc, AnchorPlain(p)
      PROVE  IInv'
  <2>1. LogOK' /\ Grows /\ ChallengeOK'
    BY <1>3, LogStays DEF AnchorPlain, ChallengeOK
  <2>2. job[p] \in Command /\ job[p].read <= Len(answers) /\ mode # "challenge"
    BY <1>3, <1>j DEF AnchorPlain
  <2>3. Anchor(job[p]) # 0 => Anchors(Anchor(job[p]), job[p], mode, answers, madeFor)
    BY <2>2, AnchorAnchors
  <2>4. Anchor(job[p]) \in Nat
    <3>1. job[p].since \in Nat /\ job[p].read \in Nat
      BY <2>2 DEF Command
    <3>2. /\ TopicCands(job[p]) \in SUBSET (0..job[p].read)
          /\ PlainCands(job[p]) \in SUBSET (0..job[p].read)
      BY <3>1 DEF TopicCands, PlainCands
    <3>3. \A n \in TopicCands(job[p]) \cup PlainCands(job[p]) \cup {0} : n \in Nat
      BY <3>1, <3>2
    <3>4. Anchor(job[p]) \in TopicCands(job[p]) \cup PlainCands(job[p]) \cup {0}
      BY <3>1, <3>2, PreferredIsOne DEF Anchor
    <3> QED
      BY <3>3, <3>4
  <2> DEFINE ref == Anchor(job[p])
             j == [job[p] EXCEPT !.at = "append", !.ref = ref]
  <2>5. /\ j \in Command
        /\ ref # 0 \/ mode = "open" => Good(j, mode, answers, madeFor)
    BY <2>2, <2>3, <2>4 DEF Command, Good, Anchors
  <2>6. \/ Step(p, j) /\ (ref # 0 \/ mode = "open")
        \/ Step(p, Idle)
    BY <1>3 DEF AnchorPlain, Found
  <2>7. Good(Idle, mode', answers', madeFor')
    BY DEF Good
  <2> HIDE DEF j, ref
  <2>8. ref # 0 \/ mode = "open" => Good(j, mode', answers', madeFor')
    BY <2>1, <2>5, GoodStays
  <2> QED
    BY <2>1, <2>5, <2>6, <2>7, <2>8, StepKeeps
<1>4. ASSUME NEW p \in Proc, AnchorCode(p)
      PROVE  IInv'
  <2>1. LogOK' /\ Grows /\ ChallengeOK'
    BY <1>4, LogStays DEF AnchorCode, ChallengeOK
  <2>2. /\ job[p] \in Command /\ job[p].read <= Len(answers)
        /\ challenge.gate = job[p].gate
    BY <1>4, <1>j DEF AnchorCode
  <2> DEFINE ref == AnchorWith(challenge.code, job[p])
             j == [job[p] EXCEPT !.at = "clear", !.ref = ref]
  <2>3. ref # 0 => Anchors(ref, job[p], mode, answers, madeFor)
    BY <2>2, AnchorWithAnchors
  <2>4. ref # 0 => j \in Command /\ Good(j, mode, answers, madeFor)
    <3> SUFFICES ASSUME ref # 0
                 PROVE  j \in Command /\ Good(j, mode, answers, madeFor)
      OBVIOUS
    <3> HIDE DEF ref
    <3>1. ref \in Nat
      BY <2>2, <2>3 DEF Anchors, Command
    <3>2. /\ j \in Command /\ j.ref = ref /\ j.at = "clear"
          /\ j.gate = job[p].gate /\ j.since = job[p].since /\ j.read = job[p].read
      BY <2>2, <3>1 DEF Command
    <3> QED
      BY <2>2, <2>3, <3>2 DEF Good, Anchors
  <2>5. \/ Step(p, j) /\ ref # 0
        \/ Step(p, Idle)
    BY <1>4 DEF AnchorCode, Found
  <2>6. Good(Idle, mode', answers', madeFor')
    BY DEF Good
  <2> HIDE DEF j, ref
  <2>7. ref # 0 => Good(j, mode', answers', madeFor')
    BY <2>1, <2>4, GoodStays
  <2> QED
    BY <2>1, <2>4, <2>5, <2>6, <2>7, StepKeeps
<1>5. ASSUME NEW p \in Proc, MissCode(p)
      PROVE  IInv'
  <2>1. LogOK' /\ Grows /\ ChallengeOK'
    BY <1>5, LogStays DEF MissCode, ChallengeOK
  <2> DEFINE j == [job[p] EXCEPT !.at = "mint"]
  <2>2. job[p] \in Command /\ job[p].read <= Len(answers)
    BY <1>5, <1>j DEF MissCode
  <2>3. j \in Command /\ Good(j, mode, answers, madeFor)
    BY <2>2 DEF Command, Good
  <2>4. Step(p, j)
    BY <1>5 DEF MissCode
  <2> HIDE DEF j
  <2> QED
    BY <2>1, <2>3, <2>4, GoodStays, StepKeeps
<1>6. ASSUME NEW p \in Proc, MintCode(p)
      PROVE  IInv'
  <2>1. /\ job[p] \in Command /\ madeFor' = Append(madeFor, job[p].gate)
        /\ challenge' = [gate |-> job[p].gate, code |-> Len(madeFor) + 1]
        /\ UNCHANGED <<mode, answers, approvals>> /\ Step(p, Idle)
    BY <1>6, <1>j DEF MintCode, NewCode
  <2>2. job[p].gate \in Gate
    BY <2>1 DEF Command
  <2>3. /\ madeFor' \in Seq(Gate) /\ Len(madeFor') = Len(madeFor) + 1
        /\ \A n \in 1..Len(madeFor) : madeFor'[n] = madeFor[n]
        /\ madeFor'[Len(madeFor) + 1] = job[p].gate
    BY <2>1, <2>2, Appended DEF LogOK
  <2>4. Grows
    BY <1>0, <2>1, <2>3 DEF Grows
  <2>5. LogOK'
    <3>1. \A n \in 1..Len(answers) : answers[n].code <= Len(madeFor')
      <4> TAKE n \in 1..Len(answers)
      <4>1. answers[n] \in AnswerRecord
        BY ElementOfSeq DEF LogOK
      <4> QED
        BY <1>0, <2>3, <4>1 DEF LogOK, AnswerRecord
    <3> QED
      BY <2>1, <2>3, <3>1 DEF LogOK
  <2>6. ChallengeOK'
    BY <1>0, <2>1, <2>2, <2>3 DEF ChallengeOK
  <2>7. Good(Idle, mode', answers', madeFor')
    BY DEF Good
  <2> QED
    BY <2>1, <2>4, <2>5, <2>6, <2>7, StepKeeps
<1>7. ASSUME NEW p \in Proc, ClearChallenge(p)
      PROVE  IInv'
  <2>1. LogOK' /\ Grows /\ ChallengeOK'
    BY <1>7, LogStays DEF ClearChallenge, ChallengeOK, Cleared
  <2> DEFINE j == [job[p] EXCEPT !.at = "append"]
  <2>2. job[p] \in Command /\ job[p].at = "clear" /\ Good(job[p], mode, answers, madeFor)
    BY <1>7, <1>j DEF ClearChallenge
  <2>3. j \in Command /\ Good(j, mode, answers, madeFor)
    BY <2>2 DEF Command, Good, Anchors, Idle
  <2>4. Step(p, j)
    BY <1>7 DEF ClearChallenge
  <2> HIDE DEF j
  <2> QED
    BY <2>1, <2>3, <2>4, GoodStays, StepKeeps
<1>8. ASSUME NEW p \in Proc, AppendApproval(p)
      PROVE  IInv'
  <2> DEFINE e == [gate |-> job[p].gate, ref |-> job[p].ref, upto |-> Len(answers)]
  <2>1. /\ job[p] \in Command /\ job[p].at = "append"
        /\ Good(job[p], mode, answers, madeFor)
    BY <1>8, <1>j DEF AppendApproval
  <2>2. e \in ApprovalRecord /\ e.ref <= e.upto /\ e.upto <= Len(answers)
    BY <1>0, <2>1 DEF ApprovalRecord, Command, Good, Anchors, Idle
  <2>3. /\ approvals' = Append(approvals, e)
        /\ UNCHANGED <<mode, answers, challenge, madeFor>> /\ Step(p, Idle)
    BY <1>8 DEF AppendApproval
  <2> HIDE DEF e
  <2>4. /\ approvals' \in Seq(ApprovalRecord) /\ Len(approvals') = Len(approvals) + 1
        /\ \A n \in 1..Len(approvals) : approvals'[n] = approvals[n]
        /\ approvals'[Len(approvals) + 1] = e
    BY <2>2, <2>3, Appended DEF LogOK
  <2>5. Grows
    BY <1>0, <2>3 DEF Grows
  <2>6. LogOK'
    <3>1. \A n \in 1..Len(approvals') :
            approvals'[n].ref <= approvals'[n].upto /\ approvals'[n].upto <= Len(answers)
      <4> TAKE n \in 1..Len(approvals')
      <4>1. n \in 1..Len(approvals) \/ n = Len(approvals) + 1
        BY <1>0, <2>4
      <4> QED
        BY <2>2, <2>4, <4>1 DEF LogOK
    <3> QED
      BY <2>3, <2>4, <3>1 DEF LogOK
  <2>7. ChallengeOK'
    BY <2>3 DEF ChallengeOK
  <2>8. Good(Idle, mode', answers', madeFor')
    BY DEF Good
  <2> QED
    BY <2>3, <2>5, <2>6, <2>7, <2>8, StepKeeps
<1>9. ASSUME NEW p \in Proc, Kill(p)
      PROVE  IInv'
  <2>1. LogOK' /\ Grows /\ ChallengeOK' /\ Step(p, Idle)
    BY <1>9, LogStays DEF Kill, ChallengeOK
  <2>2. Good(Idle, mode', answers', madeFor')
    BY DEF Good
  <2> QED
    BY <2>1, <2>2, StepKeeps
<1>10. CASE UNCHANGED vars
  BY <1>10 DEF vars, LogOK, ChallengeOK, JobsOK, Good, Anchors
<1> QED
  BY <1>1, <1>2, <1>3, <1>4, <1>5, <1>6, <1>7, <1>8, <1>9, <1>10 DEF Next

\* What every reachable state has in common: Spec => []IInv.
LEMMA InvariantHolds == Spec => []IInv
  BY InitHolds, NextKeeps, PTL DEF Spec

\* The state is well-formed: an approval points at an answer given before it,
\* and the pending code was made for the gate it is pending for.
THEOREM ApprovalsTypeCorrect == Spec => []TypeOK
<1>1. IInv => TypeOK
  <2> SUFFICES ASSUME IInv
               PROVE  TypeOK
    OBVIOUS
  <2>1. /\ DOMAIN answers = 1..Len(answers) /\ DOMAIN approvals = 1..Len(approvals)
        /\ Len(answers) \in Nat /\ Len(madeFor) \in Nat
    BY LenProperties DEF IInv, LogOK
  <2>2. \A n \in 1..Len(answers) :
          answers[n].topic \in Gate \cup {NoTopic} /\ answers[n].code \in 0..Len(madeFor)
    <3> TAKE n \in 1..Len(answers)
    <3>1. answers[n] \in AnswerRecord
      BY ElementOfSeq DEF IInv, LogOK
    <3> QED
      BY <2>1, <3>1 DEF IInv, LogOK, AnswerRecord
  <2>3. \A n \in 1..Len(approvals) :
          /\ approvals[n].gate \in Gate
          /\ approvals[n].upto \in 0..Len(answers)
          /\ approvals[n].ref \in 0..approvals[n].upto
    <3> TAKE n \in 1..Len(approvals)
    <3>1. approvals[n] \in ApprovalRecord
      BY ElementOfSeq DEF IInv, LogOK
    <3> QED
      BY <2>1, <3>1 DEF IInv, LogOK, ApprovalRecord
  <2>4. \A p \in Proc : job[p].at \in {"idle", "anchor", "mint", "clear", "append"}
    BY DEF IInv, JobsOK, Command, Idle
  <2> QED
    BY <2>1, <2>2, <2>3, <2>4 DEF TypeOK, IInv, LogOK, ChallengeOK
<1> QED
  BY <1>1, InvariantHolds, PTL

-----------------------------------------------------------------------------
(* Refinement.                                                             *)

\* The answers and the commands as Consent sees them, under the mapping of
\* Consented.
Shown(ans, made) ==
  [n \in DOMAIN ans |->
     [topic |-> ans[n].topic,
      code  |-> IF ans[n].code = 0 THEN NoTopic ELSE made[ans[n].code]]]

ShownJob(j) ==
  IF j = Idle THEN [gate |-> NoTopic, since |-> 0]
  ELSE [gate |-> j.gate, since |-> j.since]

Asked(jobs) == [p \in Proc |-> ShownJob(jobs[p])]

\* What is shown of a command does not change with what happens beside it.
LEMMA AskedOf ==
  ASSUME JobsOK, NEW p \in Proc, NEW j \in Command \cup {Idle}, Step(p, j)
  PROVE  Asked(job') = [Asked(job) EXCEPT ![p] = ShownJob(j)]
<1>1. \A q \in Proc : ShownJob(Disturbed(job[q])) = ShownJob(job[q])
  <2> TAKE q \in Proc
  <2>1. job[q] \in Command \cup {Idle}
    BY DEF JobsOK
  <2> QED
    BY <2>1, DisturbedKeeps DEF ShownJob
<1>2. \A q \in Proc : job'[q] = IF q = p THEN j ELSE Disturbed(job[q])
  BY DEF Step
<1>3. \A q \in Proc : ShownJob(job'[q]) = IF q = p THEN ShownJob(j) ELSE ShownJob(job[q])
  BY <1>1, <1>2
<1> QED
  BY <1>3 DEF Asked

\* A command in flight is one that has asked.
LEMMA InFlight ==
  ASSUME NEW j \in Command
  PROVE  /\ ShownJob(j) # [gate |-> NoTopic, since |-> 0]
         /\ ShownJob(j).gate = j.gate /\ ShownJob(j).since = j.since
<1>1. j # Idle
  BY DEF Command, Idle
<1>2. j.gate # NoTopic
  BY ApprovalsAssumption DEF Command
<1> QED
  BY <1>1, <1>2 DEF ShownJob

\* What is shown of the answers.
LEMMA ShownOf ==
  ASSUME LogOK
  PROVE  /\ DOMAIN Shown(answers, madeFor) = 1..Len(answers)
         /\ Len(Shown(answers, madeFor)) = Len(answers)
         /\ \A n \in 1..Len(answers) :
              /\ Shown(answers, madeFor)[n].topic = answers[n].topic
              /\ Shown(answers, madeFor)[n].code =
                   IF answers[n].code = 0 THEN NoTopic ELSE madeFor[answers[n].code]
<1>1. DOMAIN answers = 1..Len(answers) /\ Len(answers) \in Nat
  BY LenProperties DEF LogOK
<1> QED
  BY <1>1 DEF Shown

\* A new code changes nothing in how the answers given so far are shown.
LEMMA ShownStays ==
  ASSUME LogOK, Grows, answers' = answers
  PROVE  Shown(answers', madeFor') = Shown(answers, madeFor)
<1>1. DOMAIN answers = 1..Len(answers)
  BY LenProperties DEF LogOK
<1>2. \A n \in DOMAIN answers :
        answers[n].code # 0 => madeFor'[answers[n].code] = madeFor[answers[n].code]
  <2> TAKE n \in DOMAIN answers
  <2>1. answers[n] \in AnswerRecord
    BY <1>1, ElementOfSeq DEF LogOK
  <2>2. answers[n].code # 0 => answers[n].code \in 1..Len(madeFor)
    BY <1>1, <2>1 DEF LogOK, AnswerRecord
  <2> QED
    BY <2>2 DEF Grows
<1> QED
  BY <1>2 DEF Shown

\* A new answer is shown behind the others.
LEMMA ShownAppended ==
  ASSUME LogOK, LogOK', NEW e \in AnswerRecord,
         answers' = Append(answers, e), madeFor' = madeFor
  PROVE  Shown(answers', madeFor') =
           Append(Shown(answers, madeFor),
                  [topic |-> e.topic,
                   code  |-> IF e.code = 0 THEN NoTopic ELSE madeFor[e.code]])
<1> DEFINE x == [topic |-> e.topic,
                 code  |-> IF e.code = 0 THEN NoTopic ELSE madeFor[e.code]]
           S == Shown(answers, madeFor)
           T == Shown(answers', madeFor')
<1>1. /\ DOMAIN answers = 1..Len(answers) /\ Len(answers) \in Nat
      /\ DOMAIN answers' = 1..Len(answers') /\ Len(answers') = Len(answers) + 1
  BY LenProperties DEF LogOK
<1>2. Len(S) = Len(answers)
  BY ShownOf
<1>3. T = [n \in 1..Len(answers)+1 |-> IF n = Len(answers)+1 THEN x ELSE S[n]]
  <2>1. \A n \in 1..Len(answers)+1 :
          answers'[n] = IF n = Len(answers)+1 THEN e ELSE answers[n]
    BY <1>1
  <2> QED
    BY <1>1, <2>1 DEF Shown
<1> HIDE DEF x, T
<1>4. Append(S, x) = [n \in 1..Len(S)+1 |-> IF n = Len(S)+1 THEN x ELSE S[n]]
  <2> DEFINE U == {S[n] : n \in 1..Len(answers)} \cup {x}
  <2>1. S \in [1..Len(answers) -> U]
    BY <1>1, ShownOf DEF Shown
  <2>2. S \in Seq(U) /\ x \in U
    <3> HIDE DEF S
    <3> QED
      BY <1>1, <2>1
  <2> HIDE DEF U, S
  <2> QED
    BY <2>2, AppendIs
<1> QED
  BY <1>2, <1>3, <1>4 DEF x, T

\* Since, as Consent computes it.
LEMMA SameSince ==
  ASSUME NEW gate
  PROVE  Consented!Since(gate) = Since(gate)
  BY DEF Since, Consented!Since, Max, Consented!Max

\* No answer, no approval and nobody asking: where Consent begins.
LEMMA InitMaps == Init => Consented!Init
<1> SUFFICES ASSUME Init
             PROVE  Consented!Init
  OBVIOUS
<1>1. [n \in DOMAIN answers |->
         [topic |-> answers[n].topic,
          code  |-> IF answers[n].code = 0 THEN NoTopic ELSE madeFor[answers[n].code]]] = <<>>
  BY DEF Init
<1>2. [p \in Proc |-> IF job[p] = Idle THEN [gate |-> NoTopic, since |-> 0]
                      ELSE [gate |-> job[p].gate, since |-> job[p].since]]
        = [p \in Proc |-> [gate |-> NoTopic, since |-> 0]]
  BY DEF Init
<1> QED
  BY <1>1, <1>2 DEF Init, Consented!Init, Consented!NotAsked

\* A command that ends without an approval: Consent refuses it.
LEMMA RefusalMaps ==
  ASSUME LogOK, Grows, JobsOK, NEW p \in Proc, job[p] \in Command, Step(p, Idle),
         UNCHANGED <<answers, approvals>>
  PROVE  Consented!Refuse(p)
<1>1. Asked(job)[p] = ShownJob(job[p]) /\ ShownJob(job[p]) # [gate |-> NoTopic, since |-> 0]
  BY InFlight DEF Asked
<1>2. Asked(job') = [Asked(job) EXCEPT ![p] = ShownJob(Idle)]
  BY AskedOf
<1>3. ShownJob(Idle) = [gate |-> NoTopic, since |-> 0]
  BY DEF ShownJob
<1>4. Shown(answers', madeFor') = Shown(answers, madeFor)
  BY ShownStays
<1>5. mode' = mode /\ approvals' = approvals
  BY DEF Grows
<1> QED
  BY <1>1, <1>2, <1>3, <1>4, <1>5
  DEF Consented!Refuse, Consented!NotAsked, Shown, Asked, ShownJob

\* A command that goes on: Consent stands still.
LEMMA GoingOnMaps ==
  ASSUME LogOK, Grows, JobsOK, NEW p \in Proc, job[p] \in Command,
         NEW j \in Command, j.gate = job[p].gate, j.since = job[p].since, Step(p, j),
         UNCHANGED <<answers, approvals>>
  PROVE  UNCHANGED <<mode, Shown(answers, madeFor), approvals, Asked(job)>>
<1>1. Asked(job') = [Asked(job) EXCEPT ![p] = ShownJob(j)]
  BY AskedOf
<1>2. ShownJob(j) = ShownJob(job[p])
  BY DEF ShownJob, Command, Idle
<1>3. Asked(job)[p] = ShownJob(job[p])
  BY DEF Asked
<1>4. Asked(job') = Asked(job)
  BY <1>1, <1>2, <1>3 DEF Asked
<1> QED
  BY <1>4, ShownStays DEF Grows

\* Every step is a step of Consent or a stutter.
LEMMA StepMaps ==
  ASSUME IInv, IInv', [Next]_vars
  PROVE  \/ Consented!Next
         \/ UNCHANGED <<mode, Shown(answers, madeFor), approvals, Asked(job)>>
<1> USE DEF IInv
<1>0. Len(answers) \in Nat /\ Len(madeFor) \in Nat
  BY LenProperties DEF LogOK
<1>j. \A p \in Proc : /\ job[p] \in Command \cup {Idle}
                      /\ Good(job[p], mode, answers, madeFor)
                      /\ job[p].at # "idle" => job[p] \in Command
  BY DEF JobsOK, Idle
<1>1. ASSUME NEW topic \in Gate \cup {NoTopic}, NEW code \in 0..Len(madeFor),
             CaptureQuestion(topic, code)
      PROVE  Consented!Next
  <2> DEFINE e == [topic |-> topic, code |-> code]
             c == IF code = 0 THEN NoTopic ELSE madeFor[code]
  <2>1. e \in AnswerRecord /\ e.topic = topic /\ e.code = code
    BY <1>0 DEF AnswerRecord
  <2>2. c \in Gate \cup {NoTopic}
    BY <1>0, ElementOfSeq DEF LogOK
  <2>3. answers' = Append(answers, e) /\ UNCHANGED <<mode, approvals, madeFor>>
    BY <1>1 DEF CaptureQuestion
  <2> HIDE DEF e
  <2>4. Shown(answers', madeFor') =
          Append(Shown(answers, madeFor), [topic |-> topic, code |-> c])
    BY <2>1, <2>3, ShownAppended
  <2>5. Asked(job') = Asked(job)
    <3>1. \A q \in Proc : job'[q] = Disturbed(job[q])
      BY <1>1 DEF CaptureQuestion
    <3>2. \A q \in Proc : ShownJob(Disturbed(job[q])) = ShownJob(job[q])
      BY <1>j, DisturbedKeeps DEF ShownJob
    <3> QED
      BY <3>1, <3>2 DEF Asked
  <2> HIDE DEF c
  <2>6. PICK d \in Gate \cup {NoTopic} : d = c
    BY <2>2
  <2>7. Consented!Answer(topic, d)
    BY <2>3, <2>4, <2>5, <2>6 DEF Consented!Answer, Shown, Asked, ShownJob
  <2> QED
    BY <2>7 DEF Consented!Next
<1>2. ASSUME NEW p \in Proc, NEW gate \in Gate, BeginApprove(p, gate)
      PROVE  Consented!Next
  <2>1. LogOK' /\ Grows /\ UNCHANGED <<mode, answers, approvals, madeFor>>
    BY <1>2, LogStays DEF BeginApprove
  <2> DEFINE alone == \A q \in Proc : job[q] = Idle
             j == [at |-> "anchor", gate |-> gate, since |-> Since(gate),
                   read |-> Len(answers), ref |-> 0, alone |-> alone]
  <2>2. Step(p, j) /\ job[p] = Idle
    BY <1>2 DEF BeginApprove
  <2>3. alone \in BOOLEAN
    OBVIOUS
  <2> HIDE DEF alone
  <2>4. j \in Command /\ j.gate = gate /\ j.since = Since(gate)
    BY <1>0, <2>3, SinceIsNumber DEF Command
  <2> HIDE DEF j
  <2>5. j # Idle
    BY <2>4 DEF Command, Idle
  <2>6. ShownJob(j) = [gate |-> gate, since |-> Consented!Since(gate)]
    BY <2>4, <2>5, SameSince DEF ShownJob
  <2>7. Asked(job') = [Asked(job) EXCEPT ![p] = ShownJob(j)]
    BY <2>2, <2>4, AskedOf
  <2>8. Asked(job)[p] = [gate |-> NoTopic, since |-> 0]
    BY <2>2 DEF Asked, ShownJob
  <2>9. Shown(answers', madeFor') = Shown(answers, madeFor)
    BY <2>1
  <2>10. Consented!Ask(p, gate)
    BY <2>1, <2>6, <2>7, <2>8, <2>9
    DEF Consented!Ask, Consented!NotAsked, Shown, Asked, ShownJob
  <2> QED
    BY <2>10 DEF Consented!Next
<1>3. ASSUME NEW p \in Proc, AnchorPlain(p) \/ AnchorCode(p) \/ MissCode(p) \/ ClearChallenge(p)
      PROVE  \/ Consented!Next
             \/ UNCHANGED <<mode, Shown(answers, madeFor), approvals, Asked(job)>>
  <2>1. LogOK' /\ Grows /\ UNCHANGED <<mode, answers, approvals, madeFor>>
    BY <1>3, LogStays DEF AnchorPlain, AnchorCode, MissCode, ClearChallenge
  <2>2. job[p] \in Command
    BY <1>3, <1>j DEF AnchorPlain, AnchorCode, MissCode, ClearChallenge
  <2>3. Step(p, job'[p])
    BY <1>3 DEF AnchorPlain, AnchorCode, MissCode, ClearChallenge, Found, Step
  <2>4. job'[p] \in Command \cup {Idle}
    BY DEF JobsOK
  <2>5. \/ job'[p] = Idle
        \/ job'[p].gate = job[p].gate /\ job'[p].since = job[p].since
    <3>1. CASE AnchorPlain(p)
      <4> DEFINE r == Anchor(job[p])
      <4>1. \/ job'[p] = Idle
            \/ job'[p] = [job[p] EXCEPT !.at = "append", !.ref = r]
        BY <3>1 DEF AnchorPlain, Found, Step
      <4> HIDE DEF r
      <4> QED
        BY <2>2, <4>1 DEF Command
    <3>2. CASE AnchorCode(p)
      <4> DEFINE r == AnchorWith(challenge.code, job[p])
      <4>1. \/ job'[p] = Idle
            \/ job'[p] = [job[p] EXCEPT !.at = "clear", !.ref = r]
        BY <3>2 DEF AnchorCode, Found, Step
      <4> HIDE DEF r
      <4> QED
        BY <2>2, <4>1 DEF Command
    <3>3. CASE MissCode(p)
      BY <2>2, <3>3 DEF MissCode, Step, Command
    <3>4. CASE ClearChallenge(p)
      BY <2>2, <3>4 DEF ClearChallenge, Step, Command
    <3> QED
      BY <1>3, <3>1, <3>2, <3>3, <3>4
  <2>6. CASE job'[p] = Idle
    BY <2>1, <2>2, <2>3, <2>6, RefusalMaps DEF Consented!Next
  <2>7. CASE job'[p] # Idle
    <3> DEFINE j == job'[p]
    <3>2. j \in Command /\ j.gate = job[p].gate /\ j.since = job[p].since /\ Step(p, j)
      BY <2>3, <2>4, <2>5, <2>7
    <3> HIDE DEF j
    <3> QED
      BY <2>1, <2>2, <3>2, GoingOnMaps
  <2> QED
    BY <2>6, <2>7
<1>4. ASSUME NEW p \in Proc, MintCode(p) \/ Kill(p)
      PROVE  Consented!Next
  <2>1. /\ Step(p, Idle) /\ UNCHANGED <<mode, answers, approvals>>
        /\ job[p] # Idle
    BY <1>4 DEF MintCode, Kill, Idle
  <2>2. job[p] \in Command
    BY <2>1, <1>j
  <2>3. Grows
    <3>1. CASE MintCode(p)
      <4>1. job[p].gate \in Gate /\ madeFor' = Append(madeFor, job[p].gate)
        BY <2>2, <3>1 DEF Command, MintCode
      <4> QED
        BY <1>0, <2>1, <4>1, Appended DEF Grows, LogOK
    <3>2. CASE Kill(p)
      BY <1>0, <3>2 DEF Kill, Grows
    <3> QED
      BY <1>4, <3>1, <3>2
  <2> QED
    BY <2>1, <2>2, <2>3, RefusalMaps DEF Consented!Next
<1>5. ASSUME NEW p \in Proc, AppendApproval(p)
      PROVE  Consented!Next
  <2> DEFINE ref == job[p].ref
             gate == job[p].gate
  <2>1. job[p] \in Command /\ job[p].at = "append" /\ Good(job[p], mode, answers, madeFor)
    BY <1>5, <1>j DEF AppendApproval
  <2>2. /\ approvals' = Append(approvals, [gate |-> gate, ref |-> ref, upto |-> Len(answers)])
        /\ UNCHANGED <<mode, answers, madeFor>> /\ Step(p, Idle)
    BY <1>5 DEF AppendApproval
  <2>3. /\ Asked(job)[p].gate = gate /\ Asked(job)[p].since = job[p].since
        /\ Asked(job)[p] # [gate |-> NoTopic, since |-> 0]
    BY <2>1, InFlight DEF Asked
  <2>4. /\ Asked(job') = [Asked(job) EXCEPT ![p] = ShownJob(Idle)]
        /\ ShownJob(Idle) = [gate |-> NoTopic, since |-> 0]
    BY <2>2, AskedOf DEF ShownJob
  <2>5. /\ ref \in 0..Len(answers)
        /\ \/ /\ ref \in job[p].since+1..Len(answers)
              /\ answers[ref].topic \in {gate, NoTopic}
              /\ mode = "challenge" =>
                   answers[ref].code # 0 /\ madeFor[answers[ref].code] = gate
           \/ ref = 0 /\ mode = "open"
    BY <1>0, <2>1 DEF Good, Anchors, Command, Idle
  <2>6. /\ Len(Shown(answers, madeFor)) = Len(answers)
        /\ \/ /\ ref \in job[p].since+1..Len(answers)
              /\ Shown(answers, madeFor)[ref].topic \in {gate, NoTopic}
              /\ mode = "challenge" => Shown(answers, madeFor)[ref].code = gate
           \/ ref = 0 /\ mode = "open"
    <3>1. ref \in job[p].since+1..Len(answers) => ref \in 1..Len(answers)
      BY <1>0, <2>1 DEF Command
    <3> QED
      BY <2>5, <3>1, ShownOf
  <2> HIDE DEF ref, gate
  <2>7. Consented!RestsOn(gate, job[p].since, ref)
    BY <2>6 DEF Consented!RestsOn, Shown
  <2>8. Shown(answers', madeFor') = Shown(answers, madeFor)
    BY <2>2
  <2>9. PICK r \in 0..Len(Shown(answers, madeFor)) : r = ref
    BY <2>5, <2>6
  <2>10. Consented!Grant(p, r)
    BY <2>2, <2>3, <2>4, <2>6, <2>7, <2>8, <2>9
    DEF Consented!Grant, Consented!NotAsked, Shown, Asked, ShownJob
  <2> QED
    BY <2>9, <2>10 DEF Consented!Next, Shown
<1>6. CASE UNCHANGED vars
  BY <1>6 DEF vars, Shown, Asked
<1> QED
  BY <1>1, <1>2, <1>3, <1>4, <1>5, <1>6 DEF Next

\* Whatever overlaps, is killed or typed too late, wf approve does what Consent
\* says: an approval rests on an answer about its gate or about none, given
\* since the gate was last approved and carrying the code made for it, where
\* the project asks for these.
THEOREM ApprovalsImplementConsent == Spec => ApprovalsConsented
<1>1. Init => Consented!Init
  BY InitMaps
<1>2. IInv /\ IInv' /\ [Next]_vars =>
        [Consented!Next]_<<mode, Shown(answers, madeFor), approvals, Asked(job)>>
  BY StepMaps
<1>3. Shown(answers, madeFor) =
        [n \in DOMAIN answers |->
           [topic |-> answers[n].topic,
            code  |-> IF answers[n].code = 0 THEN NoTopic ELSE madeFor[answers[n].code]]]
  BY DEF Shown
<1>4. Asked(job) = [p \in Proc |-> IF job[p] = Idle THEN [gate |-> NoTopic, since |-> 0]
                                   ELSE [gate |-> job[p].gate, since |-> job[p].since]]
  BY DEF Asked, ShownJob
<1> QED
  BY <1>1, <1>2, InvariantHolds, PTL DEF Spec, ApprovalsConsented, Consented!Spec, Shown, Asked, ShownJob

-----------------------------------------------------------------------------
(* Single use.                                                             *)

\* No approval, written or about to be, rests on the code that is pending.
Spent ==
  mode = "challenge" =>
    /\ \A n \in 1..Len(approvals) :
         /\ approvals[n].ref \in 1..Len(answers)
         /\ answers[approvals[n].ref].code \notin {0, challenge.code}
    /\ \A p \in Proc :
         job[p].at = "append" => answers[job[p].ref].code # challenge.code

\* A command that nobody disturbed knows all approvals of its gate, and none
\* of any gate rests on the code it has found.
Fresh(j, md, ans, apps) ==
  j # Idle /\ j.alone =>
    /\ \A n \in 1..Len(apps) : apps[n].gate = j.gate => apps[n].upto <= j.since
    /\ md = "challenge" /\ j.at \in {"clear", "append"} =>
         \A n \in 1..Len(apps) : ans[apps[n].ref].code # ans[j.ref].code

AllFresh == \A p \in Proc : Fresh(job[p], mode, answers, approvals)

UInv == IInv /\ Spent /\ AllFresh

\* No approval of a gate was written after the place where it was last approved.
LEMMA SinceIsLast ==
  ASSUME LogOK, NEW n \in 1..Len(approvals)
  PROVE  approvals[n].upto <= Since(approvals[n].gate)
<1> DEFINE g == approvals[n].gate
           A == {approvals[i].upto : i \in {k \in DOMAIN approvals : approvals[k].gate = g}}
<1>1. Len(answers) \in Nat /\ DOMAIN approvals = 1..Len(approvals)
  BY LenProperties DEF LogOK
<1>2. \A k \in 1..Len(approvals) : approvals[k].upto \in 0..Len(answers)
  <2> TAKE k \in 1..Len(approvals)
  <2>1. approvals[k] \in ApprovalRecord
    BY ElementOfSeq DEF LogOK
  <2> QED
    BY <1>1, <2>1 DEF LogOK, ApprovalRecord
<1>3. A \subseteq 0..Len(answers) /\ approvals[n].upto \in A
  BY <1>1, <1>2
<1>4. Since(g) = IF A = {} THEN 0 ELSE Max(A)
  BY DEF Since, A
<1> HIDE DEF A
<1>5. A # {}
  BY <1>3
<1>6. Max(A) \in A /\ Max(A) >= approvals[n].upto
  BY <1>1, <1>3, <1>5, MaxIsMember
<1>7. Max(A) \in 0..Len(answers) /\ approvals[n].upto \in 0..Len(answers)
  BY <1>3, <1>6
<1>8. approvals[n].upto <= Max(A)
  BY <1>1, <1>6, <1>7
<1> QED
  BY <1>4, <1>5, <1>8

\* Of the commands only the one that moves can have become undisturbed.
LEMMA StepFresh ==
  ASSUME JobsOK, NEW p \in Proc, NEW j \in Command \cup {Idle}, Step(p, j),
         Fresh(j, mode', answers', approvals')
  PROVE  AllFresh'
<1>1. \A q \in Proc : job'[q] = IF q = p THEN j ELSE Disturbed(job[q])
  BY DEF Step
<1>2. \A q \in Proc : Fresh(Disturbed(job[q]), mode', answers', approvals')
  <2> TAKE q \in Proc
  <2>1. job[q] \in Command \cup {Idle}
    BY DEF JobsOK
  <2> QED
    BY <2>1 DEF Disturbed, Fresh, Command
<1>3. \A q \in Proc : Fresh(job'[q], mode', answers', approvals')
  BY <1>1, <1>2
<1> QED
  BY <1>3 DEF AllFresh

\* What is known of a command on its way, and of the answer it found.
LEMMA Rests ==
  ASSUME IInv, mode = "challenge", NEW p \in Proc, job[p].at \in {"clear", "append"}
  PROVE  /\ job[p] \in Command
         /\ job[p].ref \in job[p].since + 1..Len(answers)
         /\ job[p].ref \in 1..Len(answers)
         /\ answers[job[p].ref].code # 0
<1>1. job[p] \in Command /\ Good(job[p], mode, answers, madeFor) /\ job[p] # Idle
  BY DEF IInv, JobsOK, Idle
<1>2. Len(answers) \in Nat
  BY LenProperties DEF IInv, LogOK
<1>3. /\ job[p].ref \in job[p].since+1..job[p].read
      /\ answers[job[p].ref].code # 0 /\ job[p].read <= Len(answers)
  BY <1>1 DEF Good, Anchors
<1>4. job[p].since \in Nat /\ job[p].read \in Nat /\ job[p].ref \in Nat
  BY <1>1 DEF Command
<1> QED
  BY <1>1, <1>2, <1>3, <1>4

\* A code not made yet is carried by no answer.
LEMMA NewCodeIsNew ==
  ASSUME IInv, NEW n \in 1..Len(answers)
  PROVE  answers[n].code # Len(madeFor) + 1
<1>1. Len(madeFor) \in Nat
  BY LenProperties DEF IInv, LogOK
<1>2. answers[n] \in AnswerRecord
  BY ElementOfSeq DEF IInv, LogOK
<1> QED
  BY <1>1, <1>2 DEF IInv, LogOK, AnswerRecord

\* A command's step that writes no approval: what it makes pending, if
\* anything, is a new code.
LEMMA StepSpent ==
  ASSUME IInv, Spent, UNCHANGED <<mode, answers, approvals>>,
         challenge'.code \in {0, challenge.code, Len(madeFor) + 1},
         NEW p \in Proc, NEW j \in Command \cup {Idle}, Step(p, j),
         j.at = "append" /\ mode = "challenge" => answers[j.ref].code # challenge'.code
  PROVE  Spent'
<1> SUFFICES ASSUME mode = "challenge"
             PROVE  /\ \A n \in 1..Len(approvals) :
                         /\ approvals[n].ref \in 1..Len(answers)
                         /\ answers[approvals[n].ref].code \notin {0, challenge'.code}
                    /\ \A q \in Proc :
                         job'[q].at = "append" => answers[job'[q].ref].code # challenge'.code
  BY DEF Spent
<1>1. \A n \in 1..Len(approvals) :
        /\ approvals[n].ref \in 1..Len(answers)
        /\ answers[approvals[n].ref].code \notin {0, challenge'.code}
  BY NewCodeIsNew DEF Spent
<1>2. \A q \in Proc : job'[q] = IF q = p THEN j ELSE Disturbed(job[q])
  BY DEF Step
<1>3. ASSUME NEW q \in Proc, q # p, Disturbed(job[q]).at = "append"
      PROVE  answers[Disturbed(job[q]).ref].code # challenge'.code
  <2>1. job[q] \in Command /\ job[q].at = "append" /\ Disturbed(job[q]).ref = job[q].ref
    <3>1. job[q] \in Command \cup {Idle}
      BY DEF IInv, JobsOK
    <3> QED
      BY <1>3, <3>1 DEF Disturbed, Command, Idle
  <2>2. job[q].ref \in 1..Len(answers) /\ answers[job[q].ref].code # 0
    BY <2>1, Rests
  <2>3. answers[job[q].ref].code # challenge.code
    BY <2>1 DEF Spent
  <2> QED
    BY <2>1, <2>2, <2>3, NewCodeIsNew
<1> QED
  BY <1>1, <1>2, <1>3

\* Every step keeps it.
LEMMA UseInductive ==
  ASSUME UInv, [Next]_vars
  PROVE  UInv'
<1> USE DEF UInv
<1>0. IInv' /\ Len(answers) \in Nat /\ Len(madeFor) \in Nat /\ Len(approvals) \in Nat
  BY NextKeeps, LenProperties DEF IInv, LogOK
<1>j. /\ JobsOK
      /\ \A p \in Proc : /\ job[p] \in Command \cup {Idle}
                         /\ job[p].at # "idle" => job[p] \in Command
  BY DEF IInv, JobsOK, Idle
<1>i. /\ \A md, ans, apps : Fresh(Idle, md, ans, apps)
      /\ Idle.at # "append" /\ NoChallenge.code = 0
  BY DEF Fresh, Idle, NoChallenge
<1>1. ASSUME NEW topic \in Gate \cup {NoTopic}, NEW code \in 0..Len(madeFor),
             CaptureQuestion(topic, code)
      PROVE  Spent' /\ AllFresh'
  <2> DEFINE e == [topic |-> topic, code |-> code]
  <2>1. e \in AnswerRecord
    BY <1>0 DEF AnswerRecord
  <2>2. answers' = Append(answers, e) /\ UNCHANGED <<mode, approvals, challenge>>
    BY <1>1 DEF CaptureQuestion
  <2> HIDE DEF e
  <2>3. /\ Len(answers') = Len(answers) + 1
        /\ \A n \in 1..Len(answers) : answers'[n] = answers[n]
    BY <2>1, <2>2, Appended DEF IInv, LogOK
  <2>4. \A q \in Proc : job'[q] = Disturbed(job[q])
    BY <1>1 DEF CaptureQuestion
  <2>5. AllFresh'
    BY <1>j, <2>4 DEF AllFresh, Disturbed, Fresh, Command
  <2>6. Spent'
    <3> SUFFICES ASSUME mode = "challenge"
                 PROVE  /\ \A n \in 1..Len(approvals) :
                             /\ approvals[n].ref \in 1..Len(answers')
                             /\ answers'[approvals[n].ref].code \notin {0, challenge.code}
                        /\ \A q \in Proc :
                             job'[q].at = "append" => answers'[job'[q].ref].code # challenge.code
      BY <2>2 DEF Spent
    <3>1. ASSUME NEW n \in 1..Len(approvals)
          PROVE  /\ approvals[n].ref \in 1..Len(answers')
                 /\ answers'[approvals[n].ref].code \notin {0, challenge.code}
      <4>1. /\ approvals[n].ref \in 1..Len(answers)
            /\ answers[approvals[n].ref].code \notin {0, challenge.code}
        BY DEF Spent
      <4> QED
        BY <1>0, <2>3, <4>1
    <3>2. ASSUME NEW q \in Proc, job'[q].at = "append"
          PROVE  answers'[job'[q].ref].code # challenge.code
      <4>1. job[q].at = "append" /\ job'[q].ref = job[q].ref
        BY <1>j, <2>4, <3>2 DEF Disturbed, Command, Idle
      <4>2. job[q].ref \in 1..Len(answers) /\ answers[job[q].ref].code # challenge.code
        BY <4>1, Rests DEF Spent
      <4> QED
        BY <2>3, <4>1, <4>2
    <3> QED
      BY <3>1, <3>2
  <2> QED
    BY <2>5, <2>6
<1>2. ASSUME NEW p \in Proc, NEW gate \in Gate, BeginApprove(p, gate)
      PROVE  Spent' /\ AllFresh'
  <2> DEFINE alone == \A q \in Proc : job[q] = Idle
             j == [at |-> "anchor", gate |-> gate, since |-> Since(gate),
                   read |-> Len(answers), ref |-> 0, alone |-> alone]
  <2>1. Step(p, j) /\ UNCHANGED <<mode, answers, approvals, challenge>>
    BY <1>2 DEF BeginApprove
  <2>2. alone \in BOOLEAN
    OBVIOUS
  <2> HIDE DEF alone
  <2>3. j \in Command /\ j.at = "anchor" /\ j.gate = gate /\ j.since = Since(gate)
    BY <1>0, <2>2, SinceIsNumber DEF Command, IInv
  <2> HIDE DEF j
  <2>4. Fresh(j, mode', answers', approvals')
    BY <2>1, <2>3, SinceIsLast DEF Fresh, IInv
  <2> QED
    BY <1>j, <2>1, <2>3, <2>4, StepFresh, StepSpent
<1>3. ASSUME NEW p \in Proc, AnchorPlain(p)
      PROVE  Spent' /\ AllFresh'
  <2> DEFINE ref == Anchor(job[p])
             j == [job[p] EXCEPT !.at = "append", !.ref = ref]
  <2>1. /\ mode # "challenge" /\ UNCHANGED <<mode, answers, approvals, challenge>>
        /\ job[p] \in Command
    BY <1>3, <1>j DEF AnchorPlain
  <2>2. Step(p, j) \/ Step(p, Idle)
    BY <1>3 DEF AnchorPlain, Found
  <2>3. Spent'
    BY <2>1 DEF Spent
  <2>4. Fresh(j, mode', answers', approvals')
    <3> HIDE DEF ref
    <3>1. j # Idle => j.alone = job[p].alone /\ j.gate = job[p].gate /\ j.since = job[p].since
      BY <2>1 DEF Command
    <3> HIDE DEF j
    <3>2. Fresh(job[p], mode, answers, approvals) /\ job[p] # Idle
      BY <2>1 DEF AllFresh, Command, Idle
    <3> QED
      BY <2>1, <3>1, <3>2 DEF Fresh
  <2>5. job'[p] \in Command \cup {Idle} /\ Step(p, job'[p])
    BY <1>0, <2>2 DEF IInv, JobsOK, Step
  <2>6. Fresh(job'[p], mode', answers', approvals')
    <3>1. job'[p] = j \/ job'[p] = Idle
      BY <2>2 DEF Step
    <3> HIDE DEF j
    <3> QED
      BY <1>i, <2>4, <3>1
  <2> QED
    BY <1>j, <2>3, <2>5, <2>6, StepFresh
<1>4. ASSUME NEW p \in Proc, AnchorCode(p)
      PROVE  Spent' /\ AllFresh'
  <2> DEFINE ref == AnchorWith(challenge.code, job[p])
             j == [job[p] EXCEPT !.at = "clear", !.ref = ref]
  <2>1. /\ mode = "challenge" /\ UNCHANGED <<mode, answers, approvals, challenge>>
        /\ job[p] \in Command /\ job[p].read <= Len(answers)
        /\ challenge.gate = job[p].gate
    BY <1>4, <1>j DEF AnchorCode, IInv, JobsOK, Good, Idle
  <2>2. (ref # 0 /\ Step(p, j)) \/ Step(p, Idle)
    BY <1>4 DEF AnchorCode, Found
  <2>3. ref # 0 => answers[ref].code = challenge.code
    <3> DEFINE S == Carrying(TopicCands(job[p]), challenge.code)
               T == Carrying(PlainCands(job[p]), challenge.code)
    <3>1. job[p].read \in Nat /\ job[p].since \in Nat
      BY <2>1 DEF Command
    <3>2. S \in SUBSET (0..job[p].read) /\ T \in SUBSET (0..job[p].read)
      BY <3>1 DEF TopicCands, PlainCands, Carrying
    <3>3. ref \in S \cup T \cup {0}
      BY <3>1, <3>2, PreferredIsOne DEF AnchorWith
    <3> QED
      BY <3>3 DEF Carrying
  <2>4. ref # 0 => Fresh(j, mode', answers', approvals')
    <3> HIDE DEF ref
    <3>1. /\ j.alone = job[p].alone /\ j.gate = job[p].gate
          /\ j.since = job[p].since /\ j.ref = ref
      BY <2>1 DEF Command
    <3> HIDE DEF j
    <3>2. Fresh(job[p], mode, answers, approvals) /\ job[p] # Idle
      BY <2>1 DEF AllFresh, Command, Idle
    <3>3. \A n \in 1..Len(approvals) : answers[approvals[n].ref].code # challenge.code
      BY <2>1 DEF Spent
    <3> QED
      BY <2>1, <2>3, <3>1, <3>2, <3>3 DEF Fresh
  <2>5. job'[p] \in Command \cup {Idle} /\ Step(p, job'[p])
    BY <1>0, <2>2 DEF IInv, JobsOK, Step
  <2>6. /\ Fresh(job'[p], mode', answers', approvals')
        /\ job'[p].at # "append"
    <3> HIDE DEF ref
    <3>1. (ref # 0 /\ job'[p] = j) \/ job'[p] = Idle
      BY <2>2 DEF Step
    <3>2. j.at = "clear"
      BY <2>1 DEF Command
    <3> HIDE DEF j
    <3> QED
      BY <1>i, <2>4, <3>1, <3>2
  <2> QED
    BY <1>j, <2>1, <2>5, <2>6, StepFresh, StepSpent
<1>5. ASSUME NEW p \in Proc, MissCode(p)
      PROVE  Spent' /\ AllFresh'
  <2> DEFINE j == [job[p] EXCEPT !.at = "mint"]
  <2>1. /\ UNCHANGED <<mode, answers, approvals, challenge>> /\ Step(p, j)
        /\ job[p] \in Command
    BY <1>5, <1>j DEF MissCode
  <2>2. /\ j \in Command /\ j.at = "mint"
        /\ j.alone = job[p].alone /\ j.gate = job[p].gate /\ j.since = job[p].since
    BY <2>1 DEF Command
  <2> HIDE DEF j
  <2>3. Fresh(j, mode', answers', approvals')
    <3>1. Fresh(job[p], mode, answers, approvals) /\ job[p] # Idle
      BY <2>1 DEF AllFresh, Command, Idle
    <3> QED
      BY <2>1, <2>2, <3>1 DEF Fresh
  <2> QED
    BY <1>j, <2>1, <2>2, <2>3, StepFresh, StepSpent
<1>6. ASSUME NEW p \in Proc, MintCode(p)
      PROVE  Spent' /\ AllFresh'
  <2>1. /\ UNCHANGED <<mode, answers, approvals>> /\ Step(p, Idle)
        /\ challenge'.code = Len(madeFor) + 1
    BY <1>6 DEF MintCode, NewCode
  <2> QED
    BY <1>j, <1>i, <2>1, StepFresh, StepSpent
<1>7. ASSUME NEW p \in Proc, ClearChallenge(p)
      PROVE  Spent' /\ AllFresh'
  <2> DEFINE j == [job[p] EXCEPT !.at = "append"]
  <2>1. /\ UNCHANGED <<mode, answers, approvals>> /\ Step(p, j)
        /\ job[p] \in Command /\ job[p].at = "clear" /\ challenge'.code = 0
    BY <1>7, <1>j, <1>i DEF ClearChallenge, Cleared
  <2>2. /\ j \in Command /\ j.at = "append" /\ j.ref = job[p].ref
        /\ j.alone = job[p].alone /\ j.gate = job[p].gate /\ j.since = job[p].since
    BY <2>1 DEF Command
  <2> HIDE DEF j
  <2>3. Fresh(j, mode', answers', approvals')
    <3>1. Fresh(job[p], mode, answers, approvals) /\ job[p] # Idle
      BY <2>1 DEF AllFresh, Command, Idle
    <3> QED
      BY <2>1, <2>2, <3>1 DEF Fresh
  <2>4. mode = "challenge" => answers[j.ref].code # 0
    BY <2>1, <2>2, Rests
  <2> QED
    BY <1>j, <2>1, <2>2, <2>3, <2>4, StepFresh, StepSpent
<1>8. ASSUME NEW p \in Proc, AppendApproval(p)
      PROVE  Spent' /\ AllFresh'
  <2> DEFINE e == [gate |-> job[p].gate, ref |-> job[p].ref, upto |-> Len(answers)]
  <2>1. /\ job[p] \in Command /\ job[p].at = "append" /\ Step(p, Idle)
        /\ UNCHANGED <<mode, answers, challenge>> /\ approvals' = Append(approvals, e)
    BY <1>8, <1>j DEF AppendApproval
  <2>2. e \in ApprovalRecord /\ e.ref = job[p].ref
    BY <1>0, <2>1 DEF ApprovalRecord, Command
  <2> HIDE DEF e
  <2>3. /\ Len(approvals') = Len(approvals) + 1
        /\ \A n \in 1..Len(approvals) : approvals'[n] = approvals[n]
        /\ approvals'[Len(approvals) + 1] = e
    BY <2>1, <2>2, Appended DEF IInv, LogOK
  <2>4. Spent'
    <3> SUFFICES ASSUME mode = "challenge"
                 PROVE  /\ \A n \in 1..Len(approvals') :
                             /\ approvals'[n].ref \in 1..Len(answers)
                             /\ answers[approvals'[n].ref].code \notin {0, challenge.code}
                        /\ \A q \in Proc :
                             job'[q].at = "append" => answers[job'[q].ref].code # challenge.code
      BY <2>1 DEF Spent
    <3>1. /\ e.ref \in 1..Len(answers)
          /\ answers[e.ref].code \notin {0, challenge.code}
      BY <2>1, <2>2, Rests DEF Spent
    <3>2. ASSUME NEW n \in 1..Len(approvals')
          PROVE  /\ approvals'[n].ref \in 1..Len(answers)
                 /\ answers[approvals'[n].ref].code \notin {0, challenge.code}
      <4>1. n \in 1..Len(approvals) \/ n = Len(approvals) + 1
        BY <1>0, <2>3
      <4> QED
        BY <2>3, <3>1, <4>1 DEF Spent
    <3>3. ASSUME NEW q \in Proc, job'[q].at = "append"
          PROVE  answers[job'[q].ref].code # challenge.code
      <4>1. job'[q] = Disturbed(job[q])
        BY <1>i, <2>1, <3>3 DEF Step
      <4>2. job[q].at = "append" /\ job'[q].ref = job[q].ref
        BY <1>j, <3>3, <4>1 DEF Disturbed, Command, Idle
      <4> QED
        BY <4>2 DEF Spent
    <3> QED
      BY <3>2, <3>3
  <2> QED
    BY <1>j, <1>i, <2>1, <2>4, StepFresh
<1>9. ASSUME NEW p \in Proc, Kill(p)
      PROVE  Spent' /\ AllFresh'
  <2>1. UNCHANGED <<mode, answers, approvals, challenge>> /\ Step(p, Idle)
    BY <1>9 DEF Kill
  <2> QED
    BY <1>j, <1>i, <2>1, StepFresh, StepSpent
<1>10. ASSUME UNCHANGED vars
       PROVE  Spent' /\ AllFresh'
  <2>1. UNCHANGED <<mode, answers, approvals, challenge, job>>
    BY <1>10 DEF vars
  <2> QED
    BY <2>1 DEF Spent, AllFresh
<1> QED
  BY <1>0, <1>1, <1>2, <1>3, <1>4, <1>5, <1>6, <1>7, <1>8, <1>9, <1>10 DEF Next

\* An approval that nobody disturbed rests on an answer that none of its gate
\* rested on before, and in challenge mode on a code that none did.
THEOREM AnswersAreUsedOnce == Spec => SingleUse
<1>1. Init => UInv
  <2> SUFFICES ASSUME Init
               PROVE  UInv
    OBVIOUS
  <2>1. Len(approvals) = 0
    BY DEF Init
  <2>2. \A p \in Proc : job[p] = Idle
    BY DEF Init
  <2> QED
    BY <2>1, <2>2, InitHolds DEF UInv, Spent, AllFresh, Fresh, Idle
<1>2. UInv /\ [Next]_vars => UInv'
  BY UseInductive
<1>3. ASSUME UInv, NEW p \in Proc, job[p].at = "append", Alone(p), job[p].ref # 0,
             NEW n \in DOMAIN approvals
      PROVE  /\ approvals[n].gate = job[p].gate => approvals[n].ref # job[p].ref
             /\ mode = "challenge" =>
                  answers[approvals[n].ref].code # answers[job[p].ref].code
  <2>1. n \in 1..Len(approvals)
    BY <1>3, LenProperties DEF UInv, IInv, LogOK
  <2>2. Fresh(job[p], mode, answers, approvals) /\ job[p] # Idle /\ job[p].alone
    BY <1>3 DEF UInv, AllFresh, Alone
  <2>3. mode = "challenge" => answers[approvals[n].ref].code # answers[job[p].ref].code
    BY <1>3, <2>1, <2>2 DEF Fresh
  <2>4. ASSUME approvals[n].gate = job[p].gate
        PROVE  approvals[n].ref # job[p].ref
    <3>1. approvals[n].upto <= job[p].since /\ approvals[n].ref <= approvals[n].upto
      BY <1>3, <2>1, <2>2, <2>4 DEF Fresh, UInv, IInv, LogOK
    <3>2. job[p] \in Command /\ Good(job[p], mode, answers, madeFor)
      BY <1>3, <2>2 DEF UInv, IInv, JobsOK
    <3>3. job[p].ref \in job[p].since+1..job[p].read
      BY <1>3, <2>2, <3>2 DEF Good, Anchors
    <3>4. approvals[n] \in ApprovalRecord
      BY <1>3, <2>1, ElementOfSeq DEF UInv, IInv, LogOK
    <3>5. /\ approvals[n].ref \in Nat /\ approvals[n].upto \in Nat
          /\ job[p].since \in Nat /\ job[p].read \in Nat
      BY <3>2, <3>4 DEF Command, ApprovalRecord
    <3> QED
      BY <3>1, <3>3, <3>5
  <2> QED
    BY <2>3, <2>4
<1>4. UInv /\ [Next]_vars =>
        [\A p \in Proc :
           /\ job[p].at = "append" /\ Alone(p)
           /\ approvals' # approvals /\ job[p].ref # 0
           => \A n \in DOMAIN approvals :
                /\ approvals[n].gate = job[p].gate => approvals[n].ref # job[p].ref
                /\ mode = "challenge" =>
                     answers[approvals[n].ref].code # answers[job[p].ref].code]_vars
  BY <1>3
<1> QED
  BY <1>1, <1>2, <1>4, PTL DEF Spec, SingleUse

=============================================================================
