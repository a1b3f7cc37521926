--------------------------- MODULE Lessons_proofs ---------------------------
(***************************************************************************)
(* Proofs about Lessons, for every set of texts, checks, packs and plugin  *)
(* versions, and every number of processes, events, runs, commands, kills  *)
(* and edits: nothing unaccepted is enforced, and a command that nothing   *)
(* disturbed leaves the two files as the lessons say, in a workflow that   *)
(* loads, and proposes nothing that was proposed before.                   *)
(***************************************************************************)
EXTENDS Lessons, WellFoundedInduction, SequenceTheorems, TLAPS

-----------------------------------------------------------------------------
(* The inductive invariant.                                                *)

\* A record is created by the event it is named after; what updates it names
\* a record there is and repeats its text.
LogOK ==
  /\ log \in Seq(LessonEvent)
  /\ \A n \in 1..Len(log) :
       /\ log[n].rec \in 1..n
       /\ log[log[n].rec].rec = log[n].rec
       /\ log[log[n].rec].text = log[n].text

\* A triage is of a record there is and so are the rules, a copy is of files of
\* its pack, and there is something left to suggest.
InHand(j) ==
  /\ j.at = "suggest" => j.todo # {}
  /\ j.at \in {"approve", "record"} => j.rec \in LessonRecords
  /\ j.at = "rules" => j.prose \subseteq LessonRecords
  /\ j.at = "copy" => j.todo \subseteq DOMAIN j.pack

JobsOK == \A p \in Proc : InHand(job[p])

Types == TypeOK /\ LogOK /\ JobsOK

Ever == {log[n].rec : n \in {m \in 1..Len(log) : log[m].status = "accepted"}}

\* Each of the items is of a lesson that was accepted at some time.
Sourced(items) ==
  \A n \in DOMAIN items :
    \E rec \in Ever : Check[TextOf(rec)].form = "item" /\ ItemOf(rec) = items[n]

\* In the files and in the hands of those about to write them.
NothingForged ==
  /\ rules \subseteq Ever
  /\ LessonsFile \in DOMAIN ext => Sourced(ext[LessonsFile].items)
  /\ \A p \in Proc : /\ job[p].at = "yaml" => Sourced(job[p].items)
                     /\ job[p].at = "rules" => job[p].prose \subseteq Ever

\* The names lessons.yaml has, and those it is to have.
Enforced == IF LessonsFile \in DOMAIN ext THEN Names(ext[LessonsFile].items) ELSE {}

ToEnforce == {ItemOf(rec).name : rec \in AcceptedChecks}

\* What an undisturbed command knows: the workflow loads, as it is or with what
\* the command goes on to write; what it has read is still true; and what it
\* has written is there.
Fit(j) ==
  /\ j.at \notin {"yaml", "copy"} => Loads(Plugin[plugin], ext)
  /\ j.at = "suggest" => \A c \in j.todo : Suggestible[c] \notin Known
  /\ j.at = "yaml" =>
       /\ Loads(Plugin[plugin], WithLessons(j.items))
       /\ j.items = AcceptedCheckItems
  /\ j.at \in {"prose", "rules"} => Enforced = ToEnforce
  /\ j.at = "rules" => j.prose = AcceptedProse
  /\ j.at = "copy" =>
       /\ Loads(Plugin[plugin], With(j.pack))
       /\ \A f \in DOMAIN j.pack \ j.todo : f \in DOMAIN ext /\ ext[f] = j.pack[f]

AllFit == \A p \in Proc : job[p] # Idle /\ job[p].alone => Fit(job[p])

IInv == Types /\ AllFit

-----------------------------------------------------------------------------
(* The last of some events.                                                *)

\* A nonempty set of numbers up to a bound has a smallest member.
LEMMA MinIsMember ==
  ASSUME NEW b \in Nat, NEW S \in SUBSET (0..b), S # {}
  PROVE  Min(S) \in S /\ \A y \in S : Min(S) <= y
<1> DEFINE R == {ss \in Nat \X Nat : ss[1] < ss[2]}
<1>1. S \subseteq Nat
  OBVIOUS
<1>2. IsWellFoundedOn(R, Nat)
  BY NatLessThanWellFounded, Zenon DEF OpToRel
<1> HIDE DEF R
<1>3. PICK x \in S : \A y \in S : ~ (<<y, x>> \in R)
  BY <1>1, <1>2, WFMin, Zenon
<1>4. \A y \in S : x <= y
  <2> TAKE y \in S
  <2>1. x \in Nat /\ y \in Nat
    BY <1>1
  <2>2. <<y, x>> \in R <=> y < x
    BY <2>1 DEF R
  <2> QED
    BY <1>3, <2>1, <2>2
<1> QED
  BY <1>4 DEF Min

\* And a largest one.
LEMMA MaxIsMember ==
  ASSUME NEW b \in Nat, NEW S \in SUBSET (0..b), S # {}
  PROVE  Max(S) \in S /\ \A y \in S : y <= Max(S)
<1> DEFINE T == {b - x : x \in S}
<1>1. \A x \in S : x \in 0..b
  OBVIOUS
<1>2. T \in SUBSET (0..b)
  BY <1>1
<1>3. T # {}
  OBVIOUS
<1>4. \A x \in S : b - x \in T
  OBVIOUS
<1>5. \A t \in T : \E x \in S : t = b - x
  OBVIOUS
<1> HIDE DEF T
<1>6. PICK m : m = Min(T)
  OBVIOUS
<1>7. m \in T /\ \A t \in T : m <= t
  BY <1>2, <1>3, <1>6, MinIsMember
<1>8. PICK x \in S : m = b - x
  BY <1>5, <1>7
<1>9. \A y \in S : y <= x
  <2> TAKE y \in S
  <2>1. b - x <= b - y
    BY <1>4, <1>7, <1>8
  <2> QED
    BY <1>1, <2>1
<1>10. \A y \in S : x >= y
  BY <1>1, <1>9
<1>11. PICK z : z = Max(S)
  OBVIOUS
<1>12. z \in S /\ \A y \in S : z >= y
  BY <1>10, <1>11 DEF Max
<1>13. \A y \in S : y <= z
  BY <1>1, <1>12
<1> QED
  BY <1>11, <1>12, <1>13

-----------------------------------------------------------------------------
(* Lesson records.                                                         *)

\* The log in the form the proofs need.
LEMMA LogIs ==
  ASSUME LogOK
  PROVE  /\ Len(log) \in Nat /\ DOMAIN log = 1..Len(log)
         /\ \A n \in 1..Len(log) : log[n] \in LessonEvent
         /\ \A n \in 1..Len(log) : log[n].rec \in 1..n /\ log[n].rec \in 1..Len(log)
<1>1. log \in Seq(LessonEvent)
  BY DEF LogOK
<1>2. /\ Len(log) \in Nat /\ DOMAIN log = 1..Len(log)
      /\ \A n \in 1..Len(log) : log[n] \in LessonEvent
  BY <1>1, LenProperties
<1> QED
  BY <1>2 DEF LogOK

\* A record exists by the events about it.
LEMMA RecordsAre ==
  ASSUME LogOK
  PROVE  /\ \A rec : rec \in LessonRecords <=> \E n \in 1..Len(log) : log[n].rec = rec
         /\ LessonRecords = Recorded
<1>1. DOMAIN log = 1..Len(log)
  BY LogIs
<1> QED
  BY <1>1 DEF LessonRecords, Recorded, Range

\* Its first event creates it, its last gives its status.
LEMMA RecordIs ==
  ASSUME LogOK, NEW rec \in LessonRecords
  PROVE  /\ rec \in 1..Len(log) /\ log[rec].rec = rec
         /\ TextOf(rec) = log[rec].text /\ TextOf(rec) \in Text
         /\ RunOf(rec) = log[rec].run
         /\ \E n \in 1..Len(log) : log[n].rec = rec /\ log[n].status = StatusOf(rec)
<1> DEFINE S == EventsOf(rec)
           N == Len(log)
<1>1. /\ N \in Nat /\ DOMAIN log = 1..N
      /\ \A n \in 1..N : log[n] \in LessonEvent
      /\ \A n \in 1..N : log[n].rec \in 1..n /\ log[n].rec \in 1..N
  BY LogIs
<1>2. PICK m \in 1..N : log[m].rec = rec
  BY RecordsAre
<1>3. rec \in 1..N /\ log[rec].rec = rec
  BY <1>1, <1>2 DEF LogOK
<1>4. \A n : n \in S <=> n \in 1..N /\ log[n].rec = rec
  BY <1>1 DEF EventsOf
<1> HIDE DEF S
<1>5. S \in SUBSET (0..N) /\ S # {} /\ rec \in S
  BY <1>1, <1>3, <1>4
<1>6. PICK lo, hi : lo = Min(S) /\ hi = Max(S)
  OBVIOUS
<1>7. lo \in S /\ (\A y \in S : lo <= y) /\ hi \in S
  BY <1>1, <1>5, <1>6, MinIsMember, MaxIsMember
<1>8. lo = rec
  <2>1. lo <= rec /\ lo \in 1..N /\ log[lo].rec = rec
    BY <1>4, <1>5, <1>7
  <2>2. rec \in 1..lo
    BY <1>1, <2>1
  <2> QED
    BY <1>1, <1>3, <2>1, <2>2
<1>9. TextOf(rec) = log[rec].text /\ RunOf(rec) = log[rec].run /\ StatusOf(rec) = log[hi].status
  BY <1>6, <1>8 DEF TextOf, RunOf, StatusOf, S
<1>10. log[rec].text \in Text
  BY <1>1, <1>3 DEF LessonEvent
<1> QED
  BY <1>3, <1>4, <1>7, <1>9, <1>10

\* Each text in the log is one of a record.
LEMMA TextsAreKnown ==
  ASSUME LogOK, NEW n \in 1..Len(log)
  PROVE  log[n].rec \in LessonRecords /\ log[n].text = TextOf(log[n].rec) /\ log[n].text \in Known
<1>1. log[n].rec \in LessonRecords
  BY RecordsAre
<1>2. log[n].text = TextOf(log[n].rec)
  BY <1>1, RecordIs DEF LogOK
<1> QED
  BY <1>1, <1>2 DEF Known

\* What is accepted was accepted some time.
LEMMA AcceptedIsEver ==
  ASSUME LogOK
  PROVE  Accepted \subseteq Ever
<1> SUFFICES ASSUME NEW rec \in Accepted PROVE rec \in Ever
  OBVIOUS
<1>1. rec \in LessonRecords /\ StatusOf(rec) = "accepted"
  BY DEF Accepted
<1>2. PICK n \in 1..Len(log) : log[n].rec = rec /\ log[n].status = StatusOf(rec)
  BY <1>1, RecordIs
<1> QED
  BY <1>1, <1>2 DEF Ever

LEMMA EverAreRecords ==
  ASSUME LogOK
  PROVE  Ever \subseteq LessonRecords
  BY RecordsAre DEF Ever

\* The items are those of the accepted lessons with a check, and have the names
\* of all of them.
LEMMA ItemsAre ==
  ASSUME LogOK
  PROVE  /\ DOMAIN AcceptedCheckItems \subseteq AcceptedChecks
         /\ AcceptedChecks \subseteq 1..Len(log)
         /\ AcceptedCheckItems \in [DOMAIN AcceptedCheckItems -> CheckItem]
         /\ \A rec \in DOMAIN AcceptedCheckItems : AcceptedCheckItems[rec] = ItemOf(rec)
         /\ Names(AcceptedCheckItems) = ToEnforce
<1> DEFINE A == AcceptedChecks
           K == {r \in A : \A q \in A : ItemOf(q).name = ItemOf(r).name => r <= q}
           N == Len(log)
<1>1. N \in Nat
  BY LogIs
<1>2. AcceptedCheckItems = [rec \in K |-> ItemOf(rec)]
  BY DEF AcceptedCheckItems
<1>3. A \subseteq LessonRecords /\ \A rec \in A : Check[TextOf(rec)].form = "item"
  BY DEF AcceptedChecks, Accepted
<1>4. A \subseteq 1..N /\ \A rec \in A : ItemOf(rec) \in CheckItem
  <2> SUFFICES ASSUME NEW rec \in A PROVE rec \in 1..N /\ ItemOf(rec) \in CheckItem
    OBVIOUS
  <2>1. rec \in LessonRecords /\ Check[TextOf(rec)].form = "item"
    BY <1>3
  <2>2. rec \in 1..N /\ TextOf(rec) \in Text
    BY <2>1, RecordIs
  <2> QED
    BY <2>1, <2>2 DEF CheckItem, ItemOf
<1>5. ASSUME NEW rec \in A
      PROVE  \E r \in K : ItemOf(r).name = ItemOf(rec).name
  <2> DEFINE S == {q \in A : ItemOf(q).name = ItemOf(rec).name}
  <2>2. \A q : q \in S <=> q \in A /\ ItemOf(q).name = ItemOf(rec).name
    OBVIOUS
  <2>0. A \subseteq 0..N
    BY <1>1, <1>4
  <2> HIDE DEF A
  <2>1. S \in SUBSET (0..N) /\ S # {}
    BY <2>0
  <2> HIDE DEF S
  <2>3. PICK r \in S : \A y \in S : r <= y
    BY <1>1, <2>1, MinIsMember
  <2>4. r \in A /\ ItemOf(r).name = ItemOf(rec).name
    BY <2>2
  <2>5. \A q \in A : ItemOf(q).name = ItemOf(r).name => r <= q
    BY <2>2, <2>3, <2>4
  <2> QED
    BY <2>4, <2>5
<1>6. K \subseteq A
  OBVIOUS
<1> HIDE DEF K, A
<1>7. /\ DOMAIN AcceptedCheckItems = K
      /\ \A rec \in K : AcceptedCheckItems[rec] = ItemOf(rec)
  BY <1>2
<1>8. Names(AcceptedCheckItems) = {ItemOf(rec).name : rec \in K}
  BY <1>7 DEF Names
<1>9. {ItemOf(rec).name : rec \in K} = {ItemOf(rec).name : rec \in A}
  BY <1>5, <1>6
<1>10. AcceptedCheckItems \in [K -> CheckItem]
  BY <1>2, <1>4, <1>6
<1> QED
  BY <1>4, <1>6, <1>7, <1>8, <1>9, <1>10 DEF ToEnforce, A

-----------------------------------------------------------------------------
(* One more event.                                                         *)

\* An event the model may append: of a new record, or of one there is.
Fitting(e) ==
  /\ e \in LessonEvent
  /\ \/ e.rec = Len(log) + 1
     \/ e.rec \in LessonRecords /\ e.text = TextOf(e.rec)

LEMMA LogGrows ==
  ASSUME LogOK, Room, NEW e, Fitting(e), log' = Append(log, e)
  PROVE  /\ LogOK'
         /\ Len(log') = Len(log) + 1 /\ Len(log') <= MaxEvents
         /\ \A n \in 1..Len(log) : log'[n] = log[n]
         /\ log'[Len(log) + 1] = e
<1> DEFINE N == Len(log)
<1>1. /\ N \in Nat /\ DOMAIN log = 1..N
      /\ \A n \in 1..N : log[n].rec \in 1..n /\ log[n].rec \in 1..N
  BY LogIs
<1>2. log \in Seq(LessonEvent) /\ e \in LessonEvent
  BY DEF LogOK, Fitting
<1>3. /\ log' \in Seq(LessonEvent) /\ Len(log') = N + 1
      /\ \A n \in 1..N : log'[n] = log[n]
      /\ log'[N + 1] = e
  BY <1>2, AppendProperties
<1>4. N + 1 <= MaxEvents
  BY <1>1, LessonsAssumption DEF Room
<1>5. e.rec = N + 1 \/ /\ e.rec \in 1..N
                       /\ log[e.rec].rec = e.rec /\ log[e.rec].text = e.text
  BY RecordIs DEF Fitting
<1> HIDE DEF N
<1>6. \A n \in 1..N : /\ log'[n].rec \in 1..n
                      /\ log'[log'[n].rec].rec = log'[n].rec
                      /\ log'[log'[n].rec].text = log'[n].text
  BY <1>1, <1>3 DEF LogOK, N
<1>7. /\ e.rec \in 1..N+1
      /\ log'[e.rec].rec = e.rec /\ log'[e.rec].text = e.text
  BY <1>1, <1>3, <1>5
<1>8. \A n \in 1..N+1 : n \in 1..N \/ n = N + 1
  BY <1>1
<1>9. LogOK'
  BY <1>3, <1>6, <1>7, <1>8 DEF LogOK
<1> QED
  BY <1>3, <1>4, <1>9 DEF N

-----------------------------------------------------------------------------
(* Commands.                                                               *)

\* Commands at the same place with the same in hand.
Same(j, k) ==
  /\ k.at = j.at
  /\ j.at = "suggest" => k.todo = j.todo
  /\ j.at \in {"approve", "record"} => k.rec = j.rec /\ k.status = j.status
  /\ j.at = "yaml" => k.items = j.items
  /\ j.at = "rules" => k.prose = j.prose
  /\ j.at = "copy" => k.pack = j.pack /\ k.todo = j.todo

\* One beside which something happened.
LEMMA DisturbedIs ==
  ASSUME NEW j \in Job
  PROVE  /\ Disturbed(j) \in Job /\ Same(j, Disturbed(j))
         /\ j = Idle => Disturbed(j) = Idle
         /\ j # Idle => Disturbed(j) # Idle /\ Disturbed(j).alone = FALSE
<1> DEFINE ItemFile == UNION {[K -> CheckItem] : K \in SUBSET (1..MaxEvents)}
           Files == UNION {DOMAIN pack : pack \in Pack}
           k == [j EXCEPT !.alone = FALSE]
<1>0. ASSUME j # Idle
      PROVE  Disturbed(j) = k
  BY <1>0 DEF Disturbed
<1>i. Idle.at = "idle"
  BY DEF Idle
<1>1. CASE j = Idle
  BY <1>1 DEF Disturbed, Same, Idle, Job
<1>2. CASE j \in [at : {"suggest"}, todo : SUBSET DOMAIN Suggestible, alone : BOOLEAN]
  <2>1. /\ k \in [at : {"suggest"}, todo : SUBSET DOMAIN Suggestible, alone : BOOLEAN]
        /\ k.alone = FALSE /\ k.todo = j.todo /\ k.at = j.at
        /\ j.at = "suggest"
    BY <1>2
  <2> QED
    BY <1>0, <1>i, <2>1 DEF Same, Job
<1>3. CASE j \in [at : {"approve", "record"}, rec : 1..MaxEvents,
                  status : {"accepted", "rejected"}, alone : BOOLEAN]
  <2>1. /\ k \in [at : {"approve", "record"}, rec : 1..MaxEvents,
                  status : {"accepted", "rejected"}, alone : BOOLEAN]
        /\ k.alone = FALSE /\ k.rec = j.rec /\ k.status = j.status /\ k.at = j.at
        /\ j.at \in {"approve", "record"}
    BY <1>3
  <2> QED
    BY <1>0, <1>i, <2>1 DEF Same, Job
<1>4. CASE j \in [at : {"collect", "prose"}, alone : BOOLEAN]
  <2>1. /\ k \in [at : {"collect", "prose"}, alone : BOOLEAN]
        /\ k.alone = FALSE /\ k.at = j.at
        /\ j.at \in {"collect", "prose"}
    BY <1>4
  <2> QED
    BY <1>0, <1>i, <2>1 DEF Same, Job
<1>5. CASE j \in [at : {"yaml"}, items : ItemFile, alone : BOOLEAN]
  <2> HIDE DEF ItemFile
  <2>1. /\ k \in [at : {"yaml"}, items : ItemFile, alone : BOOLEAN]
        /\ k.alone = FALSE /\ k.items = j.items /\ k.at = j.at
        /\ j.at = "yaml"
    BY <1>5
  <2> QED
    BY <1>0, <1>i, <2>1 DEF Same, Job, ItemFile
<1>6. CASE j \in [at : {"rules"}, prose : SUBSET (1..MaxEvents), alone : BOOLEAN]
  <2>1. /\ k \in [at : {"rules"}, prose : SUBSET (1..MaxEvents), alone : BOOLEAN]
        /\ k.alone = FALSE /\ k.prose = j.prose /\ k.at = j.at
        /\ j.at = "rules"
    BY <1>6
  <2> QED
    BY <1>0, <1>i, <2>1 DEF Same, Job
<1>7. CASE j \in [at : {"copy"}, pack : Pack, todo : SUBSET Files, alone : BOOLEAN]
  <2> HIDE DEF Files
  <2>1. /\ k \in [at : {"copy"}, pack : Pack, todo : SUBSET Files, alone : BOOLEAN]
        /\ k.alone = FALSE /\ k.pack = j.pack /\ k.todo = j.todo /\ k.at = j.at
        /\ j.at = "copy"
    BY <1>7
  <2> QED
    BY <1>0, <1>i, <2>1 DEF Same, Job, Files
<1> QED
  BY <1>1, <1>2, <1>3, <1>4, <1>5, <1>6, <1>7 DEF Job

\* The other commands in a step of p: as they were, and disturbed.
Others(p) ==
  \A q \in Proc \ {p} :
    /\ Same(job[q], job'[q])
    /\ job[q] = Idle => job'[q] = Idle
    /\ job[q] # Idle => job'[q] # Idle /\ job'[q].alone = FALSE

LEMMA JobStep ==
  ASSUME TypeOK, NEW p \in Proc, NEW j \in Job, Step(p, j)
  PROVE  job' \in [Proc -> Job] /\ job'[p] = j /\ Others(p)
<1>1. job \in [Proc -> Job]
  BY DEF TypeOK
<1>2. job' = [q \in Proc |-> IF q = p THEN j ELSE Disturbed(job[q])]
  BY DEF Step
<1>3. job'[p] = j /\ \A q \in Proc \ {p} : job'[q] = Disturbed(job[q])
  BY <1>2
<1>4. \A q \in Proc : job[q] \in Job /\ Disturbed(job[q]) \in Job
  BY <1>1, DisturbedIs
<1>5. job' \in [Proc -> Job]
  BY <1>2, <1>4
<1>6. Others(p)
  BY <1>3, <1>4, DisturbedIs DEF Others
<1> QED
  BY <1>3, <1>5, <1>6

LEMMA JobsDisturbed ==
  ASSUME TypeOK, Outside
  PROVE  /\ job' \in [Proc -> Job]
         /\ \A q \in Proc :
              /\ Same(job[q], job'[q])
              /\ job[q] = Idle => job'[q] = Idle
              /\ job[q] # Idle => job'[q] # Idle /\ job'[q].alone = FALSE
<1>1. job \in [Proc -> Job]
  BY DEF TypeOK
<1>2. job' = [q \in Proc |-> Disturbed(job[q])]
  BY DEF Outside
<1>3. \A q \in Proc : job[q] \in Job /\ Disturbed(job[q]) \in Job /\ job'[q] = Disturbed(job[q])
  BY <1>1, <1>2, DisturbedIs
<1>4. job' \in [Proc -> Job]
  BY <1>2, <1>3
<1> QED
  BY <1>3, <1>4, DisturbedIs

\* What there is to know of a record, also of the next state.
LEMMA RecordWillBe ==
  LogOK' => (\A rec \in LessonRecords : TextOf(rec) = log[rec].text)'
<1>1. LogOK => \A rec \in LessonRecords : TextOf(rec) = log[rec].text
  BY RecordIs
<1> QED
  BY <1>1, PTL

LEMMA RecordsWillBe ==
  LogOK' => (\A rec : rec \in LessonRecords <=> \E n \in 1..Len(log) : log[n].rec = rec)'
<1>1. LogOK => \A rec : rec \in LessonRecords <=> \E n \in 1..Len(log) : log[n].rec = rec
  BY RecordsAre
<1> QED
  BY <1>1, PTL

\* With one more event all that was recorded and accepted stays so.
LEMMA RecordsOn ==
  ASSUME LogOK, Room, NEW e, Fitting(e), log' = Append(log, e)
  PROVE  /\ LessonRecords \subseteq LessonRecords' /\ Ever \subseteq Ever'
         /\ \A rec \in LessonRecords : TextOf(rec)' = TextOf(rec)
         /\ \A items : Sourced(items) => Sourced(items)'
<1>1. /\ LogOK' /\ Len(log) \in Nat /\ Len(log') = Len(log) + 1
      /\ \A n \in 1..Len(log) : log'[n] = log[n]
  BY LogGrows, LogIs
<1>2. \A n \in 1..Len(log) : n \in 1..Len(log')
  BY <1>1
<1>3. ASSUME NEW rec \in LessonRecords
      PROVE  rec \in LessonRecords' /\ TextOf(rec)' = TextOf(rec)
  <2>1. rec \in 1..Len(log) /\ log[rec].rec = rec /\ TextOf(rec) = log[rec].text
    BY RecordIs
  <2>2. rec \in LessonRecords'
    BY <1>1, <1>2, <2>1, RecordsWillBe
  <2>3. TextOf(rec)' = log'[rec].text
    BY <1>1, <2>2, RecordWillBe
  <2> QED
    BY <1>1, <2>1, <2>2, <2>3
<1>4. Ever \subseteq Ever'
  BY <1>1, <1>2 DEF Ever
<1>5. ASSUME NEW items, Sourced(items)
      PROVE  Sourced(items)'
  <2> SUFFICES ASSUME NEW n \in DOMAIN items
               PROVE  \E rec \in Ever' : /\ Check[TextOf(rec)'].form = "item"
                                         /\ Check[TextOf(rec)'].item = items[n]
    BY DEF Sourced, ItemOf
  <2>1. PICK rec \in Ever : Check[TextOf(rec)].form = "item" /\ ItemOf(rec) = items[n]
    BY <1>5 DEF Sourced
  <2>2. rec \in LessonRecords /\ rec \in Ever'
    BY <1>4, EverAreRecords
  <2> QED
    BY <1>3, <2>1, <2>2 DEF ItemOf
<1> QED
  BY <1>3, <1>4, <1>5

\* Without one nothing about them changes.
LEMMA RecordsStay ==
  ASSUME log' = log
  PROVE  /\ LessonRecords' = LessonRecords /\ Ever' = Ever /\ Known' = Known
         /\ AcceptedProse' = AcceptedProse /\ AcceptedChecks' = AcceptedChecks
         /\ AcceptedCheckItems' = AcceptedCheckItems /\ ToEnforce' = ToEnforce
         /\ \A items : Sourced(items)' <=> Sourced(items)
<1>1. /\ LessonRecords' = LessonRecords /\ Ever' = Ever
      /\ \A rec : EventsOf(rec)' = EventsOf(rec)
  BY DEF LessonRecords, Ever, EventsOf
<1>2. \A rec : TextOf(rec)' = TextOf(rec) /\ StatusOf(rec)' = StatusOf(rec)
  BY <1>1 DEF TextOf, StatusOf
<1>3. \A rec : ItemOf(rec)' = ItemOf(rec)
  BY <1>2 DEF ItemOf
<1>4. Accepted' = Accepted
  BY <1>1, <1>2 DEF Accepted
<1>5. Known' = Known
  BY <1>1, <1>2 DEF Known
<1>6. AcceptedProse' = AcceptedProse /\ AcceptedChecks' = AcceptedChecks
  BY <1>2, <1>4 DEF AcceptedProse, AcceptedChecks
<1>7. AcceptedCheckItems' = AcceptedCheckItems /\ ToEnforce' = ToEnforce
  BY <1>3, <1>6 DEF AcceptedCheckItems, ToEnforce
<1>8. \A items : Sourced(items)' <=> Sourced(items)
  BY <1>1, <1>2, <1>3 DEF Sourced
<1> QED
  BY <1>1, <1>5, <1>6, <1>7, <1>8

\* Nor about what an undisturbed command knows, if the files stay too.
LEMMA FitStays ==
  ASSUME log' = log, ext' = ext, plugin' = plugin, NEW j, Fit(j)
  PROVE  Fit(j)'
<1>1. /\ Known' = Known /\ AcceptedProse' = AcceptedProse
      /\ AcceptedCheckItems' = AcceptedCheckItems /\ ToEnforce' = ToEnforce
  BY RecordsStay
<1>2. /\ \A items : WithLessons(items)' = WithLessons(items)
      /\ \A files : With(files)' = With(files)
      /\ Enforced' = Enforced
  BY DEF WithLessons, With, Without, Enforced
<1>3. /\ Loads(Plugin[plugin'], ext') <=> Loads(Plugin[plugin], ext)
      /\ \A items : Loads(Plugin[plugin'], WithLessons(items)') <=>
                    Loads(Plugin[plugin], WithLessons(items))
      /\ \A files : Loads(Plugin[plugin'], With(files)') <=>
                    Loads(Plugin[plugin], With(files))
  BY <1>2
<1> QED
  BY <1>1, <1>2, <1>3 DEF Fit

\* What a step leaves of types, commands in progress and what they know, once
\* the log is fine.
LEMMA StepKeeps ==
  ASSUME Types, NEW p \in Proc, NEW j \in Job, Step(p, j),
         LessonRecords \subseteq LessonRecords', InHand(j)'
  PROVE  /\ job' \in [Proc -> Job] /\ JobsOK' /\ job'[p] = j /\ Others(p)
         /\ (j # Idle /\ j.alone => Fit(j)') => AllFit'
<1>1. job' \in [Proc -> Job] /\ job'[p] = j /\ Others(p)
  BY JobStep DEF Types
<1>2. JobsOK'
  <2> SUFFICES ASSUME NEW q \in Proc
               PROVE  (InHand(job[q]))'
    BY DEF JobsOK
  <2>1. CASE q = p
    BY <1>1, <2>1 DEF InHand
  <2>2. CASE q # p
    <3>1. Same(job[q], job'[q])
      BY <1>1, <2>2 DEF Others
    <3> QED
      BY <3>1 DEF Same, Types, JobsOK, InHand
  <2> QED
    BY <2>1, <2>2
<1>3. ASSUME j # Idle /\ j.alone => Fit(j)'
      PROVE  AllFit'
  <2> SUFFICES ASSUME NEW q \in Proc, job'[q] # Idle, job'[q].alone
               PROVE  (Fit(job[q]))'
    BY DEF AllFit
  <2>1. q = p /\ job'[q] = j
    BY <1>1 DEF Others
  <2>2. Fit(j)'
    BY <1>3, <2>1
  <2> QED
    BY <2>1, <2>2 DEF Fit
<1> QED
  BY <1>1, <1>2, <1>3

\* What a step outside leaves of them.
LEMMA OutsideKeeps ==
  ASSUME Types, Outside, LessonRecords \subseteq LessonRecords'
  PROVE  /\ job' \in [Proc -> Job] /\ JobsOK' /\ AllFit'
         /\ \A q \in Proc : Same(job[q], job'[q])
<1>1. /\ job' \in [Proc -> Job]
      /\ \A q \in Proc :
           /\ Same(job[q], job'[q])
           /\ job[q] = Idle => job'[q] = Idle
           /\ job[q] # Idle => job'[q] # Idle /\ job'[q].alone = FALSE
  BY JobsDisturbed DEF Types
<1>2. JobsOK'
  BY <1>1 DEF Same, Types, JobsOK, InHand
<1>3. AllFit'
  BY <1>1 DEF AllFit
<1> QED
  BY <1>1, <1>2, <1>3

-----------------------------------------------------------------------------
(* The steps that change no file and not the log.                          *)

\* The place a command is at tells what it has in hand.
LEMMA ShapeIs ==
  ASSUME NEW j \in Job
  PROVE  /\ Idle.at = "idle" /\ Idle \in Job
         /\ j.at = "suggest" =>
              j \in [at : {"suggest"}, todo : SUBSET DOMAIN Suggestible, alone : BOOLEAN]
         /\ j.at \in {"approve", "record"} =>
              j \in [at : {"approve", "record"}, rec : 1..MaxEvents,
                     status : {"accepted", "rejected"}, alone : BOOLEAN]
         /\ j.at \in {"collect", "prose"} => j \in [at : {"collect", "prose"}, alone : BOOLEAN]
         /\ j.at = "yaml" =>
              j \in [at : {"yaml"},
                     items : UNION {[K -> CheckItem] : K \in SUBSET (1..MaxEvents)},
                     alone : BOOLEAN]
         /\ j.at = "rules" =>
              j \in [at : {"rules"}, prose : SUBSET (1..MaxEvents), alone : BOOLEAN]
         /\ j.at = "copy" =>
              j \in [at : {"copy"}, pack : Pack,
                     todo : SUBSET UNION {DOMAIN pack : pack \in Pack}, alone : BOOLEAN]
<1> DEFINE ItemFile == UNION {[K -> CheckItem] : K \in SUBSET (1..MaxEvents)}
           Files == UNION {DOMAIN pack : pack \in Pack}
<1>1. Idle.at = "idle" /\ Idle \in Job
  BY DEF Idle, Job
<1>2. \/ j = Idle
      \/ j \in [at : {"suggest"}, todo : SUBSET DOMAIN Suggestible, alone : BOOLEAN]
      \/ j \in [at : {"approve", "record"}, rec : 1..MaxEvents,
                status : {"accepted", "rejected"}, alone : BOOLEAN]
      \/ j \in [at : {"collect", "prose"}, alone : BOOLEAN]
      \/ j \in [at : {"yaml"}, items : ItemFile, alone : BOOLEAN]
      \/ j \in [at : {"rules"}, prose : SUBSET (1..MaxEvents), alone : BOOLEAN]
      \/ j \in [at : {"copy"}, pack : Pack, todo : SUBSET Files, alone : BOOLEAN]
  BY DEF Job
<1> HIDE DEF ItemFile, Files
<1> QED
  BY <1>1, <1>2 DEF ItemFile, Files

\* A command that begins, goes on or ends.
LEMMA TurnKeeps ==
  ASSUME IInv, NEW p \in Proc, NEW j \in Job, Step(p, j),
         UNCHANGED <<plugin, ext, rules, log, cur, runs>>,
         InHand(j), j # Idle /\ j.alone => Fit(j)
  PROVE  IInv'
<1>1. Types /\ LessonRecords' = LessonRecords
  BY RecordsStay DEF IInv
<1>2. j # Idle /\ j.alone => Fit(j)'
  BY FitStays
<1>3. InHand(j)'
  BY <1>1 DEF InHand
<1>5. job' \in [Proc -> Job] /\ JobsOK' /\ AllFit'
  BY <1>1, <1>2, <1>3, StepKeeps
<1>4. TypeOK' /\ LogOK'
  BY <1>1, <1>5 DEF Types, TypeOK, LogOK
<1> QED
  BY <1>5, <1>4 DEF IInv, Types

\* What was loaded strictly loads.
LEMMA StrictIsLoaded ==
  ASSUME NEW s, NEW files, LoadsStrictly(s, files)
  PROVE  Loads(s, files)
  BY DEF LoadsStrictly

LEMMA BeginSuggestKeeps ==
  ASSUME IInv, NEW p \in Proc, NEW called \in SUBSET DOMAIN Suggestible, BeginSuggest(p, called)
  PROVE  IInv'
<1> DEFINE T == {c \in called : Suggestible[c] \notin Known}
<1>1. PICK b \in BOOLEAN : b = Quiet
  BY DEF Quiet
<1>2. PICK j : j = [at |-> "suggest", todo |-> T, alone |-> b]
  OBVIOUS
<1>3. /\ Step(p, j) /\ Loads(Plugin[plugin], ext)
      /\ UNCHANGED <<plugin, ext, rules, log, cur, runs>>
  BY <1>1, <1>2 DEF BeginSuggest, Begin
<1>4. T \in SUBSET DOMAIN Suggestible /\ \A c \in T : Suggestible[c] \notin Known
  OBVIOUS
<1>9. T # {}
  BY DEF BeginSuggest
<1> HIDE DEF T
<1>5. j \in [at : {"suggest"}, todo : SUBSET DOMAIN Suggestible, alone : BOOLEAN]
  BY <1>2, <1>4
<1>6. j \in Job
  BY <1>5 DEF Job
<1>7. j.at = "suggest" /\ j.todo = T
  BY <1>2
<1>8. Fit(j)
  BY <1>3, <1>4, <1>7 DEF Fit
<1> QED
  BY <1>3, <1>6, <1>7, <1>8, <1>9, TurnKeeps DEF InHand

\* A triage, of any kind.
LEMMA BeginTriageKeeps ==
  ASSUME IInv, NEW p \in Proc, NEW rec \in LessonRecords, BeginAccept(p, rec) \/ BeginReject(p, rec)
  PROVE  IInv'
<1>1. PICK b \in BOOLEAN : b = Quiet
  BY DEF Quiet
<1>2. PICK s \in {"accepted", "rejected"} :
        Begin(p, [at |-> "approve", rec |-> rec, status |-> s, alone |-> Quiet])
  BY DEF BeginAccept, BeginReject
<1>3. PICK j : j = [at |-> "approve", rec |-> rec, status |-> s, alone |-> b]
  OBVIOUS
<1>4. /\ Step(p, j) /\ Loads(Plugin[plugin], ext)
      /\ UNCHANGED <<plugin, ext, rules, log, cur, runs>>
  BY <1>1, <1>2, <1>3 DEF Begin, BeginAccept, BeginReject
<1>5. rec \in 1..MaxEvents
  <2>1. LogOK /\ Len(log) <= MaxEvents
    BY DEF IInv, Types, TypeOK
  <2>2. rec \in 1..Len(log) /\ Len(log) \in Nat
    BY <2>1, RecordIs, LogIs
  <2> QED
    BY <2>1, <2>2, LessonsAssumption
<1>6. j \in [at : {"approve", "record"}, rec : 1..MaxEvents,
             status : {"accepted", "rejected"}, alone : BOOLEAN]
  BY <1>3, <1>5
<1>7. j \in Job
  BY <1>6 DEF Job
<1>8. j.at = "approve" /\ j.rec = rec
  BY <1>3
<1>9. Fit(j)
  BY <1>4, <1>8 DEF Fit
<1> QED
  BY <1>4, <1>7, <1>8, <1>9, TurnKeeps DEF InHand

LEMMA BeginApplyKeeps ==
  ASSUME IInv, NEW p \in Proc, BeginApply(p)
  PROVE  IInv'
<1>1. PICK b \in BOOLEAN : b = Quiet
  BY DEF Quiet
<1>2. PICK j : j = [at |-> "collect", alone |-> b]
  OBVIOUS
<1>3. /\ Step(p, j) /\ Loads(Plugin[plugin], ext)
      /\ UNCHANGED <<plugin, ext, rules, log, cur, runs>>
  BY <1>1, <1>2 DEF BeginApply, Begin
<1>4. j \in [at : {"collect", "prose"}, alone : BOOLEAN] /\ j.at = "collect"
  BY <1>2
<1>5. j \in Job /\ Fit(j)
  BY <1>3, <1>4 DEF Job, Fit
<1> QED
  BY <1>3, <1>4, <1>5, TurnKeeps DEF InHand

LEMMA BeginPackKeeps ==
  ASSUME IInv, NEW p \in Proc, NEW pack \in Pack, BeginPack(p, pack)
  PROVE  IInv'
<1> DEFINE Files == UNION {DOMAIN pk : pk \in Pack}
<1>1. PICK b \in BOOLEAN : b = Quiet
  BY DEF Quiet
<1>2. PICK j : j = [at |-> "copy", pack |-> pack, todo |-> DOMAIN pack, alone |-> b]
  OBVIOUS
<1>3. /\ Step(p, j) /\ Loads(Plugin[plugin], With(pack))
      /\ UNCHANGED <<plugin, ext, rules, log, cur, runs>>
  BY <1>1, <1>2, StrictIsLoaded DEF BeginPack, Begin, ValidatePack
<1>4. DOMAIN pack \in SUBSET Files
  OBVIOUS
<1> HIDE DEF Files
<1>5. j \in [at : {"copy"}, pack : Pack, todo : SUBSET Files, alone : BOOLEAN]
  BY <1>2, <1>4
<1>6. j \in Job
  BY <1>5 DEF Job, Files
<1>7. j.at = "copy" /\ j.pack = pack /\ j.todo = DOMAIN pack
  BY <1>2
<1>8. Fit(j)
  BY <1>3, <1>7 DEF Fit
<1> QED
  BY <1>3, <1>6, <1>7, <1>8, TurnKeeps DEF InHand

\* A command that goes on knows what it knew.
LEMMA GoesOn ==
  ASSUME IInv, NEW p \in Proc, NEW k, k = job[p]
  PROVE  /\ k \in Job
         /\ k # Idle /\ k.alone => Fit(k)
         /\ InHand(k)
<1>1. k \in Job
  BY DEF IInv, Types, TypeOK
<1>2. k # Idle /\ k.alone => Fit(k)
  BY DEF IInv, AllFit
<1> QED
  BY <1>1, <1>2 DEF IInv, Types, JobsOK

\* It may end at any time.
LEMMA EndKeeps ==
  ASSUME IInv, NEW p \in Proc, Step(p, Idle), UNCHANGED <<plugin, ext, rules, log, cur, runs>>
  PROVE  IInv'
<1>1. Idle.at = "idle" /\ Idle \in Job
  BY DEF Idle, Job
<1>2. PICK j : j = Idle
  OBVIOUS
<1> QED
  BY <1>1, <1>2, TurnKeeps DEF InHand

LEMMA ApproveKeeps ==
  ASSUME IInv, NEW p \in Proc, Approve(p)
  PROVE  IInv'
<1>1. PICK k : k = job[p]
  OBVIOUS
<1>2. k.at = "approve" /\ UNCHANGED <<plugin, ext, rules, log, cur, runs>>
  BY <1>1 DEF Approve
<1>3. CASE cur = 0
  BY <1>2, <1>3, EndKeeps DEF Approve
<1>4. CASE cur # 0
  <2>1. PICK j : j = [k EXCEPT !.at = "record"]
    OBVIOUS
  <2>2. Step(p, j)
    BY <1>1, <1>4, <2>1 DEF Approve
  <2>3. k \in Job /\ (k # Idle /\ k.alone => Fit(k)) /\ k.rec \in LessonRecords
    BY <1>1, <1>2, GoesOn DEF InHand
  <2>4. /\ k \in [at : {"approve", "record"}, rec : 1..MaxEvents,
                  status : {"accepted", "rejected"}, alone : BOOLEAN]
        /\ k # Idle
    BY <1>2, <2>3, ShapeIs
  <2>5. /\ j \in [at : {"approve", "record"}, rec : 1..MaxEvents,
                  status : {"accepted", "rejected"}, alone : BOOLEAN]
        /\ j.at = "record" /\ j.rec = k.rec /\ j.alone = k.alone
    BY <2>1, <2>4
  <2>6. j \in Job
    BY <2>5 DEF Job
  <2>7. j.alone => Fit(j)
    BY <1>2, <2>3, <2>4, <2>5 DEF Fit
  <2> QED
    BY <1>2, <2>2, <2>3, <2>5, <2>6, <2>7, TurnKeeps DEF InHand
<1> QED
  BY <1>3, <1>4

\* What is read of the accepted checks fits, if it loads.
LEMMA CollectKeeps ==
  ASSUME IInv, NEW p \in Proc, Collect(p)
  PROVE  IInv'
<1> DEFINE ItemFile == UNION {[K -> CheckItem] : K \in SUBSET (1..MaxEvents)}
<1>1. PICK k, items : k = job[p] /\ items = AcceptedCheckItems
  OBVIOUS
<1>2. k.at = "collect" /\ UNCHANGED <<plugin, ext, rules, log, cur, runs>>
  BY <1>1 DEF Collect
<1>3. CASE ~ ValidateLessonItems(items)
  BY <1>1, <1>2, <1>3, EndKeeps DEF Collect
<1>4. CASE ValidateLessonItems(items)
  <2>1. PICK j : j = [at |-> "yaml", items |-> items, alone |-> k.alone]
    OBVIOUS
  <2>2. Step(p, j)
    BY <1>1, <1>4, <2>1 DEF Collect
  <2>3. k \in Job
    BY <1>1, GoesOn
  <2>4. k.alone \in BOOLEAN
    BY <1>2, <2>3, ShapeIs
  <2>5. items \in ItemFile
    <3>1. LogOK /\ Len(log) <= MaxEvents
      BY DEF IInv, Types, TypeOK
    <3>2. /\ Len(log) \in Nat /\ DOMAIN items \subseteq 1..Len(log)
          /\ items \in [DOMAIN items -> CheckItem]
      BY <1>1, <3>1, LogIs, ItemsAre
    <3>3. DOMAIN items \in SUBSET (1..MaxEvents)
      BY <3>1, <3>2, LessonsAssumption
    <3> QED
      BY <3>2, <3>3
  <2> HIDE DEF ItemFile
  <2>6. j \in [at : {"yaml"}, items : ItemFile, alone : BOOLEAN]
    BY <2>1, <2>4, <2>5
  <2>7. j \in Job
    BY <2>6 DEF Job, ItemFile
  <2>8. j.at = "yaml" /\ j.items = items
    BY <2>1
  <2>9. Loads(Plugin[plugin], WithLessons(items))
    BY <1>4, StrictIsLoaded DEF ValidateLessonItems
  <2>10. Fit(j)
    BY <1>1, <2>8, <2>9 DEF Fit
  <2> QED
    BY <1>2, <2>2, <2>7, <2>8, <2>10, TurnKeeps DEF InHand
<1> QED
  BY <1>3, <1>4

LEMMA ReadProseKeeps ==
  ASSUME IInv, NEW p \in Proc, ReadProse(p)
  PROVE  IInv'
<1>1. PICK k, prose : k = job[p] /\ prose = AcceptedProse
  OBVIOUS
<1>2. PICK j : j = [at |-> "rules", prose |-> prose, alone |-> k.alone]
  OBVIOUS
<1>3. k.at = "prose" /\ Step(p, j) /\ UNCHANGED <<plugin, ext, rules, log, cur, runs>>
  BY <1>1, <1>2 DEF ReadProse
<1>4. k \in Job /\ (k # Idle /\ k.alone => Fit(k))
  BY <1>1, GoesOn
<1>5. k.alone \in BOOLEAN /\ k # Idle
  BY <1>3, <1>4, ShapeIs
<1>6. prose \in SUBSET (1..MaxEvents) /\ prose \subseteq LessonRecords
  <2>1. LogOK /\ Len(log) <= MaxEvents /\ prose \subseteq LessonRecords
    BY <1>1 DEF IInv, Types, TypeOK, AcceptedProse, Accepted
  <2>2. Len(log) \in Nat /\ LessonRecords \subseteq 1..Len(log)
    BY <2>1, LogIs, RecordIs
  <2> QED
    BY <2>1, <2>2, LessonsAssumption
<1>7. /\ j \in [at : {"rules"}, prose : SUBSET (1..MaxEvents), alone : BOOLEAN]
      /\ j.at = "rules" /\ j.prose = prose /\ j.alone = k.alone
  BY <1>2, <1>5, <1>6
<1>8. j \in Job
  BY <1>7 DEF Job
<1>9. j.alone => Fit(j)
  BY <1>1, <1>3, <1>4, <1>5, <1>7 DEF Fit
<1>10. InHand(j)
  BY <1>6, <1>7 DEF InHand
<1> QED
  BY <1>3, <1>8, <1>9, <1>10, TurnKeeps

-----------------------------------------------------------------------------
(* The steps that write.                                                   *)

\* A step of p that leaves the log fine and p knowing what it has to.
LEMMA StepHolds ==
  ASSUME IInv, NEW p \in Proc, NEW j \in Job, Step(p, j), UNCHANGED <<plugin, cur, runs>>,
         LogOK', Len(log') <= MaxEvents, LessonRecords \subseteq LessonRecords',
         rules' \subseteq 1..Len(log'),
         InHand(j)', j # Idle /\ j.alone => Fit(j)'
  PROVE  IInv'
<1>1. Types
  BY DEF IInv
<1>2. job' \in [Proc -> Job] /\ JobsOK' /\ AllFit'
  BY <1>1, StepKeeps
<1>3. log' \in Seq(LessonEvent)
  BY DEF LogOK
<1>4. TypeOK'
  BY <1>1, <1>2, <1>3 DEF Types, TypeOK
<1> QED
  BY <1>2, <1>4 DEF IInv, Types

\* What one more event leaves for those steps.
LEMMA EventIsFine ==
  ASSUME IInv, Room, NEW e, Fitting(e), log' = Append(log, e)
  PROVE  /\ LogOK' /\ Len(log') <= MaxEvents /\ LessonRecords \subseteq LessonRecords'
         /\ rules \subseteq 1..Len(log')
<1>1. LogOK /\ rules \subseteq 1..Len(log)
  BY DEF IInv, Types, TypeOK
<1>2. /\ LogOK' /\ Len(log') <= MaxEvents /\ LessonRecords \subseteq LessonRecords'
      /\ Len(log) \in Nat /\ Len(log') = Len(log) + 1
  BY <1>1, LogGrows, RecordsOn, LogIs
<1> QED
  BY <1>1, <1>2

\* The events the commands append are such.
LEMMA NewFits ==
  ASSUME IInv, cur # 0, Room, NEW t \in Text
  PROVE  Fitting(NewLesson(t)) /\ NewLesson(t).text = t
<1>1. LogOK /\ Len(log) <= MaxEvents /\ cur \in 1..MaxRuns
  BY LessonsAssumption DEF IInv, Types, TypeOK
<1>2. Len(log) \in Nat
  BY <1>1, LogIs
<1>3. Len(log) + 1 \in 1..MaxEvents
  BY <1>2, LessonsAssumption DEF Room
<1> QED
  BY <1>1, <1>3 DEF NewLesson, Event, Fitting, LessonEvent

LEMMA UpdateFits ==
  ASSUME IInv, cur # 0, NEW rec \in LessonRecords, NEW s \in {"accepted", "rejected"}
  PROVE  Fitting(StatusUpdate(rec, s))
<1>1. LogOK /\ Len(log) <= MaxEvents /\ cur \in 1..MaxRuns
  BY LessonsAssumption DEF IInv, Types, TypeOK
<1>2. Len(log) \in Nat /\ rec \in 1..Len(log) /\ TextOf(rec) \in Text
  BY <1>1, LogIs, RecordIs
<1>3. rec \in 1..MaxEvents
  BY <1>1, <1>2, LessonsAssumption
<1> QED
  BY <1>1, <1>2, <1>3 DEF StatusUpdate, Event, Fitting, LessonEvent

\* The texts there are, also in the next state.
LEMMA KnownWillBe ==
  LogOK' => (\A t : t \in Known <=> \E n \in 1..Len(log) : log[n].text = t)'
<1>1. LogOK => \A t : t \in Known <=> \E n \in 1..Len(log) : log[n].text = t
  <2> SUFFICES ASSUME LogOK, NEW t
               PROVE  t \in Known <=> \E n \in 1..Len(log) : log[n].text = t
    OBVIOUS
  <2>1. ASSUME t \in Known
        PROVE  \E n \in 1..Len(log) : log[n].text = t
    <3>1. PICK rec \in LessonRecords : TextOf(rec) = t
      BY <2>1 DEF Known
    <3> QED
      BY <3>1, RecordIs
  <2> QED
    BY <2>1, TextsAreKnown
<1> QED
  BY <1>1, PTL

\* The least class that is left.
LEMMA NextClass ==
  ASSUME NEW T \in SUBSET DOMAIN Suggestible, T # {}
  PROVE  Min(T) \in T /\ Suggestible[Min(T)] \in Text
<1>1. /\ Len(Suggestible) \in Nat /\ DOMAIN Suggestible = 1..Len(Suggestible)
      /\ \A c \in 1..Len(Suggestible) : Suggestible[c] \in Text
  BY LessonsAssumption, LenProperties
<1>2. T \in SUBSET (0..Len(Suggestible))
  BY <1>1
<1>3. Min(T) \in T
  BY <1>1, <1>2, MinIsMember
<1> QED
  BY <1>1, <1>3

LEMMA SuggestOneKeeps ==
  ASSUME IInv, NEW p \in Proc, SuggestOne(p)
  PROVE  IInv'
<1>1. PICK k : k = job[p]
  OBVIOUS
<1>2. PICK c : c = Min(k.todo)
  OBVIOUS
<1>3. PICK e : e = NewLesson(Suggestible[c])
  OBVIOUS
<1>4. /\ k.at = "suggest" /\ cur # 0 /\ Room /\ log' = Append(log, e)
      /\ UNCHANGED <<plugin, ext, rules, cur, runs>>
  BY <1>1, <1>2, <1>3 DEF SuggestOne
<1>5. k \in Job /\ (k # Idle /\ k.alone => Fit(k)) /\ k.todo # {}
  BY <1>1, <1>4, GoesOn DEF InHand
<1>6. k \in [at : {"suggest"}, todo : SUBSET DOMAIN Suggestible, alone : BOOLEAN] /\ k # Idle
  BY <1>4, <1>5, ShapeIs
<1>7. k.todo \in SUBSET DOMAIN Suggestible
  BY <1>6
<1>8. c \in k.todo /\ Suggestible[c] \in Text
  BY <1>2, <1>5, <1>7, NextClass
<1>9. Fitting(e) /\ e.text = Suggestible[c]
  BY <1>3, <1>4, <1>8, NewFits
<1>10. /\ LogOK' /\ Len(log') <= MaxEvents /\ LessonRecords \subseteq LessonRecords'
       /\ rules' \subseteq 1..Len(log')
  BY <1>4, <1>9, EventIsFine
<1>11. PICK j : j = IF k.todo = {c} THEN Idle ELSE [k EXCEPT !.todo = @ \ {c}]
  OBVIOUS
<1>12. Step(p, j)
  BY <1>1, <1>2, <1>11 DEF SuggestOne
<1>13. CASE k.todo = {c}
  <2>1. j = Idle /\ Idle.at = "idle" /\ Idle \in Job
    BY <1>11, <1>13 DEF Idle, Job
  <2>2. InHand(j)'
    BY <2>1 DEF InHand
  <2> QED
    BY <1>4, <1>10, <1>12, <2>1, <2>2, StepHolds
<1>14. CASE k.todo # {c}
  <2>1. /\ j \in [at : {"suggest"}, todo : SUBSET DOMAIN Suggestible, alone : BOOLEAN]
        /\ j.at = "suggest" /\ j.todo = k.todo \ {c} /\ j.alone = k.alone
    BY <1>6, <1>11, <1>14
  <2>2. j \in Job
    BY <2>1 DEF Job
  <2>3. InHand(j)'
    BY <1>8, <1>14, <2>1 DEF InHand
  <2>4. ASSUME j.alone
        PROVE  Fit(j)'
    <3>1. Fit(k)
      BY <1>5, <1>6, <2>1, <2>4
    <3>2. Loads(Plugin[plugin], ext) /\ \A d \in k.todo : Suggestible[d] \notin Known
      BY <1>4, <3>1 DEF Fit
    <3>3. ASSUME NEW d \in j.todo
          PROVE  Suggestible[d] \notin Known'
      <4>1. d \in k.todo /\ d # c
        BY <2>1
      <4>2. d \in DOMAIN Suggestible /\ c \in DOMAIN Suggestible
        BY <1>7, <1>8, <4>1
      <4>3. Suggestible[d] # Suggestible[c]
        BY <4>1, <4>2, LessonsAssumption
      <4>4. Suggestible[d] \notin Known
        BY <3>2, <4>1
      <4>5. LogOK
        BY DEF IInv, Types
      <4>6. ASSUME NEW n \in 1..Len(log')
            PROVE  log'[n].text # Suggestible[d]
        <5>1. /\ Len(log) \in Nat /\ Len(log') = Len(log) + 1
              /\ \A m \in 1..Len(log) : log'[m] = log[m]
              /\ log'[Len(log) + 1] = e
          BY <1>4, <1>9, <4>5, LogGrows, LogIs
        <5>2. n \in 1..Len(log) \/ n = Len(log) + 1
          BY <5>1
        <5>3. \A m \in 1..Len(log) : log[m].text # Suggestible[d]
          BY <4>4, <4>5, TextsAreKnown
        <5> QED
          BY <1>9, <4>3, <5>1, <5>2, <5>3
      <4> QED
        BY <1>10, <4>6, KnownWillBe
    <3>4. Loads(Plugin[plugin'], ext')
      BY <1>4, <3>2
    <3> QED
      BY <2>1, <3>3, <3>4 DEF Fit
  <2> QED
    BY <1>4, <1>10, <1>12, <2>2, <2>3, <2>4, StepHolds
<1> QED
  BY <1>13, <1>14

LEMMA RecordTriageKeeps ==
  ASSUME IInv, NEW p \in Proc, RecordTriage(p)
  PROVE  IInv'
<1>1. PICK k : k = job[p]
  OBVIOUS
<1>2. k.at = "record" /\ UNCHANGED <<plugin, ext, rules, cur, runs>>
  BY <1>1 DEF RecordTriage
<1>3. k \in Job /\ (k # Idle /\ k.alone => Fit(k)) /\ k.rec \in LessonRecords
  BY <1>1, <1>2, GoesOn DEF InHand
<1>4. /\ k \in [at : {"approve", "record"}, rec : 1..MaxEvents,
                status : {"accepted", "rejected"}, alone : BOOLEAN]
      /\ k # Idle
  BY <1>2, <1>3, ShapeIs
<1>5. CASE Step(p, Idle) /\ UNCHANGED log
  BY <1>2, <1>5, EndKeeps
<1>6. CASE /\ cur # 0 /\ Room
           /\ log' = Append(log, StatusUpdate(k.rec, k.status))
           /\ Step(p, [at |-> "collect", alone |-> k.alone])
  <2>1. PICK j : j = [at |-> "collect", alone |-> k.alone]
    OBVIOUS
  <2>2. PICK e : e = StatusUpdate(k.rec, k.status)
    OBVIOUS
  <2>3. k.status \in {"accepted", "rejected"} /\ k.alone \in BOOLEAN
    BY <1>4
  <2>4. Fitting(e)
    BY <1>3, <1>6, <2>2, <2>3, UpdateFits
  <2>5. /\ LogOK' /\ Len(log') <= MaxEvents /\ LessonRecords \subseteq LessonRecords'
        /\ rules' \subseteq 1..Len(log')
    BY <1>2, <1>6, <2>2, <2>4, EventIsFine
  <2>6. /\ j \in [at : {"collect", "prose"}, alone : BOOLEAN]
        /\ j.at = "collect" /\ j.alone = k.alone
    BY <2>1, <2>3
  <2>7. j \in Job /\ InHand(j)'
    BY <2>6 DEF Job, InHand
  <2>8. ASSUME j.alone
        PROVE  Fit(j)'
    <3>1. Loads(Plugin[plugin], ext)
      BY <1>2, <1>3, <1>4, <2>6, <2>8 DEF Fit
    <3>2. Loads(Plugin[plugin'], ext')
      BY <1>2, <3>1
    <3> QED
      BY <2>6, <3>2 DEF Fit
  <2> QED
    BY <1>2, <1>6, <2>1, <2>5, <2>7, <2>8, StepHolds
<1> QED
  BY <1>1, <1>5, <1>6 DEF RecordTriage

\* The directory with lessons.yaml as these items make it.
LEMMA LessonsWritten ==
  ASSUME NEW items, ext' = WithLessons(items)
  PROVE  /\ Enforced' = Names(items)
         /\ LessonsFile \in DOMAIN ext' =>
              ext'[LessonsFile].items = items /\ ext'[LessonsFile].kinds = <<>>
<1>1. CASE DOMAIN items = {}
  <2>1. ext' = [f \in DOMAIN ext \ {LessonsFile} |-> ext[f]]
    <3>1. ext' = Restrict(ext, DOMAIN ext \ {LessonsFile})
      BY <1>1 DEF WithLessons, Without
    <3> QED
      BY <3>1 DEF Restrict
  <2>2. LessonsFile \notin DOMAIN ext'
    BY <2>1
  <2>3. Names(items) = {}
    BY <1>1 DEF Names
  <2> QED
    BY <2>2, <2>3 DEF Enforced
<1>2. CASE DOMAIN items # {}
  <2>1. PICK c : c = [kinds |-> <<>>, items |-> items, unknown |-> FALSE, readable |-> TRUE]
    OBVIOUS
  <2>2. c.items = items /\ c.kinds = <<>>
    BY <2>1
  <2>3. ext' = With([f \in {LessonsFile} |-> c])
    BY <1>2, <2>1 DEF WithLessons
  <2>4. ext' = [f \in DOMAIN ext \cup {LessonsFile} |->
                  IF f \in {LessonsFile} THEN [g \in {LessonsFile} |-> c][f] ELSE ext[f]]
    BY <2>3 DEF With
  <2>5. LessonsFile \in DOMAIN ext' /\ ext'[LessonsFile] = c
    BY <2>4
  <2> QED
    BY <2>2, <2>5 DEF Enforced
<1> QED
  BY <1>1, <1>2

\* The names written are those to enforce.
LEMMA WriteYamlKeeps ==
  ASSUME IInv, NEW p \in Proc, WriteYaml(p)
  PROVE  IInv'
<1>1. PICK k : k = job[p]
  OBVIOUS
<1>2. PICK j : j = [at |-> "prose", alone |-> k.alone]
  OBVIOUS
<1>3. /\ k.at = "yaml" /\ Step(p, j) /\ ext' = WithLessons(k.items)
      /\ UNCHANGED <<plugin, rules, log, cur, runs>>
  BY <1>1, <1>2 DEF WriteYaml
<1>4. k \in Job /\ (k # Idle /\ k.alone => Fit(k))
  BY <1>1, GoesOn
<1>5. k.alone \in BOOLEAN /\ k # Idle
  BY <1>3, <1>4, ShapeIs
<1>6. /\ j \in [at : {"collect", "prose"}, alone : BOOLEAN]
      /\ j.at = "prose" /\ j.alone = k.alone
  BY <1>2, <1>5
<1>7. j \in Job /\ InHand(j)'
  BY <1>6 DEF Job, InHand
<1>8. LogOK /\ TypeOK
  BY DEF IInv, Types
<1>9. ASSUME j.alone
      PROVE  Fit(j)'
  <2>1. Loads(Plugin[plugin], WithLessons(k.items)) /\ k.items = AcceptedCheckItems
    BY <1>3, <1>4, <1>5, <1>6, <1>9 DEF Fit
  <2>2. Enforced' = Names(k.items)
    BY <1>3, LessonsWritten
  <2>3. Names(k.items) = ToEnforce /\ ToEnforce' = ToEnforce
    BY <1>3, <1>8, <2>1, ItemsAre, RecordsStay
  <2>4. Loads(Plugin[plugin'], ext')
    BY <1>3, <2>1
  <2> QED
    BY <1>6, <2>2, <2>3, <2>4 DEF Fit
<1>10. LogOK' /\ Len(log') <= MaxEvents /\ LessonRecords' = LessonRecords
       /\ rules' \subseteq 1..Len(log')
  BY <1>3, <1>8, RecordsStay DEF LogOK, TypeOK
<1> QED
  BY <1>3, <1>7, <1>9, <1>10, StepHolds

\* The last step of an apply.
LEMMA WriteProseRulesKeeps ==
  ASSUME IInv, NEW p \in Proc, WriteProseRules(p)
  PROVE  IInv'
<1>1. PICK j : j = Idle
  OBVIOUS
<1>2. /\ job[p].at = "rules" /\ Step(p, j) /\ rules' = job[p].prose
      /\ UNCHANGED <<plugin, ext, log, cur, runs>>
  BY <1>1 DEF WriteProseRules
<1>3. LogOK /\ Len(log) <= MaxEvents /\ job[p].prose \subseteq LessonRecords
  BY <1>2 DEF IInv, Types, TypeOK, JobsOK, InHand
<1>4. LessonRecords \subseteq 1..Len(log)
  BY <1>3, RecordIs
<1>5. LogOK' /\ Len(log') <= MaxEvents /\ LessonRecords' = LessonRecords
      /\ rules' \subseteq 1..Len(log')
  BY <1>2, <1>3, <1>4, RecordsStay DEF LogOK
<1>6. j \in Job /\ InHand(j)'
  BY <1>1 DEF Job, InHand, Idle
<1> QED
  BY <1>1, <1>2, <1>5, <1>6, StepHolds

\* Files of a pack that are written leave the rest of it to write.
LEMMA CopyOne ==
  ASSUME NEW pack, NEW f \in DOMAIN pack, ext' = With(Restrict(pack, {f}))
  PROVE  /\ With(pack)' = With(pack)
         /\ DOMAIN ext' = DOMAIN ext \cup {f} /\ ext'[f] = pack[f]
         /\ \A g \in DOMAIN ext \ {f} : ext'[g] = ext[g]
<1>1. /\ DOMAIN Restrict(pack, {f}) = {f}
      /\ Restrict(pack, {f})[f] = pack[f]
  BY DEF Restrict
<1>2. PICK one : one = Restrict(pack, {f})
  OBVIOUS
<1>3. DOMAIN one = {f} /\ one[f] = pack[f]
  BY <1>1, <1>2
<1>4. ext' = [g \in DOMAIN ext \cup {f} |-> IF g \in {f} THEN one[g] ELSE ext[g]]
  BY <1>2, <1>3 DEF With
<1>5. /\ DOMAIN ext' = DOMAIN ext \cup {f} /\ ext'[f] = pack[f]
      /\ \A g \in DOMAIN ext \ {f} : ext'[g] = ext[g]
  BY <1>3, <1>4
<1>6. DOMAIN ext' \cup DOMAIN pack = DOMAIN ext \cup DOMAIN pack
  BY <1>5
<1>7. \A g \in DOMAIN ext \cup DOMAIN pack :
        (IF g \in DOMAIN pack THEN pack[g] ELSE ext'[g]) =
        (IF g \in DOMAIN pack THEN pack[g] ELSE ext[g])
  BY <1>5
<1> QED
  BY <1>5, <1>6, <1>7 DEF With

\* And once the last of them is written that is the directory.
LEMMA CopyLast ==
  ASSUME NEW pack, NEW f \in DOMAIN pack, ext' = With(Restrict(pack, {f})),
         \A g \in DOMAIN pack \ {f} : g \in DOMAIN ext /\ ext[g] = pack[g]
  PROVE  ext' = With(pack)
<1>1. /\ DOMAIN Restrict(pack, {f}) = {f}
      /\ Restrict(pack, {f})[f] = pack[f]
  BY DEF Restrict
<1>2. PICK one : one = Restrict(pack, {f})
  OBVIOUS
<1>3. DOMAIN one = {f} /\ one[f] = pack[f]
  BY <1>1, <1>2
<1>4. ext' = [g \in DOMAIN ext \cup {f} |-> IF g \in {f} THEN one[g] ELSE ext[g]]
  BY <1>2, <1>3 DEF With
<1>5. DOMAIN ext \cup {f} = DOMAIN ext \cup DOMAIN pack
  OBVIOUS
<1>6. \A g \in DOMAIN ext \cup DOMAIN pack :
        (IF g \in {f} THEN one[g] ELSE ext[g]) =
        (IF g \in DOMAIN pack THEN pack[g] ELSE ext[g])
  BY <1>3
<1> QED
  BY <1>4, <1>5, <1>6 DEF With

LEMMA CopyFileKeeps ==
  ASSUME IInv, NEW p \in Proc, CopyFile(p)
  PROVE  IInv'
<1> DEFINE Files == UNION {DOMAIN pack : pack \in Pack}
<1>1. PICK k : k = job[p]
  OBVIOUS
<1>2. k.at = "copy" /\ UNCHANGED <<plugin, rules, log, cur, runs>>
  BY <1>1 DEF CopyFile
<1>3. PICK f \in k.todo :
        /\ ext' = With(Restrict(k.pack, {f}))
        /\ Step(p, IF k.todo = {f} THEN Idle ELSE [k EXCEPT !.todo = @ \ {f}])
  BY <1>1 DEF CopyFile
<1>4. PICK j : j = IF k.todo = {f} THEN Idle ELSE [k EXCEPT !.todo = @ \ {f}]
  OBVIOUS
<1>5. k \in Job /\ (k # Idle /\ k.alone => Fit(k)) /\ k.todo \subseteq DOMAIN k.pack
  BY <1>1, <1>2, GoesOn DEF InHand
<1>6. k \in [at : {"copy"}, pack : Pack, todo : SUBSET Files, alone : BOOLEAN] /\ k # Idle
  BY <1>2, <1>5, ShapeIs
<1>7. Step(p, j)
  BY <1>3, <1>4
<1>8. /\ LogOK' /\ Len(log') <= MaxEvents /\ LessonRecords' = LessonRecords
      /\ rules' \subseteq 1..Len(log')
  BY <1>2, RecordsStay DEF IInv, Types, LogOK, TypeOK
<1>9. /\ With(k.pack)' = With(k.pack)
      /\ DOMAIN ext' = DOMAIN ext \cup {f} /\ ext'[f] = k.pack[f]
      /\ \A g \in DOMAIN ext \ {f} : ext'[g] = ext[g]
  BY <1>3, <1>5, CopyOne
<1>10. CASE k.todo = {f}
  <2>1. j = Idle /\ Idle.at = "idle" /\ Idle \in Job
    BY <1>4, <1>10 DEF Idle, Job
  <2>2. InHand(j)'
    BY <2>1 DEF InHand
  <2> QED
    BY <1>2, <1>7, <1>8, <2>1, <2>2, StepHolds
<1>11. CASE k.todo # {f}
  <2> HIDE DEF Files
  <2>1. /\ j \in [at : {"copy"}, pack : Pack, todo : SUBSET Files, alone : BOOLEAN]
        /\ j.at = "copy" /\ j.pack = k.pack /\ j.todo = k.todo \ {f} /\ j.alone = k.alone
    BY <1>4, <1>6, <1>11
  <2>2. j \in Job /\ InHand(j)'
    BY <1>5, <2>1 DEF Job, InHand, Files
  <2>3. ASSUME j.alone
        PROVE  Fit(j)'
    <3>1. Fit(k)
      BY <1>5, <1>6, <2>1, <2>3
    <3>2. /\ Loads(Plugin[plugin], With(k.pack))
          /\ \A g \in DOMAIN k.pack \ k.todo : g \in DOMAIN ext /\ ext[g] = k.pack[g]
      BY <1>2, <3>1 DEF Fit
    <3>3. Loads(Plugin[plugin'], With(j.pack)')
      BY <1>2, <1>9, <2>1, <3>2
    <3>4. \A g \in DOMAIN j.pack \ j.todo : g \in DOMAIN ext' /\ ext'[g] = j.pack[g]
      BY <1>9, <2>1, <3>2
    <3> QED
      BY <2>1, <3>3, <3>4 DEF Fit
  <2> QED
    BY <1>2, <1>7, <1>8, <2>2, <2>3, StepHolds
<1> QED
  BY <1>10, <1>11

\* A command that is killed, whatever it leaves in the directory.
LEMMA DeathKeeps ==
  ASSUME IInv, NEW p \in Proc, TornCopy(p) \/ Kill(p)
  PROVE  IInv'
<1>1. PICK j : j = Idle
  OBVIOUS
<1>2. Step(p, j) /\ UNCHANGED <<plugin, rules, log, cur, runs>>
  BY <1>1 DEF TornCopy, Kill
<1>3. /\ LogOK' /\ Len(log') <= MaxEvents /\ LessonRecords' = LessonRecords
      /\ rules' \subseteq 1..Len(log')
  BY <1>2, RecordsStay DEF IInv, Types, LogOK, TypeOK
<1>4. j \in Job /\ InHand(j)'
  BY <1>1 DEF Job, InHand, Idle
<1> QED
  BY <1>1, <1>2, <1>3, <1>4, StepHolds

-----------------------------------------------------------------------------
(* The steps beside the commands in progress.                              *)

LEMMA OutsideHolds ==
  ASSUME IInv, Outside, LogOK', Len(log') <= MaxEvents, LessonRecords \subseteq LessonRecords',
         rules' \subseteq 1..Len(log'),
         plugin' \in DOMAIN Plugin, cur' \in {0, runs'}, runs' \in 1..MaxRuns
  PROVE  IInv'
<1>1. Types
  BY DEF IInv
<1>2. job' \in [Proc -> Job] /\ JobsOK' /\ AllFit'
  BY <1>1, OutsideKeeps
<1>3. log' \in Seq(LessonEvent)
  BY DEF LogOK
<1>4. TypeOK'
  BY <1>2, <1>3 DEF TypeOK
<1> QED
  BY <1>2, <1>4 DEF IInv, Types

LEMMA RecordKeeps ==
  ASSUME IInv, NEW p \in Proc,
         \/ \E t \in Text : RecordLesson(p, t)
         \/ \E rec \in LessonRecords, status \in {"accepted", "rejected"} :
              RecordStatus(p, rec, status)
  PROVE  IInv'
<1>1. PICK e : /\ Fitting(e) /\ Room /\ log' = Append(log, e)
               /\ Outside /\ UNCHANGED <<plugin, rules, cur, runs>>
  <2>1. ASSUME NEW t \in Text, RecordLesson(p, t)
        PROVE  /\ Fitting(NewLesson(t)) /\ Room /\ log' = Append(log, NewLesson(t))
               /\ Outside /\ UNCHANGED <<plugin, rules, cur, runs>>
    BY <2>1, NewFits DEF RecordLesson
  <2>2. ASSUME NEW rec \in LessonRecords, NEW status \in {"accepted", "rejected"},
               RecordStatus(p, rec, status)
        PROVE  /\ Fitting(StatusUpdate(rec, status)) /\ Room
               /\ log' = Append(log, StatusUpdate(rec, status))
               /\ Outside /\ UNCHANGED <<plugin, rules, cur, runs>>
    BY <2>2, UpdateFits DEF RecordStatus
  <2> QED
    BY <2>1, <2>2
<1>2. /\ LogOK' /\ Len(log') <= MaxEvents /\ LessonRecords \subseteq LessonRecords'
      /\ rules' \subseteq 1..Len(log')
  BY <1>1, EventIsFine
<1>3. plugin' \in DOMAIN Plugin /\ cur' \in {0, runs'} /\ runs' \in 1..MaxRuns
  BY <1>1 DEF IInv, Types, TypeOK
<1> QED
  BY <1>1, <1>2, <1>3, OutsideHolds

LEMMA WorldKeeps ==
  ASSUME IInv,
         \/ \E f \in DOMAIN ext : RemoveFile(f)
         \/ \E s \in DOMAIN Plugin : Upgrade(s)
         \/ CloseRun
         \/ StartRun
  PROVE  IInv'
<1>1. Outside /\ UNCHANGED <<rules, log>>
  BY DEF RemoveFile, Upgrade, CloseRun, StartRun
<1>2. /\ LogOK' /\ Len(log') <= MaxEvents /\ LessonRecords' = LessonRecords
      /\ rules' \subseteq 1..Len(log')
  BY <1>1, RecordsStay DEF IInv, Types, LogOK, TypeOK
<1>3. plugin \in DOMAIN Plugin /\ cur \in {0, runs} /\ runs \in 1..MaxRuns
  BY DEF IInv, Types, TypeOK
<1>4. plugin' \in DOMAIN Plugin /\ cur' \in {0, runs'} /\ runs' \in 1..MaxRuns
  BY <1>3, LessonsAssumption DEF RemoveFile, Upgrade, CloseRun, StartRun
<1> QED
  BY <1>1, <1>2, <1>4, OutsideHolds

-----------------------------------------------------------------------------
LEMMA InitHolds == Init => IInv
<1> SUFFICES ASSUME Init PROVE IInv
  OBVIOUS
<1>1. log = <<>> /\ Len(log) = 0 /\ log \in Seq(LessonEvent)
  BY DEF Init
<1>2. \A p \in Proc : job[p] = Idle
  BY DEF Init
<1>3. TypeOK
  BY <1>1, LessonsAssumption DEF Init, TypeOK, Job
<1>4. LogOK
  BY <1>1 DEF LogOK
<1>5. JobsOK
  BY <1>2 DEF JobsOK, InHand, Idle
<1>6. AllFit
  BY <1>2 DEF AllFit
<1> QED
  BY <1>3, <1>4, <1>5, <1>6 DEF IInv, Types

\* A step that changes nothing.
LEMMA NothingHolds ==
  ASSUME IInv, UNCHANGED vars
  PROVE  IInv'
<1>1. UNCHANGED <<plugin, ext, rules, log, cur, runs, job>>
  BY DEF vars
<1>2. LessonRecords' = LessonRecords
  BY <1>1, RecordsStay
<1>3. TypeOK' /\ LogOK'
  BY <1>1 DEF IInv, Types, TypeOK, LogOK
<1>4. JobsOK'
  BY <1>1, <1>2 DEF IInv, Types, JobsOK, InHand
<1>5. AllFit'
  BY <1>1, FitStays DEF IInv, AllFit
<1> QED
  BY <1>3, <1>4, <1>5 DEF IInv, Types

LEMMA NextHolds ==
  ASSUME IInv, [Next]_vars
  PROVE  IInv'
<1>1. CASE UNCHANGED vars
  BY <1>1, NothingHolds
<1>2. CASE Next
  <2>1. ASSUME NEW p \in Proc,
               \/ \E t \in Text : RecordLesson(p, t)
               \/ \E rec \in LessonRecords, status \in {"accepted", "rejected"} :
                    RecordStatus(p, rec, status)
        PROVE  IInv'
    BY <2>1, RecordKeeps
  <2>2. ASSUME NEW p \in Proc, NEW rec \in LessonRecords,
               BeginAccept(p, rec) \/ BeginReject(p, rec)
        PROVE  IInv'
    BY <2>2, BeginTriageKeeps
  <2>3. ASSUME NEW p \in Proc, NEW called \in SUBSET DOMAIN Suggestible,
               BeginSuggest(p, called)
        PROVE  IInv'
    BY <2>3, BeginSuggestKeeps
  <2>4. ASSUME NEW p \in Proc, NEW pack \in Pack, BeginPack(p, pack)
        PROVE  IInv'
    BY <2>4, BeginPackKeeps
  <2>5. ASSUME NEW p \in Proc,
               \/ SuggestOne(p) \/ BeginApply(p) \/ Approve(p) \/ RecordTriage(p)
               \/ Collect(p) \/ WriteYaml(p) \/ ReadProse(p) \/ WriteProseRules(p)
               \/ CopyFile(p) \/ TornCopy(p) \/ Kill(p)
        PROVE  IInv'
    BY <2>5, SuggestOneKeeps, BeginApplyKeeps, ApproveKeeps, RecordTriageKeeps, CollectKeeps,
       WriteYamlKeeps, ReadProseKeeps, WriteProseRulesKeeps, CopyFileKeeps, DeathKeeps
  <2>6. ASSUME \/ \E f \in DOMAIN ext : RemoveFile(f)
               \/ \E s \in DOMAIN Plugin : Upgrade(s)
               \/ CloseRun
               \/ StartRun
        PROVE  IInv'
    BY <2>6, WorldKeeps
  <2> QED
    BY <1>2, <2>1, <2>2, <2>3, <2>4, <2>5, <2>6, Zenon DEF Next
<1> QED
  BY <1>1, <1>2

\* The invariant holds throughout.
LEMMA InvariantHolds == Spec => []IInv
<1>1. Init => IInv
  BY InitHolds
<1>2. IInv /\ [Next]_vars => IInv'
  BY NextHolds
<1> QED
  BY <1>1, <1>2, PTL DEF Spec

\* The types, of the log, the two files, the run and the commands in progress:
\* above all, that each event is of a lesson there is and that the rule file
\* lists lessons there are.
THEOREM LessonsTypeCorrect == Spec => []TypeOK
<1>1. IInv => TypeOK
  BY DEF IInv, Types
<1> QED
  BY <1>1, InvariantHolds, PTL

-----------------------------------------------------------------------------
(* Nothing unaccepted.                                                     *)

\* What a step of p leaves of the others, wherever p goes.
LEMMA OthersAre ==
  ASSUME Types, NEW p \in Proc, NEW j, Step(p, j)
  PROVE  job'[p] = j /\ Others(p)
<1>1. job \in [Proc -> Job]
  BY DEF Types, TypeOK
<1>2. job'[p] = j /\ \A q \in Proc \ {p} : job'[q] = Disturbed(job[q])
  BY DEF Step
<1>3. \A q \in Proc : job[q] \in Job
  BY <1>1
<1>4. Others(p)
  BY <1>2, <1>3, DisturbedIs DEF Others
<1> QED
  BY <1>2, <1>4

\* A step appends one event to the log or none, and it is about a new lesson
\* or one there is.
LEMMA LogSteps ==
  ASSUME IInv, [Next]_vars
  PROVE  \/ log' = log
         \/ \E e : Room /\ Fitting(e) /\ log' = Append(log, e)
<1>1. ASSUME NEW p \in Proc, NEW t \in Text, RecordLesson(p, t)
      PROVE  \E e : Room /\ Fitting(e) /\ log' = Append(log, e)
  BY <1>1, NewFits DEF RecordLesson
<1>2. ASSUME NEW p \in Proc, NEW rec \in LessonRecords,
             NEW status \in {"accepted", "rejected"}, RecordStatus(p, rec, status)
      PROVE  \E e : Room /\ Fitting(e) /\ log' = Append(log, e)
  BY <1>2, UpdateFits DEF RecordStatus
<1>3. ASSUME NEW p \in Proc, SuggestOne(p)
      PROVE  \E e : Room /\ Fitting(e) /\ log' = Append(log, e)
  <2>1. PICK k : k = job[p]
    OBVIOUS
  <2>2. k.at = "suggest"
    BY <1>3, <2>1 DEF SuggestOne
  <2>3. k \in Job /\ k.todo # {}
    BY <2>1, <2>2, GoesOn DEF InHand
  <2>4. k.todo \in SUBSET DOMAIN Suggestible
    BY <2>2, <2>3, ShapeIs
  <2>5. Suggestible[Min(k.todo)] \in Text
    BY <2>3, <2>4, NextClass
  <2> QED
    BY <1>3, <2>1, <2>5, NewFits DEF SuggestOne
<1>4. ASSUME NEW p \in Proc, RecordTriage(p)
      PROVE  \/ log' = log
             \/ \E e : Room /\ Fitting(e) /\ log' = Append(log, e)
  <2>1. PICK k : k = job[p]
    OBVIOUS
  <2>2. k.at = "record"
    BY <1>4, <2>1 DEF RecordTriage
  <2>3. k \in Job /\ k.rec \in LessonRecords
    BY <2>1, <2>2, GoesOn DEF InHand
  <2>4. k.status \in {"accepted", "rejected"}
    BY <2>2, <2>3, ShapeIs
  <2>5. CASE UNCHANGED log
    BY <2>5
  <2>6. CASE cur # 0 /\ Room /\ log' = Append(log, StatusUpdate(k.rec, k.status))
    BY <2>3, <2>4, <2>6, UpdateFits
  <2> QED
    BY <1>4, <2>1, <2>5, <2>6 DEF RecordTriage
<1>5. CASE UNCHANGED vars
  BY <1>5 DEF vars
<1>6. ASSUME NEW p \in Proc,
             \/ \E rec \in LessonRecords : BeginAccept(p, rec) \/ BeginReject(p, rec)
             \/ \E called \in SUBSET DOMAIN Suggestible : BeginSuggest(p, called)
             \/ \E pack \in Pack : BeginPack(p, pack)
             \/ BeginApply(p) \/ Approve(p)
             \/ Collect(p) \/ WriteYaml(p) \/ ReadProse(p) \/ WriteProseRules(p)
             \/ CopyFile(p) \/ TornCopy(p) \/ Kill(p)
      PROVE  log' = log
  BY <1>6 DEF BeginAccept, BeginReject, BeginSuggest, BeginPack, BeginApply, Approve, Collect,
     WriteYaml, ReadProse, WriteProseRules, CopyFile, TornCopy, Kill
<1>7. ASSUME \/ \E f \in DOMAIN ext : RemoveFile(f)
             \/ \E s \in DOMAIN Plugin : Upgrade(s)
             \/ CloseRun
             \/ StartRun
      PROVE  log' = log
  BY <1>7 DEF RemoveFile, Upgrade, CloseRun, StartRun
<1> QED
  BY <1>1, <1>2, <1>3, <1>4, <1>5, <1>6, <1>7, Zenon DEF Next

\* So what was ever accepted stays so, and what comes from it.
LEMMA EverStays ==
  ASSUME IInv, [Next]_vars
  PROVE  Ever \subseteq Ever' /\ \A items : Sourced(items) => Sourced(items)'
<1>1. LogOK
  BY DEF IInv, Types
<1>2. CASE log' = log
  BY <1>2, RecordsStay
<1>3. ASSUME NEW e, Room, Fitting(e), log' = Append(log, e)
      PROVE  Ever \subseteq Ever' /\ \A items : Sourced(items) => Sourced(items)'
  BY <1>1, <1>3, RecordsOn
<1> QED
  BY <1>2, <1>3, LogSteps

\* lessons.yaml and the rule file as they are allowed to be.
FilesFine ==
  /\ rules \subseteq Ever
  /\ LessonsFile \in DOMAIN ext => Sourced(ext[LessonsFile].items)

\* lessons.yaml is as it was, or gone.
LessonsUntouched ==
  LessonsFile \in DOMAIN ext' =>
    LessonsFile \in DOMAIN ext /\ ext'[LessonsFile] = ext[LessonsFile]

\* Files that stay as they are stay fine.
LEMMA FilesStay ==
  ASSUME IInv, NothingForged, [Next]_vars, rules' = rules,
         LessonsUntouched
  PROVE  FilesFine'
<1>1. Ever \subseteq Ever' /\ \A items : Sourced(items) => Sourced(items)'
  BY EverStays
<1>2. rules' \subseteq Ever'
  BY <1>1 DEF NothingForged
<1>3. ASSUME LessonsFile \in DOMAIN ext'
      PROVE  Sourced(ext[LessonsFile].items)'
  <2>1. Sourced(ext[LessonsFile].items) /\ ext'[LessonsFile] = ext[LessonsFile]
    BY <1>3 DEF NothingForged, LessonsUntouched
  <2>2. PICK items : items = ext[LessonsFile].items
    OBVIOUS
  <2>3. Sourced(items)'
    BY <1>1, <2>1, <2>2
  <2> QED
    BY <2>1, <2>2, <2>3 DEF Sourced
<1> QED
  BY <1>2, <1>3 DEF FilesFine

\* What a command may have in hand to write to them; it stays so while kept.
HandFine(j) ==
  /\ j.at = "yaml" => Sourced(j.items)
  /\ j.at = "rules" => j.prose \subseteq Ever

LEMMA HandStays ==
  ASSUME IInv, NothingForged, [Next]_vars, NEW q \in Proc, Same(job[q], job'[q])
  PROVE  HandFine(job[q])'
<1>1. Ever \subseteq Ever' /\ \A items : Sourced(items) => Sourced(items)'
  BY EverStays
<1>2. HandFine(job[q])
  BY DEF NothingForged, HandFine
<1>3. ASSUME job'[q].at = "yaml"
      PROVE  Sourced(job[q].items)'
  <2>1. PICK items : items = job[q].items
    OBVIOUS
  <2>2. job'[q].items = items
    BY <1>3, <2>1 DEF Same
  <2>3. Sourced(items)'
    BY <1>1, <1>2, <1>3, <2>1 DEF Same, HandFine
  <2> QED
    BY <2>2, <2>3 DEF Sourced
<1>4. job'[q].at = "rules" => job'[q].prose \subseteq Ever'
  BY <1>1, <1>2 DEF Same, HandFine
<1> QED
  BY <1>3, <1>4 DEF HandFine

\* The files and what the commands have in hand are all there is.
LEMMA ForgedIs ==
  ASSUME FilesFine', \A q \in Proc : HandFine(job[q])'
  PROVE  NothingForged'
BY DEF NothingForged, FilesFine, HandFine

\* A step of p after which the files are fine and so is what p has in hand.
LEMMA HandsStay ==
  ASSUME IInv, NothingForged, [Next]_vars, FilesFine', NEW p \in Proc, NEW j, Step(p, j),
         HandFine(j)'
  PROVE  NothingForged'
<1>1. job'[p] = j /\ Others(p)
  BY OthersAre DEF IInv
<1>2. ASSUME NEW q \in Proc
      PROVE  HandFine(job[q])'
  <2>1. CASE q = p
    <3>1. job'[q] = j
      BY <1>1, <2>1
    <3> QED
      BY <3>1 DEF HandFine, Sourced
  <2>2. CASE q # p
    BY <1>1, <2>2, HandStays DEF Others
  <2> QED
    BY <2>1, <2>2
<1> QED
  BY <1>2, ForgedIs

\* A step that touches neither file, after which p is not about to write one.
LEMMA PlainStep ==
  ASSUME IInv, NothingForged, [Next]_vars, UNCHANGED <<ext, rules>>, NEW p \in Proc, NEW j,
         Step(p, j), j.at \notin {"yaml", "rules"}
  PROVE  NothingForged'
<1>1. FilesFine'
  BY FilesStay DEF LessonsUntouched
<1>2. HandFine(j)'
  BY DEF HandFine
<1> QED
  BY <1>1, <1>2, HandsStay

LEMMA BeginForges ==
  ASSUME IInv, NothingForged, [Next]_vars, NEW p \in Proc,
         \/ \E rec \in LessonRecords : BeginAccept(p, rec) \/ BeginReject(p, rec)
         \/ \E called \in SUBSET DOMAIN Suggestible : BeginSuggest(p, called)
         \/ BeginApply(p)
         \/ \E pack \in Pack : BeginPack(p, pack)
  PROVE  NothingForged'
<1>1. \E j : Begin(p, j) /\ j.at \in {"approve", "suggest", "collect", "copy"}
  <2>1. ASSUME NEW rec, BeginAccept(p, rec) \/ BeginReject(p, rec)
        PROVE  \E j : Begin(p, j) /\ j.at = "approve"
    BY <2>1 DEF BeginAccept, BeginReject
  <2>2. ASSUME NEW called, BeginSuggest(p, called)
        PROVE  \E j : Begin(p, j) /\ j.at = "suggest"
    BY <2>2 DEF BeginSuggest
  <2>3. ASSUME BeginApply(p)
        PROVE  \E j : Begin(p, j) /\ j.at = "collect"
    BY <2>3 DEF BeginApply
  <2>4. ASSUME NEW pack, BeginPack(p, pack)
        PROVE  \E j : Begin(p, j) /\ j.at = "copy"
    BY <2>4 DEF BeginPack
  <2> QED
    BY <2>1, <2>2, <2>3, <2>4
<1>2. PICK j : Step(p, j) /\ j.at \in {"approve", "suggest", "collect", "copy"}
  BY <1>1 DEF Begin
<1>3. UNCHANGED <<ext, rules>>
  BY DEF BeginAccept, BeginReject, BeginSuggest, BeginApply, BeginPack
<1> QED
  BY <1>2, <1>3, PlainStep

LEMMA TurnForges ==
  ASSUME IInv, NothingForged, [Next]_vars, NEW p \in Proc,
         SuggestOne(p) \/ Approve(p) \/ RecordTriage(p) \/ Kill(p)
  PROVE  NothingForged'
<1>0. Idle.at = "idle"
  BY DEF Idle
<1>1. UNCHANGED <<ext, rules>>
  BY DEF SuggestOne, Approve, RecordTriage, Kill
<1>2. PICK k : k = job[p]
  OBVIOUS
<1>3. k \in Job
  BY <1>2, GoesOn
<1>4. \E j : Step(p, j) /\ j.at \notin {"yaml", "rules"}
  <2>1. CASE SuggestOne(p)
    <3>1. k.at = "suggest"
      BY <1>2, <2>1 DEF SuggestOne
    <3>2. k \in [at : {"suggest"}, todo : SUBSET DOMAIN Suggestible, alone : BOOLEAN]
      BY <1>3, <3>1, ShapeIs
    <3>3. PICK j : j = IF k.todo = {Min(k.todo)} THEN Idle
                       ELSE [k EXCEPT !.todo = @ \ {Min(k.todo)}]
      OBVIOUS
    <3>4. j.at \in {"idle", "suggest"}
      BY <1>0, <3>2, <3>3
    <3> QED
      BY <1>2, <2>1, <3>3, <3>4 DEF SuggestOne
  <2>2. CASE Approve(p)
    <3>1. k.at = "approve"
      BY <1>2, <2>2 DEF Approve
    <3>2. k \in [at : {"approve", "record"}, rec : 1..MaxEvents,
                 status : {"accepted", "rejected"}, alone : BOOLEAN]
      BY <1>3, <3>1, ShapeIs
    <3>3. PICK j : j = IF cur = 0 THEN Idle ELSE [k EXCEPT !.at = "record"]
      OBVIOUS
    <3>4. j.at \in {"idle", "record"}
      BY <1>0, <3>2, <3>3
    <3> QED
      BY <1>2, <2>2, <3>3, <3>4 DEF Approve
  <2>3. CASE RecordTriage(p)
    BY <1>0, <2>3 DEF RecordTriage
  <2>4. CASE Kill(p)
    BY <1>0, <2>4 DEF Kill
  <2> QED
    BY <2>1, <2>2, <2>3, <2>4
<1> QED
  BY <1>1, <1>4, PlainStep

\* What an apply reads of the accepted lessons is of lessons accepted some time.
LEMMA ReadForges ==
  ASSUME IInv, NothingForged, [Next]_vars, NEW p \in Proc, Collect(p) \/ ReadProse(p)
  PROVE  NothingForged'
<1>1. LogOK /\ log' = log /\ UNCHANGED <<ext, rules>>
  BY DEF IInv, Types, Collect, ReadProse
<1>2. FilesFine'
  BY <1>1, FilesStay DEF LessonsUntouched
<1>3. Ever' = Ever /\ \A items : Sourced(items)' <=> Sourced(items)
  BY <1>1, RecordsStay
<1>4. PICK items, prose : items = AcceptedCheckItems /\ prose = AcceptedProse
  OBVIOUS
<1>5. Sourced(items)
  <2>1. ASSUME NEW rec \in DOMAIN items
        PROVE  /\ rec \in Ever /\ Check[TextOf(rec)].form = "item"
               /\ ItemOf(rec) = items[rec]
    <3>1. rec \in AcceptedChecks /\ items[rec] = ItemOf(rec)
      BY <1>1, <1>4, <2>1, ItemsAre
    <3> QED
      BY <1>1, <3>1, AcceptedIsEver DEF AcceptedChecks
  <2> QED
    BY <2>1 DEF Sourced
<1>6. prose \subseteq Ever
  BY <1>1, <1>4, AcceptedIsEver DEF AcceptedProse
<1>7. CASE Collect(p)
  <2>1. PICK j : j = IF ValidateLessonItems(items)
                     THEN [at |-> "yaml", items |-> items, alone |-> job[p].alone]
                     ELSE Idle
    OBVIOUS
  <2>2. Step(p, j)
    BY <1>4, <1>7, <2>1 DEF Collect
  <2>3. j.at \in {"yaml", "idle"} /\ (j.at = "yaml" => j.items = items)
    BY <2>1 DEF Idle
  <2>4. HandFine(j)'
    BY <1>3, <1>5, <2>3 DEF HandFine
  <2> QED
    BY <1>2, <2>2, <2>4, HandsStay
<1>8. CASE ReadProse(p)
  <2>1. PICK j : j = [at |-> "rules", prose |-> prose, alone |-> job[p].alone]
    OBVIOUS
  <2>2. Step(p, j)
    BY <1>4, <1>8, <2>1 DEF ReadProse
  <2>3. j.at = "rules" /\ j.prose = prose
    BY <2>1
  <2>4. HandFine(j)'
    BY <1>3, <1>6, <2>3 DEF HandFine
  <2> QED
    BY <1>2, <2>2, <2>4, HandsStay
<1> QED
  BY <1>7, <1>8

LEMMA WriteForges ==
  ASSUME IInv, NothingForged, [Next]_vars, NEW p \in Proc, WriteYaml(p) \/ WriteProseRules(p)
  PROVE  NothingForged'
<1>1. log' = log
  BY DEF WriteYaml, WriteProseRules
<1>2. Ever' = Ever /\ \A items : Sourced(items)' <=> Sourced(items)
  BY <1>1, RecordsStay
<1>3. PICK j : Step(p, j) /\ j.at \in {"prose", "idle"}
  BY DEF WriteYaml, WriteProseRules, Idle
<1>4. HandFine(j)'
  BY <1>3 DEF HandFine
<1>5. CASE WriteYaml(p)
  <2>1. PICK items : items = job[p].items
    OBVIOUS
  <2>2. /\ job[p].at = "yaml" /\ rules' = rules /\ ext' = WithLessons(items)
    BY <1>5, <2>1 DEF WriteYaml
  <2>3. Sourced(items) /\ rules \subseteq Ever
    BY <2>1, <2>2 DEF NothingForged
  <2>4. LessonsFile \in DOMAIN ext' => ext'[LessonsFile].items = items
    BY <2>2, LessonsWritten
  <2>5. LessonsFile \in DOMAIN ext' => Sourced(ext[LessonsFile].items)'
    BY <1>2, <2>3, <2>4 DEF Sourced
  <2>6. FilesFine'
    BY <1>2, <2>2, <2>3, <2>5 DEF FilesFine
  <2> QED
    BY <1>3, <1>4, <2>6, HandsStay
<1>6. CASE WriteProseRules(p)
  <2>1. job[p].at = "rules" /\ rules' = job[p].prose /\ ext' = ext
    BY <1>6 DEF WriteProseRules
  <2>2. rules' \subseteq Ever
    BY <2>1 DEF NothingForged
  <2>3. LessonsFile \in DOMAIN ext => Sourced(ext[LessonsFile].items)'
    BY <1>2, <2>1 DEF NothingForged, Sourced
  <2>4. FilesFine'
    BY <1>2, <2>1, <2>2, <2>3 DEF FilesFine
  <2> QED
    BY <1>3, <1>4, <2>4, HandsStay
<1> QED
  BY <1>5, <1>6

\* Files of a pack that is not called "lessons".
LEMMA CopyElsewhere ==
  ASSUME PacksStayApart, IInv, NEW p \in Proc, CopyFile(p) \/ TornCopy(p)
  PROVE  LessonsUntouched
<1> DEFINE Files == UNION {DOMAIN pack : pack \in Pack}
<1>1. PICK k : k = job[p]
  OBVIOUS
<1>2. k.at = "copy"
  BY <1>1 DEF CopyFile, TornCopy
<1>3. k \in Job /\ k.todo \subseteq DOMAIN k.pack
  BY <1>1, <1>2, GoesOn DEF InHand
<1>4. LessonsFile \notin k.todo
  <2>1. k \in [at : {"copy"}, pack : Pack, todo : SUBSET Files, alone : BOOLEAN]
    BY <1>2, <1>3, ShapeIs
  <2> HIDE DEF Files
  <2>2. k.pack \in Pack
    BY <2>1
  <2> QED
    BY <1>3, <2>2 DEF PacksStayApart
<1>5. \E files : ext' = With(files) /\ DOMAIN files \subseteq k.todo
  <2>1. CASE CopyFile(p)
    <3>1. PICK f \in k.todo : ext' = With(Restrict(k.pack, {f}))
      BY <1>1, <2>1 DEF CopyFile
    <3>2. DOMAIN Restrict(k.pack, {f}) = {f}
      BY DEF Restrict
    <3> QED
      BY <3>1, <3>2
  <2>2. CASE TornCopy(p)
    <3>1. PICK f \in k.todo : ext' = With([g \in {f} |-> [k.pack[f] EXCEPT !.readable = FALSE]])
      BY <1>1, <2>2 DEF TornCopy
    <3> QED
      BY <3>1
  <2> QED
    BY <2>1, <2>2
<1>6. PICK files : ext' = With(files) /\ DOMAIN files \subseteq k.todo
  BY <1>5
<1>7. ext' = [g \in DOMAIN ext \cup DOMAIN files |->
                IF g \in DOMAIN files THEN files[g] ELSE ext[g]]
  BY <1>6 DEF With
<1> QED
  BY <1>4, <1>6, <1>7 DEF LessonsUntouched

LEMMA CopyForges ==
  ASSUME PacksStayApart, IInv, NothingForged, [Next]_vars, NEW p \in Proc,
         CopyFile(p) \/ TornCopy(p)
  PROVE  NothingForged'
<1>0. Idle.at = "idle"
  BY DEF Idle
<1>1. PICK k : k = job[p]
  OBVIOUS
<1>2. k.at = "copy" /\ rules' = rules
  BY <1>1 DEF CopyFile, TornCopy
<1>3. FilesFine'
  BY <1>2, CopyElsewhere, FilesStay
<1>4. \E j : Step(p, j) /\ j.at \notin {"yaml", "rules"}
  <2>1. CASE CopyFile(p)
    <3>1. PICK g \in k.todo :
            Step(p, IF k.todo = {g} THEN Idle ELSE [k EXCEPT !.todo = @ \ {g}])
      BY <1>1, <2>1 DEF CopyFile
    <3>2. PICK j : j = IF k.todo = {g} THEN Idle ELSE [k EXCEPT !.todo = @ \ {g}]
      OBVIOUS
    <3>3. k \in [at : {"copy"}, pack : Pack,
                 todo : SUBSET UNION {DOMAIN pack : pack \in Pack}, alone : BOOLEAN]
      BY <1>1, <1>2, GoesOn, ShapeIs
    <3>4. j.at \in {"idle", "copy"}
      BY <1>0, <3>2, <3>3
    <3> QED
      BY <3>1, <3>2, <3>4
  <2>2. CASE TornCopy(p)
    BY <1>0, <2>2 DEF TornCopy
  <2> QED
    BY <2>1, <2>2
<1>5. PICK j : Step(p, j) /\ j.at \notin {"yaml", "rules"}
  BY <1>4
<1>6. HandFine(j)'
  BY <1>5 DEF HandFine
<1> QED
  BY <1>3, <1>5, <1>6, HandsStay

\* Nor is it among the files a person removes.
LEMMA RemoveElsewhere ==
  ASSUME NEW f \in DOMAIN ext, RemoveFile(f)
  PROVE  LessonsUntouched
<1>1. f # LessonsFile /\ ext' = Restrict(ext, DOMAIN ext \ {f})
  BY DEF RemoveFile, Without
<1>2. ext' = [g \in DOMAIN ext \ {f} |-> ext[g]]
  BY <1>1 DEF Restrict
<1> QED
  BY <1>2 DEF LessonsUntouched

\* What happens beside the commands.
LEMMA OutsideForges ==
  ASSUME IInv, NothingForged, [Next]_vars,
         \/ \E p \in Proc, t \in Text : RecordLesson(p, t)
         \/ \E p \in Proc, rec \in LessonRecords, status \in {"accepted", "rejected"} :
              RecordStatus(p, rec, status)
         \/ \E f \in DOMAIN ext : RemoveFile(f)
         \/ \E s \in DOMAIN Plugin : Upgrade(s)
         \/ CloseRun
         \/ StartRun
  PROVE  NothingForged'
<1>1. Outside /\ rules' = rules
  BY DEF RecordLesson, RecordStatus, RemoveFile, Upgrade, CloseRun, StartRun
<1>2. \A q \in Proc : Same(job[q], job'[q])
  BY <1>1, JobsDisturbed DEF IInv, Types
<1>3. CASE ext' = ext
  <2>1. FilesFine'
    BY <1>1, <1>3, FilesStay DEF LessonsUntouched
  <2> QED
    BY <1>2, <2>1, HandStays, ForgedIs
<1>4. ASSUME NEW f \in DOMAIN ext, RemoveFile(f)
      PROVE  NothingForged'
  <2>1. FilesFine'
    BY <1>1, <1>4, RemoveElsewhere, FilesStay
  <2> QED
    BY <1>2, <2>1, HandStays, ForgedIs
<1> QED
  BY <1>3, <1>4 DEF RecordLesson, RecordStatus, Upgrade, CloseRun, StartRun

LEMMA ForgedHolds ==
  ASSUME PacksStayApart, IInv, NothingForged, [Next]_vars
  PROVE  NothingForged'
<1>1. CASE UNCHANGED vars
  <2>1. log' = log /\ rules' = rules /\ ext' = ext /\ job' = job
    BY <1>1 DEF vars
  <2>2. Ever' = Ever /\ \A items : Sourced(items)' <=> Sourced(items)
    BY <2>1, RecordsStay
  <2> QED
    BY <2>1, <2>2 DEF NothingForged, Sourced
<1>2. CASE Next
  <2>1. ASSUME \/ \E p \in Proc, t \in Text : RecordLesson(p, t)
               \/ \E p \in Proc, rec \in LessonRecords, status \in {"accepted", "rejected"} :
                    RecordStatus(p, rec, status)
               \/ \E f \in DOMAIN ext : RemoveFile(f)
               \/ \E s \in DOMAIN Plugin : Upgrade(s)
               \/ CloseRun
               \/ StartRun
        PROVE  NothingForged'
    BY <2>1, OutsideForges
  <2>2. ASSUME NEW p \in Proc,
               \/ \E rec \in LessonRecords : BeginAccept(p, rec) \/ BeginReject(p, rec)
               \/ \E called \in SUBSET DOMAIN Suggestible : BeginSuggest(p, called)
               \/ BeginApply(p)
               \/ \E pack \in Pack : BeginPack(p, pack)
        PROVE  NothingForged'
    BY <2>2, BeginForges
  <2>3. ASSUME NEW p \in Proc,
               \/ SuggestOne(p) \/ Approve(p) \/ RecordTriage(p) \/ Kill(p)
               \/ Collect(p) \/ ReadProse(p) \/ WriteYaml(p) \/ WriteProseRules(p)
               \/ CopyFile(p) \/ TornCopy(p)
        PROVE  NothingForged'
    BY <2>3, TurnForges, ReadForges, WriteForges, CopyForges
  <2> QED
    BY <1>2, <2>1, <2>2, <2>3, Zenon DEF Next
<1> QED
  BY <1>1, <1>2

\* Where no pack is called "lessons", no check is ever enforced and no rule
\* written that nobody accepted, however many commands overlap and wherever
\* they are killed: both files, and what a command has read and is about to
\* write to them, come from lessons that were accepted at some time.
THEOREM NothingUnacceptedEver ==
  ASSUME PacksStayApart
  PROVE  Spec => []NothingUnaccepted
<1>1. Init => NothingForged
  BY DEF Init, NothingForged, Idle
<1>2. IInv /\ NothingForged /\ [Next]_vars => NothingForged'
  BY ForgedHolds
<1>3. IInv /\ NothingForged => NothingUnaccepted
  <2> SUFFICES ASSUME IInv, NothingForged
               PROVE  NothingUnaccepted
    OBVIOUS
  <2>1. DOMAIN log = 1..Len(log)
    BY LogIs DEF IInv, Types
  <2>2. {e.rec : e \in {f \in Range(log) : f.status = "accepted"}} = Ever
    BY <2>1 DEF Ever, Range
  <2> QED
    BY <2>2 DEF NothingUnaccepted, NothingForged, Sourced
<1>4. Spec => []IInv
  BY InvariantHolds
<1> QED
  BY <1>1, <1>2, <1>3, <1>4, PTL DEF Spec

-----------------------------------------------------------------------------
(* Commands that nothing disturbs.                                         *)

\* Only killed processes are counted.
LEMMA KillsCount == Spec => [](kills \in Nat)
<1>1. Init => kills \in Nat
  BY DEF Init
<1>2. kills \in Nat /\ [Next]_vars => (kills \in Nat)'
  <2> SUFFICES ASSUME kills \in Nat, [Next]_vars
               PROVE  kills' \in Nat
    OBVIOUS
  <2>1. CASE UNCHANGED vars
    BY <2>1 DEF vars
  <2>2. ASSUME \/ \E f \in DOMAIN ext : RemoveFile(f)
               \/ \E s \in DOMAIN Plugin : Upgrade(s)
               \/ CloseRun
               \/ StartRun
        PROVE  kills' \in Nat
    BY <2>2 DEF RemoveFile, Upgrade, CloseRun, StartRun
  <2>3. ASSUME NEW p \in Proc,
               \/ \E t \in Text : RecordLesson(p, t)
               \/ \E rec \in LessonRecords, status \in {"accepted", "rejected"} :
                    RecordStatus(p, rec, status)
               \/ \E rec \in LessonRecords : BeginAccept(p, rec) \/ BeginReject(p, rec)
               \/ \E called \in SUBSET DOMAIN Suggestible : BeginSuggest(p, called)
               \/ BeginApply(p)
               \/ \E pack \in Pack : BeginPack(p, pack)
        PROVE  kills' = kills
    BY <2>3 DEF RecordLesson, RecordStatus, BeginAccept, BeginReject, BeginSuggest, BeginApply,
       BeginPack
  <2>4. ASSUME NEW p \in Proc,
               \/ SuggestOne(p) \/ Approve(p) \/ RecordTriage(p) \/ Collect(p) \/ ReadProse(p)
               \/ WriteYaml(p) \/ WriteProseRules(p) \/ CopyFile(p)
        PROVE  kills' = kills
    BY <2>4 DEF SuggestOne, Approve, RecordTriage, Collect, ReadProse, WriteYaml,
       WriteProseRules, CopyFile
  <2>5. ASSUME NEW p \in Proc, TornCopy(p) \/ Kill(p)
        PROVE  kills' \in Nat
    BY <2>5 DEF TornCopy, Kill
  <2> QED
    BY <2>1, <2>2, <2>3, <2>4, <2>5, Zenon DEF Next
<1> QED
  BY <1>1, <1>2, PTL DEF Spec

\* A step that leaves p undisturbed in the middle of its command is one of p.
LEMMA OwnStep ==
  ASSUME IInv, Next, NEW p \in Proc, Alone(p)
  PROVE  \/ SuggestOne(p) \/ Approve(p) \/ RecordTriage(p) \/ Collect(p) \/ WriteYaml(p)
         \/ ReadProse(p) \/ WriteProseRules(p) \/ CopyFile(p) \/ TornCopy(p) \/ Kill(p)
<1> DEFINE Turn(q) ==
      \/ SuggestOne(q) \/ Approve(q) \/ RecordTriage(q) \/ Collect(q) \/ WriteYaml(q)
      \/ ReadProse(q) \/ WriteProseRules(q) \/ CopyFile(q) \/ TornCopy(q) \/ Kill(q)
<1>1. /\ job[p] # Idle /\ ~ (job'[p] # Idle /\ job'[p].alone = FALSE)
  BY DEF Alone
<1>2. ~ Outside
  BY <1>1, JobsDisturbed DEF IInv, Types
<1>3. ASSUME NEW q \in Proc, NEW j, Step(q, j)
      PROVE  q = p
  <2>1. Others(q)
    BY <1>3, OthersAre DEF IInv
  <2> QED
    BY <1>1, <2>1 DEF Others
<1>4. ASSUME NEW q \in Proc,
             \/ \E rec \in LessonRecords : BeginAccept(q, rec) \/ BeginReject(q, rec)
             \/ \E called \in SUBSET DOMAIN Suggestible : BeginSuggest(q, called)
             \/ BeginApply(q)
             \/ \E pack \in Pack : BeginPack(q, pack)
      PROVE  FALSE
  <2>1. ASSUME NEW rec, BeginAccept(q, rec) \/ BeginReject(q, rec)
        PROVE  \E j : Begin(q, j)
    BY <2>1 DEF BeginAccept, BeginReject
  <2>2. ASSUME NEW called, BeginSuggest(q, called)
        PROVE  \E j : Begin(q, j)
    BY <2>2 DEF BeginSuggest
  <2>3. ASSUME BeginApply(q)
        PROVE  \E j : Begin(q, j)
    BY <2>3 DEF BeginApply
  <2>4. ASSUME NEW pack, BeginPack(q, pack)
        PROVE  \E j : Begin(q, j)
    BY <2>4 DEF BeginPack
  <2>5. PICK j : Begin(q, j)
    BY <1>4, <2>1, <2>2, <2>3, <2>4
  <2> QED
    BY <1>1, <1>3, <2>5 DEF Begin
<1>5. ASSUME NEW q \in Proc, Turn(q)
      PROVE  q = p
  <2>1. ASSUME \/ SuggestOne(q) \/ Approve(q) \/ RecordTriage(q) \/ Collect(q)
        PROVE  \E j : Step(q, j)
    BY <2>1 DEF SuggestOne, Approve, RecordTriage, Collect
  <2>2. ASSUME WriteYaml(q) \/ ReadProse(q) \/ WriteProseRules(q)
        PROVE  \E j : Step(q, j)
    BY <2>2 DEF WriteYaml, ReadProse, WriteProseRules
  <2>3. ASSUME CopyFile(q) \/ TornCopy(q) \/ Kill(q)
        PROVE  \E j : Step(q, j)
    BY <2>3 DEF CopyFile, TornCopy, Kill
  <2> QED
    BY <1>3, <1>5, <2>1, <2>2, <2>3
<1>6. ASSUME \/ \E q \in Proc, t \in Text : RecordLesson(q, t)
             \/ \E q \in Proc, rec \in LessonRecords, status \in {"accepted", "rejected"} :
                  RecordStatus(q, rec, status)
             \/ \E f \in DOMAIN ext : RemoveFile(f)
             \/ \E s \in DOMAIN Plugin : Upgrade(s)
             \/ CloseRun
             \/ StartRun
      PROVE  Outside
  BY <1>6 DEF RecordLesson, RecordStatus, RemoveFile, Upgrade, CloseRun, StartRun
<1>7. \E q \in Proc : Turn(q)
  BY <1>2, <1>4, <1>6, Zenon DEF Next
<1> QED
  BY <1>5, <1>7

\* How such a command ends.
LEMMA LoadsAtTheEnd ==
  ASSUME IInv, kills \in Nat, Next, NEW p \in Proc, Alone(p), Finishes(p)
  PROVE  Loads(Plugin[plugin'], ext')
<1>1. PICK k : k = job[p]
  OBVIOUS
<1>2. k # Idle /\ k.alone /\ job'[p] = Idle /\ kills' = kills
  BY <1>1 DEF Alone, Finishes
<1>3. k \in Job /\ Fit(k) /\ InHand(k) /\ Idle.at = "idle"
  BY <1>1, <1>2, GoesOn DEF Idle
<1>4. CASE SuggestOne(p) \/ Approve(p) \/ RecordTriage(p) \/ Collect(p) \/ WriteProseRules(p)
  <2>1. k.at \notin {"yaml", "copy"}
    BY <1>1, <1>4 DEF SuggestOne, Approve, RecordTriage, Collect, WriteProseRules
  <2>2. plugin' = plugin /\ ext' = ext
    BY <1>4 DEF SuggestOne, Approve, RecordTriage, Collect, WriteProseRules
  <2> QED
    BY <1>3, <2>1, <2>2 DEF Fit
<1>5. CASE WriteYaml(p) \/ ReadProse(p)
  <2>1. PICK j : Step(p, j) /\ j.at \in {"prose", "rules"}
    BY <1>5 DEF WriteYaml, ReadProse
  <2>2. job'[p] = j
    BY <2>1, OthersAre DEF IInv
  <2> QED
    BY <1>2, <1>3, <2>1, <2>2
<1>6. CASE CopyFile(p)
  <2>1. k.at = "copy" /\ plugin' = plugin
    BY <1>1, <1>6 DEF CopyFile
  <2>2. PICK f \in k.todo :
          /\ ext' = With(Restrict(k.pack, {f}))
          /\ Step(p, IF k.todo = {f} THEN Idle ELSE [k EXCEPT !.todo = @ \ {f}])
    BY <1>1, <1>6 DEF CopyFile
  <2>3. PICK j : j = IF k.todo = {f} THEN Idle ELSE [k EXCEPT !.todo = @ \ {f}]
    OBVIOUS
  <2>4. job'[p] = j
    BY <2>2, <2>3, OthersAre DEF IInv
  <2>5. k.todo = {f}
    <3> SUFFICES ASSUME k.todo # {f}
                 PROVE  FALSE
      OBVIOUS
    <3>1. j.at = "copy"
      <4>1. k \in [at : {"copy"}, pack : Pack,
                   todo : SUBSET UNION {DOMAIN pack : pack \in Pack}, alone : BOOLEAN]
        BY <1>3, <2>1, ShapeIs
      <4> QED
        BY <2>3, <4>1
    <3> QED
      BY <1>2, <1>3, <2>4, <3>1
  <2>6. /\ Loads(Plugin[plugin], With(k.pack)) /\ k.todo \subseteq DOMAIN k.pack
        /\ \A g \in DOMAIN k.pack \ k.todo : g \in DOMAIN ext /\ ext[g] = k.pack[g]
    BY <1>3, <2>1 DEF Fit, InHand
  <2>7. ext' = With(k.pack)
    BY <2>2, <2>5, <2>6, CopyLast
  <2> QED
    BY <2>1, <2>6, <2>7
<1>7. CASE TornCopy(p) \/ Kill(p)
  <2>1. kills' = kills + 1
    BY <1>7 DEF TornCopy, Kill
  <2> QED
    BY <1>2, <2>1
<1> QED
  BY <1>4, <1>5, <1>6, <1>7, OwnStep

\* A command that ran to its end with nothing going on beside it leaves a
\* workflow that loads, whatever was killed, removed, replaced or written
\* before it: by what is validated before the first write and by nothing else,
\* since an apply writes the items it validated and a pack is copied as a whole.
THEOREM LoadsAfterwards == Spec => CommandsLeaveItLoading
<1>1. IInv /\ kills \in Nat /\ [Next]_vars =>
        [\A p \in Proc : Alone(p) /\ Finishes(p) => Loads(Plugin[plugin'], ext')]_vars
  BY LoadsAtTheEnd
<1> QED
  BY <1>1, InvariantHolds, KillsCount, PTL DEF Spec, CommandsLeaveItLoading

\* What an apply leaves behind.
LEMMA DeliversAtTheEnd ==
  ASSUME IInv, kills \in Nat, Next, NEW p \in Proc,
         job[p].at = "rules", Alone(p), Finishes(p)
  PROVE  /\ rules' = AcceptedProse
         /\ Enforced = ToEnforce
<1>1. WriteProseRules(p)
  <2>1. ~ (TornCopy(p) \/ Kill(p))
    BY DEF TornCopy, Kill, Finishes
  <2>2. ~ (SuggestOne(p) \/ Approve(p) \/ RecordTriage(p) \/ Collect(p))
    BY DEF SuggestOne, Approve, RecordTriage, Collect
  <2>3. ~ (WriteYaml(p) \/ ReadProse(p) \/ CopyFile(p))
    BY DEF WriteYaml, ReadProse, CopyFile
  <2> QED
    BY <2>1, <2>2, <2>3, OwnStep
<1>2. Fit(job[p])
  BY GoesOn DEF Alone
<1>3. job[p].prose = AcceptedProse /\ Enforced = ToEnforce
  BY <1>2 DEF Fit
<1> QED
  BY <1>1, <1>3 DEF WriteProseRules

\* Once an acceptance, a rejection or an apply is through with nothing going on
\* beside it, the rule file lists the accepted prose lessons of all runs and no
\* other, and lessons.yaml has the names of all accepted checks and no other,
\* however an earlier command left them.
THEOREM DeliveryIsComplete == Spec => ApplyDelivers
<1>1. ASSUME IInv, kills \in Nat, Next
      PROVE  \A p \in Proc :
               job[p].at = "rules" /\ Alone(p) /\ Finishes(p) =>
                 /\ rules' = {rec \in Recorded :
                                StatusOf(rec) = "accepted" /\ Check[TextOf(rec)].form = "prose"}
                 /\ (IF LessonsFile \in DOMAIN ext THEN Names(ext[LessonsFile].items) ELSE {}) =
                    {ItemOf(rec).name : rec \in
                       {r \in Recorded :
                          StatusOf(r) = "accepted" /\ Check[TextOf(r)].form = "item"}}
  <2>1. LessonRecords = Recorded
    BY <1>1, RecordsAre DEF IInv, Types
  <2>2. AcceptedProse = {rec \in Recorded :
                           StatusOf(rec) = "accepted" /\ Check[TextOf(rec)].form = "prose"}
    BY <2>1 DEF AcceptedProse, Accepted
  <2>3. AcceptedChecks = {rec \in Recorded :
                            StatusOf(rec) = "accepted" /\ Check[TextOf(rec)].form = "item"}
    BY <2>1 DEF AcceptedChecks, Accepted
  <2> QED
    BY <1>1, <2>2, <2>3, DeliversAtTheEnd DEF Enforced, ToEnforce
<1> QED
  BY <1>1, InvariantHolds, KillsCount, PTL DEF Spec, ApplyDelivers

\* What the engine proposes.
LEMMA ProposesNew ==
  ASSUME IInv, Next, NEW p \in Proc, job[p].at = "suggest", Alone(p), log' # log,
         NEW n \in DOMAIN log
  PROVE  log[n].text # log'[Len(log')].text
<1>1. SuggestOne(p)
  <2>1. ~ (Approve(p) \/ RecordTriage(p) \/ Collect(p) \/ WriteYaml(p))
    BY DEF Approve, RecordTriage, Collect, WriteYaml
  <2>2. ~ (ReadProse(p) \/ WriteProseRules(p) \/ CopyFile(p) \/ TornCopy(p) \/ Kill(p))
    BY DEF ReadProse, WriteProseRules, CopyFile, TornCopy, Kill
  <2> QED
    BY <2>1, <2>2, OwnStep
<1>2. PICK k, c, e : k = job[p] /\ c = Min(k.todo) /\ e = NewLesson(Suggestible[c])
  OBVIOUS
<1>3. cur # 0 /\ Room /\ log' = Append(log, e)
  BY <1>1, <1>2 DEF SuggestOne
<1>4. k \in Job /\ Fit(k) /\ k.todo # {}
  BY <1>2, GoesOn DEF Alone, InHand
<1>5. k.todo \in SUBSET DOMAIN Suggestible
  BY <1>2, <1>4, ShapeIs
<1>6. c \in k.todo /\ Suggestible[c] \in Text
  BY <1>2, <1>4, <1>5, NextClass
<1>7. Suggestible[c] \notin Known
  BY <1>2, <1>4, <1>6 DEF Fit
<1>8. Fitting(e) /\ e.text = Suggestible[c]
  BY <1>2, <1>3, <1>6, NewFits
<1>9. LogOK /\ n \in 1..Len(log)
  BY LogIs DEF IInv, Types
<1>10. log'[Len(log')] = e
  BY <1>3, <1>8, <1>9, LogGrows
<1>11. log[n].text \in Known
  BY <1>9, TextsAreKnown
<1> QED
  BY <1>7, <1>8, <1>10, <1>11

\* What was once proposed, in whatever run and with whatever answer, is not
\* proposed again by a suggest that nobody disturbs: the records of all runs are
\* read before, and the texts of the trigger classes are distinct.
THEOREM NeverProposedTwice == Spec => NotProposedAgain
<1>1. IInv /\ [Next]_vars =>
        [\A p \in Proc :
           job[p].at = "suggest" /\ Alone(p) /\ log' # log =>
             \A n \in DOMAIN log : log[n].text # log'[Len(log')].text]_vars
  BY ProposesNew
<1> QED
  BY <1>1, InvariantHolds, PTL DEF Spec, NotProposedAgain

-----------------------------------------------------------------------------
(* lessons.yaml may always go.                                             *)

LEMMA DeclaredIs ==
  ASSUME NEW dir, NEW part, NEW x
  PROVE  x \in All(dir, part) <=>
           \E g \in DOMAIN dir : \E n \in DOMAIN dir[g][part] : x = dir[g][part][n]
BY DEF All

\* A file without record kinds of its own is not needed by what is beside it.
LEMMA NotNeeded ==
  ASSUME NEW s, NEW e, NEW f, f \in DOMAIN e => e[f].kinds = <<>>, Loads(s, e),
         NEW d, d = [g \in DOMAIN e \ {f} |-> e[g]]
  PROVE  Loads(s, d)
<1>1. DOMAIN d = DOMAIN e \ {f} /\ \A g \in DOMAIN d : g \in DOMAIN e /\ d[g] = e[g]
  OBVIOUS
<1>2. All(d, "kinds") = All(e, "kinds")
  <2>1. f \in DOMAIN e => DOMAIN e[f]["kinds"] = {}
    <3>1. f \in DOMAIN e => DOMAIN e[f].kinds = {}
      OBVIOUS
    <3> QED
      BY <3>1
  <2>2. ASSUME NEW x \in All(d, "kinds")
        PROVE  x \in All(e, "kinds")
    <3>1. PICK g \in DOMAIN d : \E n \in DOMAIN d[g]["kinds"] : x = d[g]["kinds"][n]
      BY DeclaredIs
    <3> QED
      BY <1>1, <3>1, DeclaredIs
  <2>3. ASSUME NEW x \in All(e, "kinds")
        PROVE  x \in All(d, "kinds")
    <3>1. PICK g \in DOMAIN e : \E n \in DOMAIN e[g]["kinds"] : x = e[g]["kinds"][n]
      BY DeclaredIs
    <3>2. g \in DOMAIN d /\ d[g] = e[g]
      BY <1>1, <2>1, <3>1
    <3> QED
      BY <3>1, <3>2, DeclaredIs
  <2> QED
    BY <2>2, <2>3
<1>3. All(d, "items") \subseteq All(e, "items")
  <2>1. ASSUME NEW x \in All(d, "items")
        PROVE  x \in All(e, "items")
    <3>1. PICK g \in DOMAIN d : \E n \in DOMAIN d[g]["items"] : x = d[g]["items"][n]
      BY DeclaredIs
    <3> QED
      BY <1>1, <3>1, DeclaredIs
  <2> QED
    BY <2>1
<1>4. Mergeable(s, e) /\ Validate(Merged(s, e))
  BY DEF Loads
<1>5. Once(d, "kinds") /\ Once(d, "items")
  <2>1. ASSUME NEW part, Once(e, part)
        PROVE  Once(d, part)
    BY <1>1, <2>1 DEF Once
  <2> QED
    BY <1>4, <2>1 DEF Mergeable
<1>6. Mergeable(s, d)
  BY <1>1, <1>2, <1>3, <1>4, <1>5 DEF Mergeable
<1>7. PICK a, b : a = Merged(s, e) /\ b = Merged(s, d)
  OBVIOUS
<1>8. PICK ks, ie, id : /\ ks = {k.name : k \in All(e, "kinds")}
                        /\ ie = All(e, "items") /\ id = All(d, "items")
  OBVIOUS
<1>9. /\ a = [s EXCEPT !.kinds = @ \cup ks, !.contracts = @ \cup ie]
      /\ b = [s EXCEPT !.kinds = @ \cup ks, !.contracts = @ \cup id]
  BY <1>2, <1>7, <1>8 DEF Merged
<1>10. /\ b.families = a.families /\ b.intents = a.intents /\ b.phases = a.phases
       /\ b.loops = a.loops /\ b.roster = a.roster /\ b.kinds = a.kinds
       /\ b.passes = a.passes /\ b.fails = a.fails /\ b.conditional = a.conditional
       /\ b.contracts \subseteq a.contracts
  <2>1. CASE "contracts" \in DOMAIN s
    <3>1. a.contracts = s.contracts \cup ie /\ b.contracts = s.contracts \cup id
      BY <1>9, <2>1
    <3>2. b.contracts \subseteq a.contracts
      BY <1>3, <1>8, <3>1
    <3> QED
      BY <1>9, <3>2
  <2>2. CASE "contracts" \notin DOMAIN s
    <3>1. a = b
      BY <1>9, <2>2
    <3> QED
      BY <3>1
  <2> QED
    BY <2>1, <2>2
<1>11. Validate(a)
  BY <1>4, <1>7
<1>12. PhasesValid(b) /\ LoopsValid(b) /\ RosterValid(b)
  <2>1. PhasesValid(a) => PhasesValid(b)
    <3> DEFINE Fine(phases, families) ==
          /\ Distinct(phases)
          /\ {phases[n].order : n \in DOMAIN phases} = 1..Len(phases)
          /\ \A n \in DOMAIN phases :
               /\ phases[n].mode \in {"interactive", "interactive-exit", "auto-advance"}
               /\ phases[n].skill # ""
               /\ \A fam \in families :
                    /\ fam \in DOMAIN phases[n].participation
                    /\ phases[n].participation[fam] \in {"required", "waivable", "none"}
    <3>1. /\ PhasesValid(a) <=> Fine(a.phases, a.families)
          /\ PhasesValid(b) <=> Fine(b.phases, b.families)
      BY Zenon DEF PhasesValid
    <3> HIDE DEF Fine
    <3> QED
      BY <1>10, <3>1
  <2>2. LoopsValid(a) => LoopsValid(b)
    BY <1>10 DEF LoopsValid
  <2>3. RosterValid(a) => RosterValid(b)
    BY <1>10 DEF RosterValid
  <2> QED
    BY <1>11, <2>1, <2>2, <2>3 DEF Validate
<1>13. \A item \in b.contracts : ItemValid(b, item)
  BY <1>10, <1>11 DEF Validate, ItemValid
<1>14. Validate(b)
  BY <1>10, <1>11, <1>12, <1>13 DEF Validate
<1> QED
  BY <1>6, <1>7, <1>14 DEF Loads

\* Only an apply writes lessons.yaml.
LEMMA LessonsFileMoves ==
  ASSUME PacksStayApart, IInv, [Next]_vars
  PROVE  \/ LessonsUntouched
         \/ \E items : ext' = WithLessons(items)
<1>1. CASE ext' = ext
  BY <1>1 DEF LessonsUntouched
<1>2. ASSUME NEW p \in Proc, CopyFile(p) \/ TornCopy(p)
      PROVE  LessonsUntouched
  BY <1>2, CopyElsewhere
<1>3. ASSUME NEW f \in DOMAIN ext, RemoveFile(f)
      PROVE  LessonsUntouched
  BY <1>3, RemoveElsewhere
<1>4. ASSUME NEW p \in Proc, WriteYaml(p)
      PROVE  \E items : ext' = WithLessons(items)
  BY <1>4 DEF WriteYaml
<1>5. ASSUME NEW p \in Proc,
             \/ \E t \in Text : RecordLesson(p, t)
             \/ \E rec \in LessonRecords, status \in {"accepted", "rejected"} :
                  RecordStatus(p, rec, status)
             \/ \E rec \in LessonRecords : BeginAccept(p, rec) \/ BeginReject(p, rec)
             \/ \E called \in SUBSET DOMAIN Suggestible : BeginSuggest(p, called)
             \/ BeginApply(p)
             \/ \E pack \in Pack : BeginPack(p, pack)
      PROVE  ext' = ext
  BY <1>5 DEF RecordLesson, RecordStatus, BeginAccept, BeginReject, BeginSuggest, BeginApply,
     BeginPack
<1>6. ASSUME NEW p \in Proc,
             \/ SuggestOne(p) \/ Approve(p) \/ RecordTriage(p) \/ Collect(p) \/ ReadProse(p)
             \/ WriteProseRules(p) \/ Kill(p)
      PROVE  ext' = ext
  BY <1>6 DEF SuggestOne, Approve, RecordTriage, Collect, ReadProse, WriteProseRules, Kill
<1>7. ASSUME UNCHANGED vars \/ (\E s \in DOMAIN Plugin : Upgrade(s)) \/ CloseRun \/ StartRun
      PROVE  ext' = ext
  BY <1>7 DEF vars, Upgrade, CloseRun, StartRun
<1> QED
  BY <1>1, <1>2, <1>3, <1>4, <1>5, <1>6, <1>7, Zenon DEF Next

\* lessons.yaml declares no record kinds.
OnlyItems == LessonsFile \in DOMAIN ext => ext[LessonsFile].kinds = <<>>

\* Where no pack is called "lessons", taking every lesson back never breaks a
\* workflow that loads: nothing else in contracts.d can have come to depend on
\* lessons.yaml, as the files of a pack depend on each other.
THEOREM LessonsMayGo ==
  ASSUME PacksStayApart
  PROVE  Spec => [](Loads(Plugin[plugin], ext) => Loads(Plugin[plugin], WithLessons(<<>>)))
<1>1. Init => OnlyItems
  BY DEF Init, OnlyItems
<1>2. IInv /\ OnlyItems /\ [Next]_vars => OnlyItems'
  <2> SUFFICES ASSUME IInv, OnlyItems, [Next]_vars, LessonsFile \in DOMAIN ext'
               PROVE  ext'[LessonsFile].kinds = <<>>
    BY DEF OnlyItems
  <2>1. CASE LessonsUntouched
    BY <2>1 DEF OnlyItems, LessonsUntouched
  <2>2. ASSUME NEW items, ext' = WithLessons(items)
        PROVE  ext'[LessonsFile].kinds = <<>>
    BY <2>2, LessonsWritten
  <2> QED
    BY <2>1, <2>2, LessonsFileMoves
<1>3. OnlyItems =>
        (Loads(Plugin[plugin], ext) => Loads(Plugin[plugin], WithLessons(<<>>)))
  <2>1. WithLessons(<<>>) = [f \in DOMAIN ext \ {LessonsFile} |-> ext[f]]
    <3>1. WithLessons(<<>>) = Restrict(ext, DOMAIN ext \ {LessonsFile})
      BY DEF WithLessons, Without
    <3> QED
      BY <3>1 DEF Restrict
  <2> QED
    BY <2>1, NotNeeded DEF OnlyItems
<1>4. Spec => []IInv
  BY InvariantHolds
<1> QED
  BY <1>1, <1>2, <1>3, <1>4, PTL DEF Spec

=============================================================================
