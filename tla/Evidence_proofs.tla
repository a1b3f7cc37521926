-------------------------- MODULE Evidence_proofs --------------------------
(***************************************************************************)
(* Proofs about Evidence, for every set of reviewers, list of phases and   *)
(* number of records made by hand: which verdicts a contract accepts, and  *)
(* how often a reviewer is sent back.                                      *)
(***************************************************************************)
EXTENDS Evidence, WellFoundedInduction, SequenceTheorems, TLAPS

-----------------------------------------------------------------------------
(* The newest of some records.                                             *)

\* The newest of a nonempty set of positions is one of them, and the last.
LEMMA NewestIsLast ==
  ASSUME NEW b \in Nat, NEW S \in SUBSET (1..b), S # {}
  PROVE  Newest(S) \in S /\ \A i \in S : i <= Newest(S)
<1> DEFINE T == {b - i : i \in S}
           R == {ss \in Nat \X Nat : ss[1] < ss[2]}
<1>1. \A i \in S : i \in Nat /\ b - i \in Nat
  OBVIOUS
<1>2. T \subseteq Nat /\ T # {}
  BY <1>1
<1>3. IsWellFoundedOn(R, Nat)
  BY NatLessThanWellFounded, Zenon DEF OpToRel
<1> HIDE DEF R, T
<1>4. PICK t \in T : \A u \in T : ~ (<<u, t>> \in R)
  BY <1>2, <1>3, WFMin, Zenon
<1>5. \A u \in T : t <= u
  <2> TAKE u \in T
  <2>1. t \in Nat /\ u \in Nat
    BY <1>2
  <2>2. <<u, t>> \in R <=> u < t
    BY <2>1 DEF R
  <2> QED
    BY <1>4, <2>1, <2>2
<1>6. PICK top \in S : t = b - top
  BY DEF T
<1>7. \A i \in S : top >= i
  <2> TAKE i \in S
  <2>1. b - i \in T
    BY DEF T
  <2> QED
    BY <1>1, <1>5, <1>6, <2>1
<1>8. Max(S) \in S /\ \A i \in S : Max(S) >= i
  BY <1>7 DEF Max
<1> QED
  BY <1>1, <1>8 DEF Newest

-----------------------------------------------------------------------------
(* The inductive invariant.                                                *)

Types ==
  /\ TypeOK
  /\ verdicts \in Seq(Verdict)
  /\ \A a \in Agent : reviewer[a].at \notin {"unborn", "ended"} => reviewer[a].mode \in Modes

\* What a hook captured stands in the record, where it filed it, until an
\* update edits it.
Untouched(v) ==
  v.auto /\ ~ v.edited => v.status = v.captured /\ v.scope = v.filed

CapturesStand == \A i \in 1..Len(verdicts) : Untouched(verdicts[i])

\* Unless another hook wrote it away, the counter file knows of every block of
\* a reviewer, and so does what its hook read of it.
BlocksAreCounted ==
  \A a \in Agent \ lost :
    /\ blocks[a] <= attempts[a]
    /\ reviewer[a].at = "reading" => blocks[a] <= copy[a][a]

IInv == Types /\ CapturesStand /\ BlocksAreCounted /\ BlockedTwice

-----------------------------------------------------------------------------
(* Effective verdicts.                                                     *)

\* The verdict of a scope that counts is one of that scope.
LEMMA EffectiveIsOf ==
  ASSUME Types, NEW s, Of(s) # {}
  PROVE  EffectiveVerdict(s) \in Of(s)
<1>1. Len(verdicts) \in Nat /\ Of(s) \in SUBSET (1..Len(verdicts))
  BY LenProperties DEF Types, Of
<1>2. Newest(Of(s)) \in Of(s)
  BY <1>1, NewestIsLast
<1>3. Captured(Of(s)) # {} => Newest(Captured(Of(s))) \in Of(s)
  BY <1>1, NewestIsLast DEF Captured
<1> QED
  BY <1>2, <1>3 DEF EffectiveVerdict

\* A failing capture that nothing disposed of is what counts, or is followed
\* by nothing captured: in no case does a record by hand take its place.
LEMMA FailCounts ==
  ASSUME Types, NEW s, Captured(Of(s)) # {},
         verdicts[Newest(Captured(Of(s)))].status \in Fail,
         ~ verdicts[Newest(Captured(Of(s)))].disposed
  PROVE  EffectiveVerdict(s) = Newest(Captured(Of(s)))
<1> DEFINE auto == Captured(Of(s))
           last == Newest(Of(s))
<1>1. Len(verdicts) \in Nat /\ Of(s) \in SUBSET (1..Len(verdicts))
  BY LenProperties DEF Types, Of
<1>2. auto \in SUBSET (1..Len(verdicts)) /\ auto # {} /\ auto \subseteq Of(s)
  BY <1>1 DEF Captured
<1>3. /\ Newest(auto) \in auto /\ \A i \in auto : i <= Newest(auto)
      /\ last \in Of(s) /\ \A i \in Of(s) : i <= last
  BY <1>1, <1>2, NewestIsLast
<1>4. CASE verdicts[last].auto
  <2>1. last \in auto
    BY <1>3, <1>4 DEF Captured
  <2>2. last = Newest(auto)
    BY <1>1, <1>2, <1>3, <2>1
  <2> QED
    BY <1>4, <2>2 DEF EffectiveVerdict
<1>5. CASE ~ verdicts[last].auto
  BY <1>2, <1>5 DEF EffectiveVerdict
<1> QED
  BY <1>4, <1>5

-----------------------------------------------------------------------------
(* The steps.                                                              *)

\* The mode a verdict is filed under is one the gates know.
LEMMA ModeIsMode ==
  ASSUME phase \in 0..End, Open
  PROVE  Mode \in Modes
<1>1. phase \in DOMAIN PhaseSeq
  BY EvidenceAssumption, LenProperties DEF Open, End
<1> QED
  BY <1>1 DEF Mode, Modes

\* The invariant holds at the start.
LEMMA InitHolds == Init => IInv
<1> SUFFICES ASSUME Init
             PROVE  IInv
  OBVIOUS
<1>1. Types
  <2>1. End \in Nat /\ 0 \in 0..3
    BY EvidenceAssumption, LenProperties DEF End
  <2>2. NoAttempts \in [Agent -> 0..3]
    BY <2>1 DEF NoAttempts
  <2> QED
    BY <2>1, <2>2, EvidenceAssumption DEF Init, Types, TypeOK, At
<1> QED
  BY <1>1 DEF Init, IInv, CapturesStand, BlocksAreCounted, BlockedTwice, NoAttempts

\* A step of the run: the verdicts stay, and the hooks do nothing.
LEMMA RunStep ==
  ASSUME IInv, StartRun \/ ExitPhase \/ Loop
  PROVE  IInv'
<1>1. UNCHANGED <<verdicts, reviewer, attempts, copy, manual, blocks, lost>>
  BY DEF StartRun, ExitPhase, Loop
<1>2. phase' \in 0..End
  <2>1. End \in Nat /\ End >= 3 /\ phase \in 0..End
    BY EvidenceAssumption, LenProperties DEF End, IInv, Types, TypeOK
  <2> QED
    BY <2>1 DEF StartRun, ExitPhase, Loop
<1> QED
  BY <1>1, <1>2 DEF IInv, Types, TypeOK, CapturesStand, Untouched, BlocksAreCounted,
                    BlockedTwice

\* A run that closes keeps it.
LEMMA CloseStep ==
  ASSUME IInv, CloseRun
  PROVE  IInv'
<1>1. /\ phase' = 0 /\ verdicts' = <<>> /\ attempts' = NoAttempts
      /\ blocks' = [a \in Agent |-> 0] /\ lost' = {}
      /\ UNCHANGED <<reviewer, copy, manual>>
  BY DEF CloseRun
<1>2. NoAttempts \in [Agent -> 0..3] /\ 0 \in 0..End
  BY EvidenceAssumption, LenProperties DEF NoAttempts, End
<1>3. Types'
  BY <1>1, <1>2 DEF IInv, Types, TypeOK
<1>4. BlocksAreCounted'
  <2>1. \A a \in Agent : copy[a][a] \in 0..3
    BY DEF IInv, Types, TypeOK
  <2> QED
    BY <1>1, <2>1 DEF BlocksAreCounted, NoAttempts
<1> QED
  BY <1>1, <1>3, <1>4 DEF IInv, CapturesStand, BlockedTwice

\* A verdict more, by a hook or by hand.
LEMMA Appends ==
  ASSUME Types, CapturesStand, NEW v \in Verdict, Untouched(v),
         verdicts' = Append(verdicts, v)
  PROVE  verdicts' \in Seq(Verdict) /\ CapturesStand'
<1>1. verdicts \in Seq(Verdict) /\ Len(verdicts) \in Nat
  BY LenProperties DEF Types
<1>2. /\ verdicts' \in Seq(Verdict)
      /\ Len(verdicts') = Len(verdicts) + 1
      /\ \A i \in 1..Len(verdicts) : verdicts'[i] = verdicts[i]
      /\ verdicts'[Len(verdicts) + 1] = v
  BY <1>1, AppendProperties
<1> QED
  BY <1>1, <1>2 DEF CapturesStand

\* A verdict another than it was.
LEMMA Replaces ==
  ASSUME NEW vs \in Seq(Verdict), \A k \in 1..Len(vs) : Untouched(vs[k]),
         NEW i \in 1..Len(vs), NEW v \in Verdict, Untouched(v),
         NEW ws, ws = [vs EXCEPT ![i] = v]
  PROVE  /\ ws \in Seq(Verdict) /\ Len(ws) = Len(vs)
         /\ \A k \in 1..Len(ws) : Untouched(ws[k])
         /\ \A k \in 1..Len(vs) \ {i} : ws[k] = vs[k]
<1>1. /\ ws \in Seq(Verdict) /\ Len(ws) = Len(vs)
      /\ \A k \in 1..Len(vs) : ws[k] = IF k = i THEN v ELSE vs[k]
  BY ExceptSeq
<1> QED
  BY <1>1

\* Sequences of verdicts are well typed where they are indexed.
LEMMA SeqIsTyped ==
  ASSUME NEW vs \in Seq(Verdict)
  PROVE  \A i \in DOMAIN vs : vs[i] \in Verdict
  BY ElementOfSeq, LenProperties

\* Verdicts recorded, updated or disposed of by hand keep it.
LEMMA HandStep ==
  ASSUME IInv,
         \/ \E s \in Modes, status \in Said : RecordVerdict(s, status)
         \/ \E i \in DOMAIN verdicts :
              \/ \E s \in Scopes, status \in Said : UpdateVerdict(i, s, status)
              \/ Dispose(i)
              \/ \E j \in DOMAIN verdicts : MoveDisposition(i, j)
  PROVE  IInv'
<1> USE DEF IInv
<1>1. UNCHANGED <<phase, reviewer, attempts, copy, blocks, lost>>
  BY DEF RecordVerdict, UpdateVerdict, Dispose, MoveDisposition
<1>2. manual' \in 0..MaxManual
  <2>1. ByHand /\ manual \in 0..MaxManual
    BY DEF RecordVerdict, UpdateVerdict, Dispose, MoveDisposition, Types, TypeOK
  <2> QED
    BY <2>1, EvidenceAssumption DEF ByHand
<1> DEFINE Kept == verdicts' \in Seq(Verdict) /\ CapturesStand'
<1>s. /\ verdicts \in Seq(Verdict) /\ DOMAIN verdicts = 1..Len(verdicts)
      /\ \A k \in 1..Len(verdicts) : verdicts[k] \in Verdict /\ Untouched(verdicts[k])
  BY SeqIsTyped, LenProperties DEF Types, CapturesStand
<1>3. verdicts' \in Seq(Verdict) /\ CapturesStand'
  <2>1. ASSUME NEW s \in Modes, NEW status \in Said, RecordVerdict(s, status)
        PROVE  verdicts' \in Seq(Verdict) /\ CapturesStand'
    <3> DEFINE v == [auto |-> FALSE, scope |-> s, status |-> status,
                     disposed |-> FALSE, edited |-> FALSE, captured |-> "none",
                     filed |-> "none"]
    <3>1. s \in Scopes /\ status \in Status
      BY EvidenceAssumption DEF Scopes
    <3>2. v \in Verdict /\ Untouched(v) /\ verdicts' = Append(verdicts, v)
      BY <2>1, <3>1 DEF RecordVerdict, Verdict, Untouched
    <3> HIDE DEF v
    <3> QED
      BY <3>2, Appends
  <2>2. ASSUME NEW i \in DOMAIN verdicts, NEW s \in Scopes, NEW status \in Said,
               UpdateVerdict(i, s, status)
        PROVE  Kept
    <3> DEFINE v == [verdicts[i] EXCEPT !.scope = s, !.status = status, !.edited = TRUE]
    <3>1. verdicts[i] \in Verdict /\ status \in Status
      BY <1>s, EvidenceAssumption
    <3>2. v \in Verdict /\ Untouched(v)
      BY <3>1 DEF Verdict, Untouched
    <3>3. verdicts' = [verdicts EXCEPT ![i] = v]
      BY <2>2 DEF UpdateVerdict
    <3> HIDE DEF v
    <3> QED
      BY <1>s, <3>2, <3>3, Replaces DEF CapturesStand
  <2>3. ASSUME NEW i \in DOMAIN verdicts, Dispose(i)
        PROVE  Kept
    <3> DEFINE v == [verdicts[i] EXCEPT !.disposed = TRUE]
    <3>1. v \in Verdict /\ Untouched(v)
      BY <1>s DEF Verdict, Untouched
    <3>2. verdicts' = [verdicts EXCEPT ![i] = v]
      BY <2>3 DEF Dispose
    <3> HIDE DEF v
    <3> QED
      BY <1>s, <3>1, <3>2, Replaces DEF CapturesStand
  <2>4. ASSUME NEW i \in DOMAIN verdicts, NEW j \in DOMAIN verdicts, MoveDisposition(i, j)
        PROVE  Kept
    <3> DEFINE v   == [verdicts[i] EXCEPT !.disposed = FALSE]
               one == [verdicts EXCEPT ![i] = v]
               w   == [verdicts[j] EXCEPT !.disposed = TRUE]
    <3>1. i # j
      BY <2>4 DEF MoveDisposition
    <3>2. v \in Verdict /\ Untouched(v) /\ w \in Verdict /\ Untouched(w)
      BY <1>s DEF Verdict, Untouched
    <3>3. verdicts' = [one EXCEPT ![j].disposed = TRUE]
      BY <2>4 DEF MoveDisposition
    <3> HIDE DEF v
    <3>4. /\ one \in Seq(Verdict) /\ Len(one) = Len(verdicts) /\ one[j] = verdicts[j]
          /\ \A k \in 1..Len(one) : Untouched(one[k])
      BY <1>s, <3>1, <3>2, Replaces
    <3>5. verdicts' = [one EXCEPT ![j] = w]
      BY <3>3, <3>4
    <3> HIDE DEF one, w
    <3> QED
      BY <1>s, <3>2, <3>4, <3>5, Replaces DEF CapturesStand
  <2> QED
    BY <2>1, <2>2, <2>3, <2>4
<1>4. Types'
  BY <1>1, <1>2, <1>3, SeqIsTyped DEF Types, TypeOK
<1> QED
  BY <1>1, <1>3, <1>4 DEF BlocksAreCounted, BlockedTwice

\* A hook captures a verdict.
LEMMA Records ==
  ASSUME IInv, NEW a, NEW s \in Scopes, NEW status \in Status \cup Fail,
         Record(a, s, status)
  PROVE  verdicts' \in Seq(Verdict) /\ CapturesStand'
<1> DEFINE v == [auto |-> TRUE, scope |-> s, status |-> status, disposed |-> FALSE,
                 edited |-> FALSE, captured |-> status, filed |-> s]
<1>1. v \in Verdict /\ Untouched(v) /\ verdicts' = Append(verdicts, v)
  BY DEF Record, Verdict, Untouched
<1> HIDE DEF v
<1> QED
  BY <1>1, Appends DEF IInv

\* Starting a reviewer keeps it.
LEMMA SpawnStep ==
  ASSUME IInv, NEW a \in Agent, Spawn(a)
  PROVE  IInv'
<1> USE DEF IInv
<1>1. /\ reviewer' = [reviewer EXCEPT ![a] = [at |-> "working", mode |-> Mode]]
      /\ UNCHANGED <<phase, verdicts, attempts, copy, manual, blocks, lost>>
  BY DEF Spawn
<1>2. Mode \in Modes
  BY ModeIsMode DEF Spawn, Types, TypeOK
<1>3. Types'
  BY <1>1, <1>2 DEF Types, TypeOK, At
<1> QED
  BY <1>1, <1>3 DEF Types, TypeOK, CapturesStand, Untouched, BlocksAreCounted, BlockedTwice

\* A reviewer that was spawned goes on in the mode it was spawned in, or ends.
LEMMA MovesOn ==
  ASSUME Types, NEW a \in Agent, reviewer[a].at \notin {"unborn", "ended"},
         NEW at \in At \ {"unborn"},
         \/ reviewer' = [reviewer EXCEPT ![a].at = at]
         \/ at = "ended" /\ reviewer' = [reviewer EXCEPT ![a] = [at |-> at, mode |-> "none"]]
  PROVE  /\ reviewer' \in [Agent -> [at : At, mode : Modes \cup {"none"}]]
         /\ \A b \in Agent :
              reviewer'[b].at \notin {"unborn", "ended"} => reviewer'[b].mode \in Modes
         /\ \A b \in Agent \ {a} : reviewer'[b] = reviewer[b]
         /\ reviewer'[a].at = at
<1> DEFINE R == [at : At, mode : Modes \cup {"none"}]
<1>1. /\ reviewer \in [Agent -> R] /\ reviewer[a].mode \in Modes
      /\ \A b \in Agent :
           reviewer[b].at \notin {"unborn", "ended"} => reviewer[b].mode \in Modes
  BY DEF Types, TypeOK
<1>2. PICK r \in R : /\ reviewer' = [reviewer EXCEPT ![a] = r] /\ r.at = at
                    /\ r.at # "ended" => r.mode \in Modes
  <2>1. [reviewer[a] EXCEPT !.at = at] \in R /\ [at |-> at, mode |-> "none"] \in R
    BY <1>1
  <2> QED
    BY <1>1, <2>1
<1> QED
  BY <1>1, <1>2

\* A hook that captures the verdict of a reviewer keeps it.
LEMMA CaptureStep ==
  ASSUME IInv, NEW a \in Agent, NEW named \in Named, NEW word \in Word[named],
         Capture(a, word, named)
  PROVE  IInv'
<1> USE DEF IInv
<1>1. /\ reviewer[a].at = "working" /\ Open
      /\ Record(a, ScopeOf(a, named), Downgraded(word))
      /\ reviewer' = [reviewer EXCEPT ![a] = [at |-> "ended", mode |-> "none"]]
      /\ UNCHANGED <<phase, attempts, copy, manual, blocks, lost>>
  BY DEF Capture, Ends
<1>2. Downgraded(word) \in Status \cup Fail
  BY EvidenceAssumption DEF Downgraded, Fail
<1>3. ScopeOf(a, named) \in Scopes
  <2>1. Mode \in Modes /\ reviewer[a].mode \in Modes
    BY <1>1, ModeIsMode DEF Types, TypeOK
  <2> QED
    BY <2>1 DEF ScopeOf, Scopes, Named
<1>4. verdicts' \in Seq(Verdict) /\ CapturesStand'
  <2>1. PICK s \in Scopes, status \in Status \cup Fail :
               s = ScopeOf(a, named) /\ status = Downgraded(word)
    BY <1>2, <1>3
  <2> QED
    BY <1>1, <2>1, Records DEF Record
<1>5. /\ reviewer' \in [Agent -> [at : At, mode : Modes \cup {"none"}]]
      /\ \A b \in Agent :
           reviewer'[b].at \notin {"unborn", "ended"} => reviewer'[b].mode \in Modes
      /\ \A b \in Agent \ {a} : reviewer'[b] = reviewer[b]
      /\ reviewer'[a].at = "ended"
  BY <1>1, MovesOn DEF At
<1>6. Types'
  BY <1>1, <1>4, <1>5, SeqIsTyped DEF Types, TypeOK
<1> QED
  BY <1>1, <1>4, <1>5, <1>6 DEF BlocksAreCounted, BlockedTwice

\* A hook that refuses a verdict, and the reviewer it sends back, keep it.
LEMMA RefuseStep ==
  ASSUME IInv, NEW a \in Agent, Refuse(a) \/ GoOn(a)
  PROVE  IInv'
<1> USE DEF IInv
<1>1. /\ reviewer[a].at \notin {"unborn", "ended"}
      /\ UNCHANGED <<phase, verdicts, attempts, copy, manual, blocks, lost>>
  BY DEF Refuse, GoOn
<1>2. PICK at \in {"refused", "working"} : reviewer' = [reviewer EXCEPT ![a].at = at]
  BY DEF Refuse, GoOn
<1>3. /\ reviewer' \in [Agent -> [at : At, mode : Modes \cup {"none"}]]
      /\ \A b \in Agent :
           reviewer'[b].at \notin {"unborn", "ended"} => reviewer'[b].mode \in Modes
      /\ \A b \in Agent : reviewer'[b].at = "reading" => reviewer[b].at = "reading"
  BY <1>1, <1>2, MovesOn DEF At
<1>4. Types'
  BY <1>1, <1>3 DEF Types, TypeOK
<1> QED
  BY <1>1, <1>3, <1>4 DEF CapturesStand, Untouched, BlocksAreCounted, BlockedTwice

\* A hook that reads the counter file keeps it.
LEMMA ReadStep ==
  ASSUME IInv, NEW a \in Agent, ReadAttempts(a)
  PROVE  IInv'
<1> USE DEF IInv
<1>1. /\ reviewer' = [reviewer EXCEPT ![a].at = "reading"]
      /\ copy' = [copy EXCEPT ![a] = attempts]
      /\ UNCHANGED <<phase, verdicts, attempts, manual, blocks, lost>>
  BY DEF ReadAttempts
<1>2. Types'
  BY <1>1, MovesOn DEF ReadAttempts, Types, TypeOK, At
<1>3. BlocksAreCounted'
  BY <1>1 DEF Types, TypeOK, BlocksAreCounted
<1> QED
  BY <1>1, <1>2, <1>3 DEF CapturesStand, Untouched, BlockedTwice

\* A hook that writes the counter file, and decides, keeps it.
LEMMA WriteStep ==
  ASSUME IInv, NEW a \in Agent, WriteAttempts(a)
  PROVE  IInv'
<1> USE DEF IInv
<1> DEFINE n == copy[a][a]
<1>1. /\ reviewer[a].at = "reading"
      /\ attempts' = [copy[a] EXCEPT ![a] = UpTo(n + 1, 3)]
      /\ copy' = [copy EXCEPT ![a] = NoAttempts]
      /\ lost' = lost \cup {b \in Agent \ {a} : attempts'[b] < attempts[b]}
      /\ UNCHANGED <<phase, manual>>
  BY DEF WriteAttempts, OneMore
<1>2. /\ copy[a] \in [Agent -> 0..3] /\ n \in 0..3 /\ attempts \in [Agent -> 0..3]
      /\ blocks \in [Agent -> 0..3] /\ lost \subseteq Agent
      /\ reviewer \in [Agent -> [at : At, mode : Modes \cup {"none"}]]
  BY DEF Types, TypeOK
<1>3. UpTo(n + 1, 3) \in 0..3 /\ (n < 3 => UpTo(n + 1, 3) = n + 1) /\ n <= UpTo(n + 1, 3)
  BY <1>2 DEF UpTo
<1>4. /\ attempts' \in [Agent -> 0..3]
      /\ attempts'[a] = UpTo(n + 1, 3)
      /\ \A b \in Agent \ {a} : attempts'[b] = copy[a][b]
  BY <1>1, <1>2, <1>3
<1>5. copy' \in [Agent -> [Agent -> 0..3]] /\ lost' \subseteq Agent
  BY <1>1, <1>2 DEF Types, TypeOK, NoAttempts
<1>6. /\ reviewer' \in [Agent -> [at : At, mode : Modes \cup {"none"}]]
      /\ \A b \in Agent :
           reviewer'[b].at \notin {"unborn", "ended"} => reviewer'[b].mode \in Modes
      /\ \A b \in Agent \ {a} : reviewer'[b] = reviewer[b]
      /\ reviewer'[a].at # "reading"
  <2>1. PICK at \in {"working", "refused", "ended"} :
          \/ reviewer' = [reviewer EXCEPT ![a].at = at]
          \/ /\ at = "ended"
             /\ reviewer' = [reviewer EXCEPT ![a] = [at |-> at, mode |-> "none"]]
    BY DEF WriteAttempts, Ends
  <2> QED
    BY <1>1, <2>1, MovesOn DEF At
<1>7. /\ verdicts' \in Seq(Verdict) /\ CapturesStand'
      /\ \/ blocks' = blocks
         \/ /\ Retry(attempts'[a])
            /\ blocks' = [blocks EXCEPT ![a] = UpTo(blocks[a] + 1, 3)]
  <2>1. CASE UNCHANGED verdicts
    <3>1. verdicts' \in Seq(Verdict) /\ CapturesStand'
      BY <2>1 DEF Types, CapturesStand, Untouched
    <3> QED
      BY <3>1 DEF WriteAttempts
  <2>2. CASE /\ ~ Retry(attempts'[a]) /\ Open
             /\ Record(a, Mode, "unparsed")
             /\ UNCHANGED blocks
    <3>1. PICK s \in Scopes, status \in Status \cup Fail :
                 s = Mode /\ status = "unparsed"
      BY <2>2, ModeIsMode DEF Fail, Scopes, Types, TypeOK
    <3> QED
      BY <2>2, <3>1, Records DEF Record
  <2> QED
    BY <2>1, <2>2 DEF WriteAttempts
<1>8. blocks' \in [Agent -> 0..3] /\ \A b \in Agent \ {a} : blocks'[b] = blocks[b]
  BY <1>2, <1>7 DEF UpTo
<1>9. Types'
  BY <1>1, <1>4, <1>5, <1>6, <1>7, <1>8, SeqIsTyped DEF Types, TypeOK
<1>10. BlocksAreCounted' /\ BlockedTwice'
  <2>1. ASSUME NEW b \in Agent \ {a}, b \notin lost'
        PROVE  /\ blocks'[b] <= attempts'[b] /\ blocks'[b] <= 2
               /\ reviewer'[b].at = "reading" => blocks'[b] <= copy'[b][b]
    <3>1. b \notin lost /\ ~ (attempts'[b] < attempts[b])
      BY <1>1, <2>1
    <3>2. /\ blocks[b] <= attempts[b] /\ blocks[b] <= 2
          /\ reviewer[b].at = "reading" => blocks[b] <= copy[b][b]
      BY <3>1 DEF BlocksAreCounted, BlockedTwice
    <3>3. attempts[b] \in 0..3 /\ attempts'[b] \in 0..3 /\ blocks[b] \in 0..3
      BY <1>2, <1>4
    <3>4. copy'[b] = copy[b]
      BY <1>1 DEF Types, TypeOK
    <3> QED
      BY <1>6, <1>8, <3>1, <3>2, <3>3, <3>4
  <2>2. ASSUME a \notin lost'
        PROVE  blocks'[a] <= attempts'[a] /\ blocks'[a] <= 2
    <3>1. blocks[a] <= n /\ blocks[a] <= 2 /\ blocks[a] \in 0..3
      BY <1>1, <1>2, <2>2 DEF BlocksAreCounted, BlockedTwice
    <3>2. CASE blocks' = blocks
      BY <1>2, <1>3, <1>4, <3>1, <3>2
    <3>3. CASE Retry(attempts'[a]) /\ blocks' = [blocks EXCEPT ![a] = UpTo(blocks[a] + 1, 3)]
      <4>1. n + 1 <= 2 /\ attempts'[a] = n + 1
        BY <1>2, <1>3, <1>4, <3>3 DEF Retry, UpTo
      <4>2. blocks'[a] = blocks[a] + 1
        BY <1>2, <3>1, <3>3 DEF UpTo
      <4> QED
        BY <1>2, <3>1, <4>1, <4>2
    <3> QED
      BY <1>7, <3>2, <3>3
  <2> QED
    BY <1>6, <2>1, <2>2 DEF BlocksAreCounted, BlockedTwice
<1> QED
  BY <1>7, <1>9, <1>10

\* Every step keeps the invariant.
LEMMA NextKeeps == IInv /\ [Next]_vars => IInv'
<1> SUFFICES ASSUME IInv, [Next]_vars
             PROVE  IInv'
  OBVIOUS
<1>1. CASE StartRun \/ ExitPhase \/ Loop
  BY <1>1, RunStep
<1>2. CASE CloseRun
  BY <1>2, CloseStep
<1>3. CASE \/ \E s \in Modes, status \in Said : RecordVerdict(s, status)
           \/ \E i \in DOMAIN verdicts :
                \/ \E s \in Scopes, status \in Said : UpdateVerdict(i, s, status)
                \/ Dispose(i)
                \/ \E j \in DOMAIN verdicts : MoveDisposition(i, j)
  BY <1>3, HandStep
<1>4. ASSUME NEW a \in Agent, Spawn(a) \/ Finish(a)
      PROVE  IInv'
  BY <1>4, SpawnStep, CaptureStep, RefuseStep, ReadStep, WriteStep DEF Finish
<1>5. CASE UNCHANGED vars
  BY <1>5 DEF vars, IInv, Types, TypeOK, CapturesStand, Untouched, BlocksAreCounted,
              BlockedTwice
<1> QED
  BY <1>1, <1>2, <1>3, <1>4, <1>5 DEF Next

\* It holds at every moment of every behaviour.
LEMMA InvariantHolds == Spec => []IInv
  BY InitHolds, NextKeeps, PTL DEF Spec

-----------------------------------------------------------------------------
(* The theorems.                                                           *)

\* Verdicts, reviewers and the counter file are well-formed.
THEOREM EvidenceTypeCorrect == Spec => []TypeOK
<1>1. IInv => TypeOK
  BY DEF IInv, Types
<1> QED
  BY <1>1, InvariantHolds, PTL

\* Once anything was captured, what the main agent says itself meets no verdict
\* item: a passing capture, an updated one or a disposition does.
THEOREM GatesAreCaptured == Spec => []GateNeedsCapture
<1>1. IInv => GateNeedsCapture
  <2> SUFFICES ASSUME IInv, NEW s \in Modes, VerdictIn(s), Captured(DOMAIN verdicts) # {}
               PROVE  \/ \E i \in Captured(Of(s)) :
                           verdicts[i].captured \in Pass \/ verdicts[i].edited
                      \/ Disposed(s)
    BY DEF GateNeedsCapture
  <2> DEFINE e == EffectiveVerdict(s)
  <2>1. e \in Of(s) /\ e \in 1..Len(verdicts)
    BY EffectiveIsOf, LenProperties DEF VerdictIn, IInv, Types, Of
  <2>2. /\ verdicts[e].auto \/ ManualStands(s)
        /\ verdicts[e].status \in Pass \/ verdicts[e].disposed
    BY DEF VerdictIn
  <2> HIDE DEF e
  <2>3. CASE ~ verdicts[e].auto
    BY <2>2, <2>3 DEF ManualStands
  <2>4. CASE verdicts[e].auto
    <3>1. Untouched(verdicts[e]) /\ e \in Captured(Of(s))
      BY <2>1, <2>4 DEF IInv, CapturesStand, Captured
    <3> QED
      BY <2>1, <2>2, <2>4, <3>1 DEF Untouched, Disposed
  <2> QED
    BY <2>3, <2>4
<1> QED
  BY <1>1, InvariantHolds, PTL

\* The last verdict captured for a scope, when it fails, is got past by hand
\* only by a disposition of it, an update of it, or an update that moves a later
\* capture into the scope.
THEOREM FailsAreSticky == Spec => []FailSticks
<1>1. IInv => FailSticks
  <2> SUFFICES ASSUME IInv, NEW s \in Modes, FailStands(s), MovedInSince(s) = {}
               PROVE  ~ VerdictIn(s)
    BY DEF FailSticks
  <2> DEFINE f == Newest(FiledIn(s))
             g == Newest(Captured(Of(s)))
  <2>1. /\ Len(verdicts) \in Nat /\ DOMAIN verdicts = 1..Len(verdicts)
        /\ FiledIn(s) \in SUBSET (1..Len(verdicts))
        /\ Captured(Of(s)) \in SUBSET (1..Len(verdicts))
    BY LenProperties DEF IInv, Types, Of, Captured, FiledIn
  <2>2. /\ f \in FiledIn(s) /\ \A i \in FiledIn(s) : i <= f
        /\ verdicts[f].captured \in Fail /\ ~ verdicts[f].disposed /\ ~ verdicts[f].edited
    BY <2>1, NewestIsLast DEF FailStands
  <2> HIDE DEF f
  <2>3. f \in Captured(Of(s)) /\ verdicts[f].status \in Fail
    BY <2>1, <2>2 DEF FiledIn, Captured, Of, IInv, CapturesStand, Untouched
  <2>4. g \in Captured(Of(s)) /\ \A i \in Captured(Of(s)) : i <= g
    BY <2>1, <2>3, NewestIsLast
  <2> HIDE DEF g
  <2>5. g = f
    <3>1. f \in Nat /\ g \in Nat /\ f <= g
      BY <2>1, <2>3, <2>4
    <3>2. CASE verdicts[g].filed = s
      <4>1. g \in FiledIn(s)
        BY <2>4, <3>2 DEF FiledIn, Captured, Of
      <4> QED
        BY <2>2, <3>1, <4>1
    <3>3. CASE verdicts[g].filed # s
      <4>1. verdicts[g].edited
        BY <2>1, <2>4, <3>3 DEF Captured, Of, IInv, CapturesStand, Untouched
      <4>2. ~ g > f
        BY <2>4, <3>3, <4>1 DEF MovedInSince, f
      <4> QED
        BY <3>1, <4>2
    <3> QED
      BY <3>2, <3>3
  <2>6. EffectiveVerdict(s) = f
    BY <2>2, <2>3, <2>5, FailCounts DEF g, IInv
  <2> QED
    BY <2>2, <2>3, <2>6 DEF VerdictIn, Pass, Fail
<1> QED
  BY <1>1, InvariantHolds, PTL

\* A reviewer whose count no other hook wrote away is sent back twice in a run
\* for want of a verdict that parses, and no more.
THEOREM BlocksAreBounded == Spec => []BlockedTwice
<1>1. IInv => BlockedTwice
  BY DEF IInv
<1> QED
  BY <1>1, InvariantHolds, PTL

=============================================================================
