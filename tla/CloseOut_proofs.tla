--------------------------- MODULE CloseOut_proofs ---------------------------
(***************************************************************************)
(* Proofs about CloseOut, for every log Verify is entered with, every      *)
(* record, update and gate, and every number of processes and moves: the   *)
(* log is well-formed; an undisturbed trace finds all there is to answer   *)
(* for; and an undisturbed exit of Ship after it leaves nothing open.      *)
(***************************************************************************)
EXTENDS CloseOut, WellFoundedInduction, SequenceTheorems, TLAPS

-----------------------------------------------------------------------------
(* The inductive invariant.                                                *)

IsLog(log) == log \in Seq({log[n] : n \in DOMAIN log})

LogOK == IsLog(evs) /\ \A n \in 1..Len(evs) : WellFormed(evs, n)

IsCommand(j) ==
  \/ j = Idle
  \/ /\ j.at = "trace"
     /\ j = [at |-> "trace", todo |-> j.todo, alone |-> j.alone]
     /\ j.alone \in BOOLEAN
     /\ \A k \in j.todo : \E c \in DOMAIN Classes : k[1] = Classes[c]
  \/ /\ j.at = "exit"
     /\ j = [at |-> "exit", next |-> j.next, forced |-> j.forced, alone |-> j.alone]
     /\ j.alone \in BOOLEAN /\ j.forced \in BOOLEAN /\ j.next \in {"ship", "done"}

JobsOK == job \in [Proc -> {job[p] : p \in Proc}] /\ \A p \in Proc : IsCommand(job[p])

Types ==
  /\ LogOK
  /\ family \in DOMAIN Prior
  /\ phase \in {"verify", "ship", "done"}
  /\ verified \in 0..Len(evs)
  /\ traced \in BOOLEAN
  /\ moves \in Nat
  /\ JobsOK

\* Records are about what they were made for, approvals of the scope about
\* requirements there were.
Lasts ==
  /\ \A n \in 1..Len(evs) : evs[n].of # 0 => DOMAIN evs[n].data \cap Lasting = {}
  /\ \A a \in 1..Len(evs) : Bound(evs, a)

\* What an undisturbed trace has still to do: all there is to answer for and
\* has no finding, and nothing that has one.
Tracing ==
  \A p \in Proc : job[p].at = "trace" /\ job[p].alone =>
    /\ \A k \in Problems : k \in job[p].todo \/ Findings(k) # {}
    /\ \A k \in job[p].todo : Findings(k) = {}

VerdictsOf(ac, upto) == {v \in Created("ac-verdict") : v <= upto /\ evs[v].data.ac = ac}

\* Each criterion there was at some event had a verdict and none that stood
\* as failed.
JudgedAt(upto) ==
  \A r \in Created("requirement") : r <= upto =>
    \A ac \in evs[r].data.acs :
      /\ VerdictsOf(ac, upto) # {}
      /\ \A v \in VerdictsOf(ac, upto) : ~ Stands(evs, v, "status", "fail", upto)

NothingOpen == \A n \in Created("trace-finding") : ~ Now(n, "status", "open")

\* What an undisturbed exit has found.
Leaving ==
  \A p \in Proc : job[p].at = "exit" /\ job[p].alone =>
    /\ phase # "done" /\ job[p].next = After(phase)
    /\ ~ job[p].forced /\ phase = "verify" /\ family \in Built => JudgedAt(Len(evs))
    /\ ~ job[p].forced /\ phase = "ship" => NothingOpen

Answered == traced => \A k \in Problems : Findings(k) # {}

Judged == verified # 0 /\ family \in Built => JudgedAt(verified)

IInv == Types /\ Lasts /\ Tracing /\ Leaving /\ Answered /\ Judged

-----------------------------------------------------------------------------
(* The last of some events.                                                *)

\* A nonempty set of numbers up to a bound has a smallest member.
LEMMA MinIsMember ==
  ASSUME NEW b \in Nat, NEW S \in SUBSET (0..b), S # {}
  PROVE  Min(S) \in S /\ \A y \in S : Min(S) <= y
<1> DEFINE R == {ss \in Nat \X Nat : ss[1] < ss[2]}
<1>1. S \subseteq Nat
  OBVIOUS
<1>2. IsWellFoundedOn(R, Nat)
  BY NatLessThanWellFounded, Zenon DEF OpToRel
<1> HIDE DEF R
<1>3. PICK x \in S : \A y \in S : ~ (<<y, x>> \in R)
  BY <1>1, <1>2, WFMin, Zenon
<1>4. \A y \in S : x <= y
  <2> TAKE y \in S
  <2>1. x \in Nat /\ y \in Nat
    BY <1>1
  <2>2. <<y, x>> \in R <=> y < x
    BY <2>1 DEF R
  <2> QED
    BY <1>3, <2>1, <2>2
<1> QED
  BY <1>4 DEF Min

\* And a largest one.
LEMMA MaxIsMember ==
  ASSUME NEW b \in Nat, NEW S \in SUBSET (0..b), S # {}
  PROVE  Max(S) \in S /\ \A y \in S : y <= Max(S)
<1> DEFINE T == {b - x : x \in S}
<1>1. \A x \in S : x \in 0..b
  OBVIOUS
<1>2. T \in SUBSET (0..b)
  BY <1>1
<1>3. T # {}
  OBVIOUS
<1>4. \A x \in S : b - x \in T
  OBVIOUS
<1>5. \A t \in T : \E x \in S : t = b - x
  OBVIOUS
<1> HIDE DEF T
<1>6. PICK m : m = Min(T)
  OBVIOUS
<1>7. m \in T /\ \A t \in T : m <= t
  BY <1>2, <1>3, <1>6, MinIsMember
<1>8. PICK x \in S : m = b - x
  BY <1>5, <1>7
<1>9. \A y \in S : y <= x
  <2> TAKE y \in S
  <2>1. b - x <= b - y
    BY <1>4, <1>7, <1>8
  <2> QED
    BY <1>1, <2>1
<1>10. \A y \in S : x >= y
  BY <1>1, <1>9
<1>11. PICK z : z = Max(S)
  OBVIOUS
<1>12. z \in S /\ \A y \in S : z >= y
  BY <1>10, <1>11 DEF Max
<1>13. \A y \in S : y <= z
  BY <1>1, <1>12
<1> QED
  BY <1>11, <1>12, <1>13

-----------------------------------------------------------------------------
(* A log and one more event.                                               *)

\* Adding an event changes nothing before it.
LEMMA Extended ==
  ASSUME NEW log, IsLog(log), NEW e
  PROVE  /\ IsLog(Append(log, e))
         /\ Len(log) \in Nat /\ DOMAIN log = 1..Len(log)
         /\ Len(Append(log, e)) = Len(log) + 1
         /\ DOMAIN Append(log, e) = 1..Len(log)+1
         /\ \A n \in 1..Len(log) : Append(log, e)[n] = log[n]
         /\ Append(log, e)[Len(log) + 1] = e
<1> DEFINE S == {log[n] : n \in DOMAIN log} \cup {e}
           l == Append(log, e)
<1>1. Len(log) \in Nat /\ DOMAIN log = 1..Len(log)
  BY LenProperties DEF IsLog
<1>2. log \in Seq(S) /\ e \in S
  <2>1. log \in [1..Len(log) -> S]
    <3>1. log \in [1..Len(log) -> {log[n] : n \in DOMAIN log}]
      BY <1>1, LenProperties DEF IsLog
    <3> QED
      BY <1>1, <3>1
  <2> HIDE DEF S
  <2>2. log \in Seq(S)
    BY <1>1, <2>1
  <2> QED
    BY <2>2 DEF S
<1> HIDE DEF S
<1>3. /\ l \in Seq(S) /\ Len(l) = Len(log) + 1
      /\ \A n \in 1..Len(log) : l[n] = log[n]
      /\ l[Len(log) + 1] = e
  BY <1>1, <1>2
<1>4. DOMAIN l = 1..Len(log)+1
  BY <1>1, <1>3, LenProperties
<1> HIDE DEF l
<1>5. IsLog(l)
  <2> DEFINE T == {l[n] : n \in DOMAIN l}
  <2>1. l = [n \in 1..Len(log)+1 |-> l[n]]
    BY <1>3, <1>4, LenProperties
  <2>2. \A n \in 1..Len(log)+1 : l[n] \in T
    BY <1>4
  <2> HIDE DEF T
  <2>3. l \in [1..Len(log)+1 -> T]
    BY <2>1, <2>2
  <2>4. l \in Seq(T)
    BY <1>1, <2>3
  <2> QED
    BY <2>4 DEF IsLog, T
<1> QED
  BY <1>1, <1>3, <1>4, <1>5 DEF l

\* What stood at some event stands there still.
LEMMA StandsThere ==
  ASSUME NEW log, IsLog(log), NEW e, NEW r \in 1..Len(log), NEW f, NEW v,
         NEW u \in 0..Len(log)
  PROVE  Stands(Append(log, e), r, f, v, u) <=> Stands(log, r, f, v, u)
<1> DEFINE l == Append(log, e)
<1>1. Len(log) \in Nat
  BY Extended
<1>2. \A n \in r..u : n \in 1..Len(log)
  BY <1>1
<1>3. \A n \in r..u : l[n] = log[n]
  BY <1>2, Extended
<1>4. \A n \in r..u : \A m \in n+1..u : m \in r..u
  BY <1>1
<1> HIDE DEF l
<1>5. \A n \in r..u : \A m \in n+1..u : l[m] = log[m]
  BY <1>3, <1>4
<1>6. Stands(l, r, f, v, u) <=> Stands(log, r, f, v, u)
  BY <1>3, <1>5 DEF Stands
<1> QED
  BY <1>6 DEF l

\* What is said of other records changes nothing of one.
LEMMA StandsOn ==
  ASSUME NEW log, IsLog(log), NEW e, NEW r \in 1..Len(log), NEW f, NEW v, e.of # r
  PROVE  Stands(Append(log, e), r, f, v, Len(log) + 1) <=> Stands(log, r, f, v, Len(log))
<1> DEFINE l == Append(log, e)
           N == Len(log)
<1>1. N \in Nat /\ l[N + 1] = e /\ \A n \in 1..N : l[n] = log[n]
  BY Extended
<1>2. r \in 1..N
  OBVIOUS
<1> HIDE DEF l, N
<1>3. ASSUME Stands(l, r, f, v, N + 1)
      PROVE  Stands(log, r, f, v, N)
  <2>1. PICK n \in r..N+1 :
          /\ n = r \/ l[n].of = r
          /\ f \in DOMAIN l[n].data /\ l[n].data[f] = v
          /\ \A m \in n+1..N+1 : l[m].of = r => f \notin DOMAIN l[m].data
    BY <1>3 DEF Stands
  <2>2. n \in r..N
    <3>1. n # N + 1
      <4> SUFFICES ASSUME n = N + 1
                   PROVE  FALSE
        OBVIOUS
      <4>1. n # r
        BY <1>1, <1>2
      <4>2. l[n].of = e.of
        BY <1>1
      <4> QED
        BY <2>1, <4>1, <4>2
    <3> QED
      BY <1>1, <1>2, <2>1, <3>1
  <2>3. l[n] = log[n] /\ \A m \in n+1..N : l[m] = log[m] /\ m \in n+1..N+1
    BY <1>1, <1>2, <2>2
  <2> QED
    BY <2>1, <2>2, <2>3 DEF Stands
<1>4. ASSUME Stands(log, r, f, v, N)
      PROVE  Stands(l, r, f, v, N + 1)
  <2>1. PICK n \in r..N :
          /\ n = r \/ log[n].of = r
          /\ f \in DOMAIN log[n].data /\ log[n].data[f] = v
          /\ \A m \in n+1..N : log[m].of = r => f \notin DOMAIN log[m].data
    BY <1>4 DEF Stands
  <2>2. l[n] = log[n] /\ n \in r..N+1
    BY <1>1, <1>2, <2>1
  <2>3. \A m \in n+1..N+1 : l[m].of = r => f \notin DOMAIN l[m].data
    <3> TAKE m \in n+1..N+1
    <3>1. m \in n+1..N \/ m = N + 1
      BY <1>1, <1>2, <2>1
    <3>2. m \in n+1..N => l[m] = log[m]
      BY <1>1, <1>2, <2>1
    <3> QED
      BY <1>1, <2>1, <3>1, <3>2
  <2> QED
    BY <2>1, <2>2, <2>3 DEF Stands
<1> QED
  BY <1>3, <1>4 DEF l, N

-----------------------------------------------------------------------------
(* Fields.                                                                 *)

\* Where the log is, in the forms the proofs need.
LEMMA LogIs ==
  ASSUME LogOK
  PROVE  /\ IsLog(evs) /\ Len(evs) \in Nat /\ DOMAIN evs = 1..Len(evs)
         /\ \A n \in 1..Len(evs) :
              /\ evs[n].of \in Nat /\ evs[n].of < n
              /\ evs[n].of # 0 => evs[n].of \in 1..Len(evs)
<1>1. IsLog(evs) /\ Len(evs) \in Nat /\ DOMAIN evs = 1..Len(evs)
  BY Extended DEF LogOK
<1>2. \A n \in 1..Len(evs) : evs[n].of \in 0..n-1
  BY DEF LogOK, WellFormed
<1> QED
  BY <1>1, <1>2

\* The fold of the updates gives a field the value that stands.
LEMMA FieldStands ==
  ASSUME LogOK, NEW r \in 1..Len(evs), evs[r].of = 0, NEW f
  PROVE  /\ \A v : Now(r, f, v) => Has(r, f) /\ Field(r, f) = v
         /\ Has(r, f) => Now(r, f, Field(r, f))
<1> DEFINE N == Len(evs)
           S == Sayings(r, f)
<1>1. /\ N \in Nat /\ DOMAIN evs = 1..N
      /\ \A n \in 1..N : evs[n].of \in Nat /\ evs[n].of < n
  BY LogIs
<1>2. \A n : n \in S <=> /\ n \in 1..N /\ f \in DOMAIN evs[n].data
                         /\ n = r \/ evs[n].of = r
  BY <1>1 DEF Sayings, Says
<1>3. \A n \in S : n \in r..N
  BY <1>1, <1>2
<1>4. S \in SUBSET (0..N)
  BY <1>1, <1>2
<1>5. Has(r, f) <=> S # {}
  BY DEF Has
<1> HIDE DEF S
<1>6. PICK M : M = Max(S)
  OBVIOUS
<1>7. S # {} => M \in S /\ \A y \in S : y <= M
  BY <1>1, <1>4, <1>6, MaxIsMember
<1>8. Field(r, f) = evs[M].data[f]
  BY <1>6 DEF Field, S
<1>9. ASSUME NEW v, Now(r, f, v)
      PROVE  Has(r, f) /\ Field(r, f) = v
  <2>1. PICK n \in r..N :
          /\ n = r \/ evs[n].of = r
          /\ f \in DOMAIN evs[n].data /\ evs[n].data[f] = v
          /\ \A m \in n+1..N : evs[m].of = r => f \notin DOMAIN evs[m].data
    BY <1>9 DEF Now, Stands
  <2>2. n \in S
    BY <1>1, <1>2, <2>1
  <2>3. M \in S /\ n <= M
    BY <1>7, <2>2
  <2>4. M = n
    <3>1. M \in r..N /\ n \in r..N
      BY <1>3, <2>1, <2>3
    <3>2. CASE n < M
      <4>1. M # r /\ M \in n+1..N
        BY <1>1, <2>1, <3>1, <3>2
      <4> QED
        BY <1>2, <2>1, <2>3, <4>1
    <3> QED
      BY <1>1, <2>3, <3>1, <3>2
  <2> QED
    BY <1>5, <1>8, <2>1, <2>2, <2>4
<1>10. ASSUME Has(r, f)
       PROVE  Now(r, f, Field(r, f))
  <2>1. M \in S /\ M \in r..N
    BY <1>3, <1>5, <1>7, <1>10
  <2>2. \A m \in M+1..N : evs[m].of = r => f \notin DOMAIN evs[m].data
    <3> SUFFICES ASSUME NEW m \in M+1..N, evs[m].of = r, f \in DOMAIN evs[m].data
                 PROVE  FALSE
      OBVIOUS
    <3>1. m \in 1..N
      BY <1>1, <2>1
    <3>2. m \in S
      BY <1>2, <3>1
    <3> QED
      BY <1>1, <1>7, <2>1, <3>2
  <2>3. PICK v : v = Field(r, f)
    OBVIOUS
  <2>4. Now(r, f, v)
    BY <1>2, <1>8, <2>1, <2>2, <2>3 DEF Now, Stands
  <2> QED
    BY <2>3, <2>4
<1> QED
  BY <1>9, <1>10

\* What a record is about reads as it was made.
LEMMA LastingField ==
  ASSUME LogOK, Lasts, NEW r \in 1..Len(evs), evs[r].of = 0,
         NEW f \in Lasting, f \in DOMAIN evs[r].data
  PROVE  Has(r, f) /\ Field(r, f) = evs[r].data[f] /\ Str(r, f) = evs[r].data[f]
<1>1. /\ Len(evs) \in Nat /\ DOMAIN evs = 1..Len(evs)
      /\ \A n \in 1..Len(evs) : evs[n].of \in Nat /\ evs[n].of < n
  BY LogIs
<1>2. \A n \in 1..Len(evs) : evs[n].of = r => f \notin DOMAIN evs[n].data
  BY <1>1 DEF Lasts
<1>3. PICK v : v = evs[r].data[f]
  OBVIOUS
<1>4. r \in r..Len(evs) /\ \A m \in r+1..Len(evs) : m \in 1..Len(evs)
  BY <1>1
<1>5. Now(r, f, v)
  BY <1>2, <1>3, <1>4 DEF Now, Stands
<1> QED
  BY <1>3, <1>5, FieldStands DEF Str

\* Where no field stands with a value, it does not read so.
LEMMA StrStands ==
  ASSUME LogOK, NEW r \in 1..Len(evs), evs[r].of = 0, NEW f, NEW v, v # ""
  PROVE  Str(r, f) = v <=> Now(r, f, v)
  BY FieldStands DEF Str

-----------------------------------------------------------------------------
(* What one more event leaves as it is.                                    *)

\* The log with a well-formed event behind it.
LEMMA LogGrows ==
  ASSUME LogOK, NEW e, evs' = Append(evs, e), WellFormed(Append(evs, e), Len(evs) + 1)
  PROVE  /\ LogOK'
         /\ Len(evs') = Len(evs) + 1 /\ DOMAIN evs' = 1..Len(evs)+1
         /\ \A n \in 1..Len(evs) : evs'[n] = evs[n]
         /\ evs'[Len(evs) + 1] = e
<1> DEFINE N == Len(evs)
<1>1. /\ IsLog(evs') /\ N \in Nat /\ Len(evs') = N + 1 /\ DOMAIN evs' = 1..N+1
      /\ \A n \in 1..N : evs'[n] = evs[n]
      /\ evs'[N + 1] = e
  BY LogIs, Extended
<1>2. \A n \in 1..N : evs[n].of # 0 => evs[n].of \in 1..N
  BY LogIs
<1> HIDE DEF N
<1>3. \A n \in 1..N : WellFormed(evs', n)
  <2> TAKE n \in 1..N
  <2>1. WellFormed(evs, n)
    BY DEF LogOK, N
  <2>2. evs'[n] = evs[n] /\ (evs[n].of # 0 => evs'[evs[n].of] = evs[evs[n].of])
    BY <1>1, <1>2
  <2> QED
    BY <2>1, <2>2 DEF WellFormed
<1>4. \A n \in 1..N+1 : WellFormed(evs', n)
  <2> TAKE n \in 1..N+1
  <2>1. n \in 1..N \/ n = N + 1
    BY <1>1
  <2> QED
    BY <1>3, <2>1 DEF N
<1> QED
  BY <1>1, <1>4 DEF LogOK, N

\* Agreed or not, an approval's requirements stay as they were at the time.
LEMMA AgreedThere ==
  ASSUME NEW log, IsLog(log), NEW e, NEW a \in 1..Len(log), NEW x
  PROVE  Agreed(Append(log, e), x, a) <=> Agreed(log, x, a)
<1> DEFINE l == Append(log, e)
<1>1. Len(log) \in Nat /\ \A n \in 1..Len(log) : l[n] = log[n]
  BY Extended
<1>2. \A r \in 1..a-1 : r \in 1..Len(log) /\ l[r] = log[r]
  BY <1>1
<1>3. \A r \in 1..a-1 :
        Stands(l, r, "status", "dropped", a) <=> Stands(log, r, "status", "dropped", a)
  <2>1. a \in 0..Len(log)
    BY <1>1
  <2> QED
    BY <1>2, <2>1, StandsThere
<1> HIDE DEF l
<1>4. Agreed(l, x, a) <=> Agreed(log, x, a)
  BY <1>2, <1>3 DEF Agreed
<1> QED
  BY <1>4 DEF l

\* So records go on being about what they were made for.
LEMMA LastsOn ==
  ASSUME LogOK, Lasts, NEW e, evs' = Append(evs, e),
         WellFormed(Append(evs, e), Len(evs) + 1),
         e.of # 0 => DOMAIN e.data \cap Lasting = {},
         Bound(Append(evs, e), Len(evs) + 1)
  PROVE  Lasts'
<1> DEFINE N == Len(evs)
<1>1. /\ N \in Nat /\ IsLog(evs)
      /\ Len(evs') = N + 1
      /\ \A n \in 1..N : evs'[n] = evs[n]
      /\ evs'[N + 1] = e
  BY LogGrows, LogIs
<1>2. \A n \in 1..N+1 : n \in 1..N \/ n = N + 1
  BY <1>1
<1>3. \A n \in 1..N+1 : evs'[n].of # 0 => DOMAIN evs'[n].data \cap Lasting = {}
  BY <1>1, <1>2 DEF Lasts
<1>4. \A a \in 1..N : Bound(evs', a)
  <2> TAKE a \in 1..N
  <2>1. Bound(evs, a) /\ evs'[a] = evs[a]
    BY <1>1 DEF Lasts
  <2>2. \A x : Agreed(evs', x, a) <=> Agreed(evs, x, a)
    BY <1>1, AgreedThere
  <2> QED
    BY <2>1, <2>2 DEF Bound
<1>5. \A a \in 1..N+1 : Bound(evs', a)
  BY <1>2, <1>4
<1> QED
  BY <1>1, <1>3, <1>5 DEF Lasts

\* The records there are.
LEMMA CreatedOn ==
  ASSUME LogOK, NEW e, evs' = Append(evs, e), WellFormed(Append(evs, e), Len(evs) + 1)
  PROVE  \A kind, n : n \in Created(kind)' <=>
           \/ n \in Created(kind)
           \/ n = Len(evs) + 1 /\ e.kind = kind /\ e.of = 0
<1> DEFINE N == Len(evs)
<1>1. /\ N \in Nat /\ DOMAIN evs = 1..N /\ DOMAIN evs' = 1..N+1
      /\ \A n \in 1..N : evs'[n] = evs[n]
      /\ evs'[N + 1] = e
  BY LogGrows, LogIs
<1> HIDE DEF N
<1>2. \A n : n \in 1..N+1 <=> n \in 1..N \/ n = N + 1
  BY <1>1
<1>3. ~ (N + 1 \in 1..N)
  BY <1>1
<1> TAKE kind, n
<1>4. n \in Created(kind)' <=> n \in 1..N+1 /\ evs'[n].kind = kind /\ evs'[n].of = 0
  BY <1>1 DEF Created
<1>5. n \in Created(kind) <=> n \in 1..N /\ evs[n].kind = kind /\ evs[n].of = 0
  BY <1>1 DEF Created
<1>6. CASE n \in 1..N
  BY <1>1, <1>2, <1>3, <1>4, <1>5, <1>6 DEF N
<1>7. CASE n = N + 1
  BY <1>1, <1>2, <1>3, <1>4, <1>5, <1>7 DEF N
<1> QED
  BY <1>2, <1>4, <1>5, <1>6, <1>7 DEF N

\* No finding goes away, and none is added but for the key of the event.
LEMMA FindingsOn ==
  ASSUME LogOK, NEW e, evs' = Append(evs, e), WellFormed(Append(evs, e), Len(evs) + 1)
  PROVE  /\ \A k : Findings(k) # {} => Findings(k)' # {}
         /\ \A k : ~ (e.kind = "trace-finding" /\ e.of = 0 /\ e.data.key = k) =>
              Findings(k)' = Findings(k)
         /\ e.kind = "trace-finding" /\ e.of = 0 => Findings(e.data.key)' # {}
<1> DEFINE N == Len(evs)
<1>1. /\ N \in Nat /\ DOMAIN evs = 1..N
      /\ \A n \in 1..N : evs'[n] = evs[n]
      /\ evs'[N + 1] = e
  BY LogGrows, LogIs
<1>2. \A n : n \in Created("trace-finding")' <=>
        \/ n \in Created("trace-finding")
        \/ n = N + 1 /\ e.kind = "trace-finding" /\ e.of = 0
  BY CreatedOn
<1>3. \A n \in Created("trace-finding") : n \in 1..N /\ evs'[n] = evs[n]
  BY <1>1 DEF Created
<1> HIDE DEF N
<1>4. \A k, n : n \in Findings(k)' <=>
        \/ n \in Findings(k)
        \/ n = N + 1 /\ e.kind = "trace-finding" /\ e.of = 0 /\ e.data.key = k
  <2> TAKE k, n
  <2>1. n \in Findings(k)' <=> n \in Created("trace-finding")' /\ evs'[n].data.key = k
    BY DEF Findings
  <2>2. n \in Findings(k) <=> n \in Created("trace-finding") /\ evs[n].data.key = k
    BY DEF Findings
  <2> QED
    BY <1>1, <1>2, <1>3, <2>1, <2>2
<1>5. \A k : Findings(k) # {} => Findings(k)' # {}
  BY <1>4
<1>6. \A k : ~ (e.kind = "trace-finding" /\ e.of = 0 /\ e.data.key = k) =>
        Findings(k)' = Findings(k)
  <2> SUFFICES ASSUME NEW k, ~ (e.kind = "trace-finding" /\ e.of = 0 /\ e.data.key = k)
               PROVE  Findings(k)' = Findings(k)
    OBVIOUS
  <2>1. \A n : n \in Findings(k)' <=> n \in Findings(k)
    BY <1>4
  <2> QED
    BY <2>1
<1>7. ASSUME e.kind = "trace-finding", e.of = 0
      PROVE  Findings(e.data.key)' # {}
  <2>1. PICK k : k = e.data.key
    OBVIOUS
  <2>2. N + 1 \in Findings(k)'
    BY <1>4, <1>7, <2>1
  <2> QED
    BY <2>1, <2>2
<1> QED
  BY <1>5, <1>6, <1>7

\* Neither a finding nor the answer to one is something to answer for.
LEMMA ProblemsStay ==
  ASSUME LogOK, NEW e, evs' = Append(evs, e), WellFormed(Append(evs, e), Len(evs) + 1),
         e.kind = "trace-finding"
  PROVE  Problems' = Problems
<1> DEFINE N == Len(evs)
<1>1. /\ N \in Nat /\ DOMAIN evs = 1..N /\ DOMAIN evs' = 1..N+1 /\ IsLog(evs)
      /\ Len(evs') = N + 1
      /\ \A n \in 1..N : evs'[n] = evs[n]
      /\ evs'[N + 1] = e
  BY LogGrows, LogIs
<1>2. \A kind : kind # "trace-finding" => Created(kind)' = Created(kind)
  BY CreatedOn
<1>3. \A kind, r : r \in Created(kind) => r \in 1..N /\ evs'[r] = evs[r] /\ evs[r].kind = kind
  BY <1>1 DEF Created
<1>4. e.of # 0 => e.of \in 1..N /\ evs[e.of].kind = "trace-finding"
  <2>1. /\ Append(evs, e)[N + 1] = e
        /\ \A n \in 1..N : Append(evs, e)[n] = evs[n]
    BY <1>1
  <2>2. /\ e.of \in 0..N+1-1
        /\ e.of # 0 => Append(evs, e)[e.of].kind = e.kind
    BY <2>1 DEF WellFormed
  <2> QED
    BY <1>1, <2>1, <2>2
<1>5. \A kind, r, f, v : r \in Created(kind) /\ kind # "trace-finding" =>
        (Now(r, f, v)' <=> Now(r, f, v))
  <2> SUFFICES ASSUME NEW kind, NEW r, NEW f, NEW v, r \in Created(kind), kind # "trace-finding"
               PROVE  Now(r, f, v)' <=> Now(r, f, v)
    OBVIOUS
  <2>1. r \in 1..N /\ e.of # r
    BY <1>1, <1>3, <1>4
  <2>2. Stands(Append(evs, e), r, f, v, N + 1) <=> Stands(evs, r, f, v, N)
    BY <1>1, <2>1, StandsOn
  <2> QED
    BY <1>1, <2>2 DEF Now
<1> HIDE DEF N
<1> DEFINE Ph == {m \in DOMAIN evs : evs[m].kind = "phase" /\ evs[m].data.action = "force"}
           Dr == {q \in Created("requirement") : Drifted(q)}
           Sc == {d \in Created("edit") : \E b \in Created("scope-boundary") :
                    evs[d].data.path \in evs[b].data.out_of_scope}
           As == {q \in Created("assumption") : /\ Now(q, "high_risk", TRUE)
                                                /\ Now(q, "status", "invalidated")}
<1>6. {q \in Created("followup") : Now(q, "status", "open")}' =
      {q \in Created("followup") : Now(q, "status", "open")}
  BY <1>2, <1>5
<1>7. {q \in Created("deviation") : Now(q, "status", "pending")}' =
      {q \in Created("deviation") : Now(q, "status", "pending")}
  BY <1>2, <1>5
<1>8. Ph' = Ph
  <2>1. \A m : m \in Ph' <=> m \in Ph
    <3> TAKE m
    <3>1. m \in 1..N+1 <=> m \in 1..N \/ m = N + 1
      BY <1>1
    <3> QED
      BY <1>1, <3>1
  <2> QED
    BY <2>1
<1>9. As' = As
  BY <1>2, <1>5
<1>10. Sc' = Sc
  <2>1. /\ Created("edit")' = Created("edit")
        /\ Created("scope-boundary")' = Created("scope-boundary")
    BY <1>2
  <2>2. \A d \in Created("edit") : evs'[d] = evs[d]
    BY <1>3
  <2>3. \A b \in Created("scope-boundary") : evs'[b] = evs[b]
    BY <1>3
  <2>4. \A d \in Created("edit") :
          (\E b \in Created("scope-boundary") : evs'[d].data.path \in evs'[b].data.out_of_scope)
          <=> (\E b \in Created("scope-boundary") : evs[d].data.path \in evs[b].data.out_of_scope)
    BY <2>2, <2>3
  <2> QED
    BY <2>1, <2>4
<1>11. Baselines' = Baselines
  <2>1. Created("approval")' = Created("approval")
    BY <1>2
  <2>2. \A a \in Created("approval") : evs'[a] = evs[a]
    BY <1>3
  <2> QED
    BY <2>1, <2>2 DEF Baselines
<1>12. \A q \in Created("requirement") : Drifted(q)' <=> Drifted(q)
  <2> TAKE q \in Created("requirement")
  <2>1. q \in 1..N /\ evs'[q] = evs[q]
    BY <1>3
  <2>2. Now(q, "status", "dropped")' <=> Now(q, "status", "dropped")
    BY <1>5
  <2>3. Baselines \in SUBSET (0..N)
    BY <1>1 DEF Baselines, Created
  <2>4. PICK a : a = Max(Baselines)
    OBVIOUS
  <2>5. Baselines # {} => a \in 1..N
    <3>1. Baselines # {} => a \in Baselines
      BY <1>1, <2>3, <2>4, MaxIsMember
    <3> QED
      BY <1>1, <3>1 DEF Baselines, Created
  <2>6. PICK x : x = evs[q].data.rid
    OBVIOUS
  <2>7. Baselines # {} => (Agreed(evs', x, a) <=> Agreed(evs, x, a))
    BY <1>1, <2>5, AgreedThere DEF N
  <2>8. Drifted(q) <=> /\ Baselines # {} /\ ~ Now(q, "status", "dropped")
                       /\ ~ Agreed(evs, x, a)
    BY <2>4, <2>6 DEF Drifted
  <2>9. Drifted(q)' <=> /\ Baselines # {} /\ ~ Now(q, "status", "dropped")'
                        /\ ~ Agreed(evs', x, a)
    BY <1>11, <2>1, <2>4, <2>6 DEF Drifted
  <2> QED
    BY <2>2, <2>7, <2>8, <2>9
<1>13. Dr' = Dr
  BY <1>2, <1>12
<1>14. \A r \in Dr : evs'[r] = evs[r]
  BY <1>3
<1>15. {<<"drift", <<"scope", <<"req", evs'[r].data.rid>>>>>> : r \in Dr} =
       {<<"drift", <<"scope", <<"req", evs[r].data.rid>>>>>> : r \in Dr}
  BY <1>14
<1> DEFINE P(fo, de, ph, dr, sc, as) ==
             {<<"followup", r>> : r \in fo} \cup {<<"deviation", r>> : r \in de}
             \cup {<<"force", n>> : n \in ph} \cup dr
             \cup {<<"scope", d>> : d \in sc} \cup {<<"assumption-invalidated", r>> : r \in as}
<1>16. Problems = P({q \in Created("followup") : Now(q, "status", "open")},
                    {q \in Created("deviation") : Now(q, "status", "pending")}, Ph,
                    {<<"drift", <<"scope", <<"req", evs[r].data.rid>>>>>> : r \in Dr}, Sc, As)
  BY DEF Problems
<1>17. Problems' = P({q \in Created("followup") : Now(q, "status", "open")}',
                     {q \in Created("deviation") : Now(q, "status", "pending")}', Ph',
                     {<<"drift", <<"scope", <<"req", evs'[r].data.rid>>>>>> : r \in Dr'}, Sc', As')
  BY DEF Problems
<1> HIDE DEF P, Ph, Dr, Sc, As
<1> QED
  BY <1>6, <1>7, <1>8, <1>9, <1>10, <1>13, <1>15, <1>16, <1>17

-----------------------------------------------------------------------------
(* What the trace looks for.                                               *)

\* The records of a kind, but for the engine's own events.
LEMMA RecordsAre ==
  ASSUME LogOK, NEW kind, kind # "phase"
  PROVE  /\ Records(kind) = Created(kind)
         /\ \A r \in Created(kind) :
              /\ r \in 1..Len(evs) /\ evs[r].of = 0 /\ evs[r].kind = kind
              /\ Required(kind) \subseteq DOMAIN evs[r].data
<1>1. \A r \in Created(kind) : r \in 1..Len(evs) /\ evs[r].of = 0 /\ evs[r].kind = kind
  BY LogIs DEF Created
<1>2. \A r \in Created(kind) : Required(kind) \subseteq DOMAIN evs[r].data
  BY <1>1 DEF LogOK, WellFormed
<1> QED
  BY <1>1, <1>2 DEF Records, Created

\* A record whose status stands so matches the filter that asks for it.
LEMMA StatusMatches ==
  ASSUME LogOK, NEW kind, kind # "phase", NEW r \in Created(kind), NEW v, Now(r, "status", v)
  PROVE  r \in MatchRecords(kind, [status |-> {v}])
<1>1. r \in Records(kind) /\ r \in 1..Len(evs) /\ evs[r].of = 0
  BY RecordsAre
<1>2. Has(r, "status") /\ Field(r, "status") = v
  BY <1>1, FieldStands
<1>3. Matches(r, [status |-> {v}])
  BY <1>2 DEF Matches
<1> QED
  BY <1>1, <1>3 DEF MatchRecords

\* The approvals the drift of the scope is judged by.
LEMMA BindingIs ==
  ASSUME LogOK, Lasts
  PROVE  /\ Binding("scope") = Baselines
         /\ \A a \in Baselines : Field(a, "approved_refs") = evs[a].data.approved_refs
<1>1. \A a \in Created("approval") :
        /\ a \in Records("approval") /\ a \in 1..Len(evs) /\ evs[a].of = 0
        /\ "gate" \in DOMAIN evs[a].data
  BY RecordsAre DEF Required
<1>2. \A a \in Created("approval") : Str(a, "gate") = evs[a].data.gate
  BY <1>1, LastingField DEF Lasting
<1>3. \A a \in Created("approval") : "approved_refs" \in DOMAIN evs[a].data =>
        Has(a, "approved_refs") /\ Field(a, "approved_refs") = evs[a].data.approved_refs
  BY <1>1, LastingField DEF Lasting
<1>4. \A a \in Created("approval") : Has(a, "approved_refs") =>
        "approved_refs" \in DOMAIN evs[a].data
  <2> SUFFICES ASSUME NEW a \in Created("approval"), Has(a, "approved_refs")
               PROVE  "approved_refs" \in DOMAIN evs[a].data
    OBVIOUS
  <2>1. PICK n \in DOMAIN evs : Says(n, a) /\ "approved_refs" \in DOMAIN evs[n].data
    BY DEF Has, Sayings
  <2>2. n \in 1..Len(evs) /\ a # 0
    BY <1>1, LogIs
  <2>3. evs[n].of # a
    BY <2>1, <2>2 DEF Lasts, Lasting
  <2> QED
    BY <2>1, <2>3 DEF Says
<1>5. Records("approval") = Created("approval")
  BY RecordsAre
<1>6. \A a : a \in Binding("scope") <=> a \in Baselines
  BY <1>2, <1>3, <1>4, <1>5 DEF Binding, Baselines
<1> QED
  BY <1>3, <1>6 DEF Baselines

\* A requirement that has drifted, in words of the property, is drift to the
\* trace.
LEMMA DriftWanted ==
  ASSUME LogOK, Lasts, NEW q \in Created("requirement"), Drifted(q)
  PROVE  <<"drift", <<"scope", <<"req", evs[q].data.rid>>>>>> \in Drift
<1>1. PICK x : x = evs[q].data.rid
  OBVIOUS
<1>2. PICK a : a = Max(Baselines)
  OBVIOUS
<1>3. Baselines # {} /\ ~ Now(q, "status", "dropped") /\ ~ Agreed(evs, x, a)
  BY <1>1, <1>2 DEF Drifted
<1>4. a \in Baselines
  <2>1. Baselines \in SUBSET (0..Len(evs)) /\ Len(evs) \in Nat
    BY LogIs DEF Baselines, Created
  <2> QED
    BY <1>2, <1>3, <2>1, MaxIsMember
<1>5. /\ a \in 1..Len(evs) /\ evs[a].kind = "approval" /\ evs[a].of = 0
      /\ evs[a].data.gate = "scope" /\ "approved_refs" \in DOMAIN evs[a].data
  BY <1>4, LogIs DEF Baselines, Created
<1>6. <<"req", x>> \notin evs[a].data.approved_refs
  <2> SUFFICES ASSUME <<"req", x>> \in evs[a].data.approved_refs
               PROVE  FALSE
    OBVIOUS
  <2>1. \A ref \in evs[a].data.approved_refs : ref[1] = "req" => Agreed(evs, ref[2], a)
    BY <1>5 DEF Lasts, Bound
  <2>2. <<"req", x>>[1] = "req" /\ <<"req", x>>[2] = x
    OBVIOUS
  <2> QED
    BY <1>3, <2>1, <2>2
<1>7. Binding("scope") # {} /\ LatestApprovedRefs("scope") = evs[a].data.approved_refs
  BY <1>2, <1>3, <1>4, BindingIs DEF LatestApprovedRefs
<1>8. /\ q \in Records("requirement") /\ q \in 1..Len(evs) /\ evs[q].of = 0
      /\ "rid" \in DOMAIN evs[q].data
  BY RecordsAre DEF Required
<1>9. Str(q, "rid") = x /\ Str(q, "status") # "dropped"
  BY <1>1, <1>3, <1>8, LastingField, StrStands DEF Lasting
<1>10. <<"req", x>> \in ApprovalRefs("scope")
  <2>1. <<"req", x>> \in {<<"req", Str(r, "rid")>> :
           r \in {p \in Records("requirement") : Str(p, "status") # "dropped"}}
    BY <1>8, <1>9
  <2> QED
    BY <2>1 DEF ApprovalRefs
<1>11. <<"req", x>> \in ApprovalRefs("scope") \ LatestApprovedRefs("scope")
  BY <1>6, <1>7, <1>10
<1> DEFINE G == {g \in {"scope", "design", "plan"} : Binding(g) # {}}
           Of(gate) == {<<"drift", <<gate, ref>>>> :
                          ref \in ApprovalRefs(gate) \ LatestApprovedRefs(gate)}
<1>12. "scope" \in G
  BY <1>7
<1>13. <<"drift", <<"scope", <<"req", x>>>>>> \in Of("scope")
  BY <1>11
<1>14. Drift = UNION {Of(gate) : gate \in G}
  BY DEF Drift
<1> HIDE DEF G, Of
<1> QED
  BY <1>1, <1>12, <1>13, <1>14

\* The trace looks for all there is to answer for.
LEMMA Wanted ==
  ASSUME LogOK, Lasts
  PROVE  \A k \in Problems : k \in Wants
<1>1. \A r \in Created("followup") : Now(r, "status", "open") =>
        r \in MatchRecords("followup", [status |-> {"open"}])
  BY StatusMatches
<1>2. \A r \in Created("deviation") : Now(r, "status", "pending") =>
        r \in MatchRecords("deviation", [status |-> {"pending"}])
  BY StatusMatches
<1>3. \A n \in DOMAIN evs : evs[n].kind = "phase" /\ evs[n].data.action = "force" =>
        n \in ForcedExits(Phases)
  <2> TAKE n \in DOMAIN evs
  <2>1. WellFormed(evs, n)
    BY LogIs DEF LogOK
  <2> QED
    BY <2>1 DEF WellFormed, ForcedExits
<1>4. \A d \in Created("edit") : \A b \in Created("scope-boundary") :
        evs[d].data.path \in evs[b].data.out_of_scope => d \in OutOfScope
  <2> TAKE d \in Created("edit")
  <2> TAKE b \in Created("scope-boundary")
  <2>1. /\ d \in Records("edit") /\ d \in 1..Len(evs) /\ evs[d].of = 0
        /\ "path" \in DOMAIN evs[d].data
    BY RecordsAre DEF Required
  <2>2. /\ b \in Records("scope-boundary") /\ b \in 1..Len(evs) /\ evs[b].of = 0
        /\ "out_of_scope" \in DOMAIN evs[b].data
    BY RecordsAre DEF Required
  <2>3. /\ Str(d, "path") = evs[d].data.path
        /\ Field(b, "out_of_scope") = evs[b].data.out_of_scope
    BY <2>1, <2>2, LastingField DEF Lasting
  <2> QED
    BY <2>1, <2>2, <2>3 DEF OutOfScope
<1>5. \A r \in Created("assumption") :
        Now(r, "high_risk", TRUE) /\ Now(r, "status", "invalidated") =>
        r \in MatchRecords("assumption", [high_risk |-> {TRUE}, status |-> {"invalidated"}])
  <2> SUFFICES ASSUME NEW r \in Created("assumption"),
                      Now(r, "high_risk", TRUE), Now(r, "status", "invalidated")
               PROVE  r \in MatchRecords("assumption",
                              [high_risk |-> {TRUE}, status |-> {"invalidated"}])
    OBVIOUS
  <2>1. r \in Records("assumption") /\ r \in 1..Len(evs) /\ evs[r].of = 0
    BY RecordsAre
  <2>2. PICK t : t = TRUE
    OBVIOUS
  <2>3. /\ Has(r, "high_risk") /\ Field(r, "high_risk") \in {t}
        /\ Has(r, "status") /\ Field(r, "status") \in {"invalidated"}
    BY <2>1, <2>2, FieldStands
  <2>4. Matches(r, [high_risk |-> {t}, status |-> {"invalidated"}])
    BY <2>3 DEF Matches
  <2> QED
    BY <2>1, <2>2, <2>4 DEF MatchRecords
<1>6. \A q \in Created("requirement") : Drifted(q) =>
        <<"drift", <<"scope", <<"req", evs[q].data.rid>>>>>> \in Drift
  BY DriftWanted
<1> TAKE k \in Problems
<1>7. CASE k \in {<<"followup", r>> : r \in {q \in Created("followup") : Now(q, "status", "open")}}
  BY <1>1, <1>7 DEF Wants
<1>8. CASE k \in {<<"deviation", r>> : r \in {q \in Created("deviation") : Now(q, "status", "pending")}}
  BY <1>2, <1>8 DEF Wants
<1>9. CASE k \in {<<"force", n>> : n \in {m \in DOMAIN evs : /\ evs[m].kind = "phase"
                                                  /\ evs[m].data.action = "force"}}
  BY <1>3, <1>9 DEF Wants
<1>10. CASE k \in {<<"drift", <<"scope", <<"req", evs[r].data.rid>>>>>> :
                    r \in {q \in Created("requirement") : Drifted(q)}}
  BY <1>6, <1>10 DEF Wants
<1>11. CASE k \in {<<"scope", e>> :
                    e \in {d \in Created("edit") : \E b \in Created("scope-boundary") :
                             evs[d].data.path \in evs[b].data.out_of_scope}}
  BY <1>4, <1>11 DEF Wants
<1>12. CASE k \in {<<"assumption-invalidated", r>> :
                    r \in {q \in Created("assumption") : /\ Now(q, "high_risk", TRUE)
                                               /\ Now(q, "status", "invalidated")}}
  BY <1>5, <1>12 DEF Wants
<1> QED
  BY <1>7, <1>8, <1>9, <1>10, <1>11, <1>12 DEF Problems

\* The trace knows the findings there are.
LEMMA FindingKeys ==
  ASSUME LogOK, Lasts
  PROVE  \A k : Findings(k) # {} <=> k \in ExistingKeys
<1>1. \A n \in Created("trace-finding") :
        /\ n \in Records("trace-finding")
        /\ Has(n, "key") /\ Field(n, "key") = evs[n].data.key
  <2> TAKE n \in Created("trace-finding")
  <2>1. /\ n \in Records("trace-finding") /\ n \in 1..Len(evs) /\ evs[n].of = 0
        /\ "key" \in DOMAIN evs[n].data
    BY RecordsAre DEF Required
  <2> QED
    BY <2>1, LastingField DEF Lasting
<1>2. Records("trace-finding") = Created("trace-finding")
  BY RecordsAre
<1> QED
  BY <1>1, <1>2 DEF Findings, ExistingKeys

\* What the trace looks for is of one of its classes.
LEMMA WantsClassed ==
  \A k \in Wants : \E c \in DOMAIN Classes : k[1] = Classes[c]
<1>1. /\ 1 \in DOMAIN Classes /\ Classes[1] = "force"
      /\ 2 \in DOMAIN Classes /\ Classes[2] = "followup"
      /\ 3 \in DOMAIN Classes /\ Classes[3] = "deviation"
      /\ 4 \in DOMAIN Classes /\ Classes[4] = "ambiguity"
      /\ 5 \in DOMAIN Classes /\ Classes[5] = "drift"
      /\ 6 \in DOMAIN Classes /\ Classes[6] = "scope"
      /\ 7 \in DOMAIN Classes /\ Classes[7] = "stale-verdicts"
      /\ 8 \in DOMAIN Classes /\ Classes[8] = "vacated-signals"
      /\ 9 \in DOMAIN Classes /\ Classes[9] = "assumption-invalidated"
  BY DEF Classes
<1>2. \A k \in Drift : k[1] = "drift"
  BY DEF Drift
<1> TAKE k \in Wants
<1>3. k[1] \in {"force", "followup", "deviation", "ambiguity", "drift", "scope",
                "stale-verdicts", "vacated-signals", "assumption-invalidated"}
  BY <1>2 DEF Wants
<1> QED
  BY <1>1, <1>3

\* One of those in hand is the next.
LEMMA FirstOfIsOne ==
  ASSUME NEW todo, todo # {}, \A k \in todo : \E c \in DOMAIN Classes : k[1] = Classes[c]
  PROVE  FirstOf(todo) \in todo
<1> DEFINE C == {n \in DOMAIN Classes : \E k \in todo : k[1] = Classes[n]}
<1>1. DOMAIN Classes = 1..9
  BY DEF Classes
<1>2. C \in SUBSET (0..9) /\ C # {}
  BY <1>1
<1>3. C # {} => \A c \in C : \E k \in todo : k[1] = Classes[c]
  OBVIOUS
<1> HIDE DEF C
<1>4. PICK c : c = Min(C)
  OBVIOUS
<1>5. c \in C
  BY <1>2, <1>4, MinIsMember
<1>6. FirstOf(todo) = CHOOSE k \in todo : k[1] = Classes[c]
  BY <1>4 DEF FirstOf, C
<1> QED
  BY <1>3, <1>5, <1>6

-----------------------------------------------------------------------------
(* What the contracts ask for.                                             *)

\* An item that is always asked for and cannot be waived holds where nothing
\* is unmet.
LEMMA MetItem ==
  ASSUME NEW items, Unmet(items) = {}, NEW it \in items, family \in it.families,
         it.when = Always, it.waivable = FALSE
  PROVE  Eval(it.check)
<1>1. WhenApplies(it.when)
  BY DEF WhenApplies, Always
<1> QED
  BY <1>1 DEF Unmet

\* A predicate that no record may read so.
LEMMA ClosedHolds ==
  ASSUME NEW items, Unmet(items) = {}, NEW id, NEW families, NEW kind, NEW field, NEW open,
         Item(id, families, Always, FALSE, Closed(kind, field, open, None)) \in items,
         family \in families
  PROVE  \A r \in Records(kind) : Str(r, field) \notin open
<1> DEFINE p == Closed(kind, field, open, None)
<1>1. PICK it : it = Item(id, families, Always, FALSE, p)
  OBVIOUS
<1>2. /\ p.pred = "no-open" /\ p.kind = kind /\ p.field = field /\ p.open = open
      /\ p.filter = None
  BY DEF Closed
<1>3. it \in items
  BY <1>1
<1> HIDE DEF p
<1>4. /\ it.families = families /\ it.when = Always /\ it.waivable = FALSE
      /\ it.check = p
  BY <1>1 DEF Item
<1>5. Eval(it.check)
  BY <1>3, <1>4, MetItem
<1>6. NoOpen(p)
  BY <1>2, <1>4, <1>5 DEF Eval
<1>7. \A r \in Records(kind) : r \in MatchRecords(kind, None)
  BY DEF MatchRecords, Matches, None
<1> QED
  BY <1>2, <1>6, <1>7 DEF NoOpen

\* The contract of Ship leaves no finding open.
LEMMA ShipAsks ==
  ASSUME LogOK, family \in Every, Missing("ship") = {}
  PROVE  NothingOpen
<1>1. Unmet(ShipItems) = {}
  BY DEF Missing
<1>2. Item("ship.trace-clean", Every, Always, FALSE,
           Closed("trace-finding", "status", {"open"}, None)) \in ShipItems
  BY DEF ShipItems
<1>3. \A r \in Records("trace-finding") : Str(r, "status") \notin {"open"}
  BY <1>1, <1>2, ClosedHolds
<1>4. \A n \in Created("trace-finding") :
        n \in Records("trace-finding") /\ n \in 1..Len(evs) /\ evs[n].of = 0
  BY RecordsAre
<1>5. \A n \in Created("trace-finding") : Now(n, "status", "open") => Str(n, "status") = "open"
  BY <1>4, StrStands
<1> QED
  BY <1>3, <1>4, <1>5 DEF NothingOpen

\* The contract of Verify has each criterion judged and none failed.
LEMMA VerifyAsks ==
  ASSUME LogOK, Lasts, family \in Built, Missing("verify") = {}
  PROVE  JudgedAt(Len(evs))
<1>1. Unmet(VerifyItems) = {}
  BY DEF Missing
<1>2. /\ Item("verify.ac-verdicts", Built, Always, FALSE, ACVerdicts) \in VerifyItems
      /\ Item("verify.no-failing-acs", Built, Always, FALSE,
              Closed("ac-verdict", "status", {"fail"}, None)) \in VerifyItems
  BY DEF VerifyItems
<1>3. \A v \in Records("ac-verdict") : Str(v, "status") \notin {"fail"}
  BY <1>1, <1>2, ClosedHolds
<1>4. /\ Records("ac-verdict") = Created("ac-verdict")
      /\ \A v \in Created("ac-verdict") :
           v \in 1..Len(evs) /\ evs[v].of = 0 /\ "ac" \in DOMAIN evs[v].data
  BY RecordsAre DEF Required
<1>5. \A v \in Created("ac-verdict") : Str(v, "ac") = evs[v].data.ac
  BY <1>4, LastingField DEF Lasting
<1>6. \A v \in Created("ac-verdict") : ~ Stands(evs, v, "status", "fail", Len(evs))
  <2>1. \A v \in Created("ac-verdict") : Now(v, "status", "fail") => Str(v, "status") = "fail"
    BY <1>4, StrStands
  <2> QED
    BY <1>3, <1>4, <2>1 DEF Now
<1>7. PICK it : it = Item("verify.ac-verdicts", Built, Always, FALSE, ACVerdicts)
  OBVIOUS
<1>8. /\ ACVerdicts.pred = "per-each" /\ ACVerdicts.kind = "requirement"
      /\ ACVerdicts.each = "acs"
      /\ ACVerdicts.item = [kind |-> "ac-verdict", link |-> "ac", filter |-> None]
  BY DEF ACVerdicts
<1>9. it \in VerifyItems
  BY <1>2, <1>7
<1>10. /\ it.families = Built /\ it.when = Always /\ it.waivable = FALSE
       /\ it.check = ACVerdicts
  BY <1>7 DEF Item
<1>11. Eval(it.check)
  BY <1>1, <1>9, <1>10, MetItem
<1>12. PerEach(ACVerdicts)
  BY <1>8, <1>10, <1>11 DEF Eval
<1>13. \A r \in Records("requirement") : \A id \in ElementIDs(r, "acs") :
         LinkedRecord(ACVerdicts.item, id)
  BY <1>8, <1>12 DEF PerEach
<1>14. \A id : LinkedRecord(ACVerdicts.item, id) =>
         \E v \in Created("ac-verdict") : evs[v].data.ac = id
  BY <1>4, <1>5, <1>8 DEF LinkedRecord, MatchRecords
<1>15. \A r \in Created("requirement") :
         /\ r \in Records("requirement") /\ r \in 1..Len(evs) /\ evs[r].of = 0
         /\ "acs" \in DOMAIN evs[r].data
  BY RecordsAre DEF Required
<1>16. \A r \in Created("requirement") : ElementIDs(r, "acs") = evs[r].data.acs
  BY <1>15, LastingField DEF Lasting, ElementIDs
<1>17. \A r \in Created("requirement") : \A ac \in evs[r].data.acs :
         VerdictsOf(ac, Len(evs)) # {}
  <2> TAKE r \in Created("requirement")
  <2> TAKE ac \in evs[r].data.acs
  <2>1. PICK v \in Created("ac-verdict") : evs[v].data.ac = ac
    BY <1>13, <1>14, <1>15, <1>16
  <2>2. v <= Len(evs)
    BY <1>4, LogIs
  <2> QED
    BY <2>1, <2>2 DEF VerdictsOf
<1> QED
  BY <1>6, <1>17 DEF JudgedAt, VerdictsOf

-----------------------------------------------------------------------------
(* Commands.                                                               *)

\* One beside which something happened.
LEMMA DisturbedIs ==
  ASSUME NEW j, IsCommand(j)
  PROVE  /\ IsCommand(Disturbed(j))
         /\ j = Idle => Disturbed(j) = Idle
         /\ j # Idle => Disturbed(j) # Idle /\ Disturbed(j).alone = FALSE
         /\ Disturbed(j).at \in {"trace", "exit"} => Disturbed(j).alone = FALSE
<1>1. CASE j = Idle
  BY <1>1 DEF Disturbed, IsCommand, Idle
<1>2. CASE j # Idle /\ j.at = "trace"
  <2>1. /\ j = [at |-> "trace", todo |-> j.todo, alone |-> j.alone]
        /\ \A k \in j.todo : \E c \in DOMAIN Classes : k[1] = Classes[c]
    BY <1>2 DEF IsCommand, Idle
  <2>2. PICK t : t = j.todo
    OBVIOUS
  <2>3. Disturbed(j) = [at |-> "trace", todo |-> t, alone |-> FALSE]
    BY <1>2, <2>1, <2>2 DEF Disturbed
  <2> QED
    BY <1>2, <2>1, <2>2, <2>3 DEF IsCommand, Idle
<1>3. CASE j # Idle /\ j.at = "exit"
  <2>1. /\ j = [at |-> "exit", next |-> j.next, forced |-> j.forced, alone |-> j.alone]
        /\ j.forced \in BOOLEAN /\ j.next \in {"ship", "done"}
    BY <1>3 DEF IsCommand, Idle
  <2>2. PICK x, y : x = j.next /\ y = j.forced
    OBVIOUS
  <2>3. Disturbed(j) = [at |-> "exit", next |-> x, forced |-> y, alone |-> FALSE]
    BY <1>3, <2>1, <2>2 DEF Disturbed
  <2> QED
    BY <1>3, <2>1, <2>2, <2>3 DEF IsCommand, Idle
<1> QED
  BY <1>1, <1>2, <1>3 DEF IsCommand

\* A step of one process disturbs the others.
LEMMA JobStep ==
  ASSUME JobsOK, NEW p \in Proc, NEW j, IsCommand(j), Step(p, j)
  PROVE  /\ JobsOK' /\ job'[p] = j
         /\ \A q \in Proc : q # p =>
              /\ job[q] = Idle => job'[q] = Idle
              /\ job[q] # Idle => job'[q] # Idle /\ job'[q].alone = FALSE
              /\ job'[q].at \in {"trace", "exit"} => job'[q].alone = FALSE
<1>1. job' = [q \in Proc |-> IF q = p THEN j ELSE Disturbed(job[q])]
  BY DEF Step
<1>2. job'[p] = j /\ \A q \in Proc : q # p => job'[q] = Disturbed(job[q])
  BY <1>1
<1>3. \A q \in Proc : q # p =>
        /\ IsCommand(job'[q])
        /\ job[q] = Idle => job'[q] = Idle
        /\ job[q] # Idle => job'[q] # Idle /\ job'[q].alone = FALSE
        /\ job'[q].at \in {"trace", "exit"} => job'[q].alone = FALSE
  BY <1>2, DisturbedIs DEF JobsOK
<1>4. \A q \in Proc : IsCommand(job'[q])
  BY <1>2, <1>3
<1>5. job' \in [Proc -> {job'[q] : q \in Proc}]
  BY <1>1
<1> QED
  BY <1>2, <1>3, <1>4, <1>5 DEF JobsOK

\* A write disturbs all.
LEMMA JobsDisturbed ==
  ASSUME JobsOK, job' = [q \in Proc |-> Disturbed(job[q])]
  PROVE  /\ JobsOK'
         /\ \A q \in Proc :
              /\ job[q] = Idle => job'[q] = Idle
              /\ job[q] # Idle => job'[q] # Idle /\ job'[q].alone = FALSE
              /\ job'[q].at \in {"trace", "exit"} => job'[q].alone = FALSE
<1>1. \A q \in Proc : job'[q] = Disturbed(job[q])
  OBVIOUS
<1>2. \A q \in Proc :
        /\ IsCommand(job'[q])
        /\ job[q] = Idle => job'[q] = Idle
        /\ job[q] # Idle => job'[q] # Idle /\ job'[q].alone = FALSE
        /\ job'[q].at \in {"trace", "exit"} => job'[q].alone = FALSE
  BY <1>1, DisturbedIs DEF JobsOK
<1>3. job' \in [Proc -> {job'[q] : q \in Proc}]
  OBVIOUS
<1> QED
  BY <1>2, <1>3 DEF JobsOK


-----------------------------------------------------------------------------
(* Events, well-formed.                                                    *)

Appends(e) == evs' = Append(evs, e) /\ WellFormed(Append(evs, e), Len(evs) + 1)

\* A new record with the fields its kind must have.
LEMMA NewIsWellFormed ==
  ASSUME LogOK, NEW e, evs' = Append(evs, e), e.of = 0, e.kind # "phase",
         Required(e.kind) \subseteq DOMAIN e.data
  PROVE  Appends(e)
<1>1. Len(evs) \in Nat /\ Append(evs, e)[Len(evs) + 1] = e
  BY LogIs, Extended
<1> QED
  BY <1>1 DEF Appends, WellFormed

\* A record made.
LEMMA RecordAppends ==
  ASSUME LogOK, family \in DOMAIN Prior, NEW w \in Writes[family], Record(w)
  PROVE  Appends(Event(w.kind, 0, w.auto, w.data))
<1>1. w.kind \notin {"phase", "approval", "trace-finding"} /\ Required(w.kind) \subseteq DOMAIN w.data
  BY RecordsAssumption
<1>2. PICK e : e = Event(w.kind, 0, w.auto, w.data)
  OBVIOUS
<1>3. e.of = 0 /\ e.kind = w.kind /\ e.data = w.data
  BY <1>2 DEF Event
<1>4. evs' = Append(evs, e)
  BY <1>2 DEF Record, AtOnce
<1> QED
  BY <1>1, <1>2, <1>3, <1>4, NewIsWellFormed

\* A record updated.
LEMMA UpdateAppends ==
  ASSUME LogOK, family \in DOMAIN Prior, NEW n \in DOMAIN evs, NEW w \in Updates[family],
         Update(n, w)
  PROVE  /\ ResolveRecordID(n) \in 1..Len(evs)
         /\ Appends(Event(w.kind, ResolveRecordID(n), w.auto, w.data))
<1>1. w.kind # "phase"
  BY RecordsAssumption
<1>2. PICK r : r = ResolveRecordID(n)
  OBVIOUS
<1>3. PICK e : e = Event(w.kind, r, w.auto, w.data)
  OBVIOUS
<1>4. e.of = r /\ e.kind = w.kind /\ e.data = w.data
  BY <1>3 DEF Event
<1>5. evs' = Append(evs, e) /\ evs[n].kind = w.kind
  BY <1>2, <1>3 DEF Update, AtOnce
<1>6. /\ Len(evs) \in Nat /\ n \in 1..Len(evs)
      /\ evs[n].of # 0 => evs[n].of \in 1..Len(evs)
  BY LogIs
<1>7. WellFormed(evs, n)
  BY <1>6 DEF LogOK
<1>8. r \in 1..Len(evs) /\ evs[r].of = 0 /\ evs[r].kind = w.kind
  BY <1>2, <1>5, <1>6, <1>7 DEF ResolveRecordID, WellFormed
<1>9. /\ Append(evs, e)[Len(evs) + 1] = e
      /\ Append(evs, e)[r] = evs[r]
  BY <1>8, LogIs, Extended
<1>10. r \in 0..(Len(evs) + 1) - 1 /\ r # 0
  BY <1>6, <1>8
<1>11. WellFormed(Append(evs, e), Len(evs) + 1)
  BY <1>1, <1>4, <1>8, <1>9, <1>10 DEF WellFormed
<1> QED
  BY <1>2, <1>3, <1>5, <1>8, <1>11 DEF Appends

\* What an approval says.
ApprovalOf(gate) ==
  LET refs == ApprovalRefs(gate)
  IN  IF refs = {} THEN [gate |-> gate] ELSE [gate |-> gate, approved_refs |-> refs]

\* A gate approved.
LEMMA ApproveAppends ==
  ASSUME LogOK, NEW gate, Approve(gate)
  PROVE  Appends(Event("approval", 0, FALSE, ApprovalOf(gate)))
<1>1. PICK e : e = Event("approval", 0, FALSE, ApprovalOf(gate))
  OBVIOUS
<1>2. e.of = 0 /\ e.kind = "approval" /\ e.data = ApprovalOf(gate)
  BY <1>1 DEF Event
<1>3. evs' = Append(evs, e)
  BY <1>1 DEF Approve, ApprovalOf, AtOnce
<1>4. "gate" \in DOMAIN ApprovalOf(gate)
  BY DEF ApprovalOf
<1>5. Required("approval") = {"gate"}
  BY DEF Required
<1> QED
  BY <1>1, <1>2, <1>3, <1>4, <1>5, NewIsWellFormed

FindingOf(k) == Event("trace-finding", 0, TRUE, [key |-> k, status |-> "open"])

\* A finding of the trace.
LEMMA TraceAppends ==
  ASSUME LogOK, NEW p, TraceOne(p)
  PROVE  Appends(FindingOf(FirstOf(job[p].todo)))
<1>1. PICK k : k = FirstOf(job[p].todo)
  OBVIOUS
<1>2. /\ FindingOf(k).of = 0 /\ FindingOf(k).kind = "trace-finding"
      /\ "key" \in DOMAIN FindingOf(k).data
  BY DEF FindingOf, Event
<1>3. evs' = Append(evs, FindingOf(k))
  BY <1>1 DEF TraceOne, FindingOf
<1>4. Required("trace-finding") = {"key"}
  BY DEF Required
<1> QED
  BY <1>1, <1>2, <1>3, <1>4, NewIsWellFormed

ForceOf(ph) == Event("phase", 0, FALSE, [action |-> "force", phase |-> ph])

\* A forced exit.
LEMMA ForceAppends ==
  ASSUME LogOK, phase \in {"verify", "ship", "done"}, NEW p, BeginForce(p)
  PROVE  Appends(ForceOf(phase))
<1>1. evs' = Append(evs, ForceOf(phase)) /\ phase # "done"
  BY DEF BeginForce, Begin, ForceOf
<1>2. PICK e : e = ForceOf(phase)
  OBVIOUS
<1>3. /\ e.of = 0 /\ e.kind = "phase"
      /\ "action" \in DOMAIN e.data /\ e.data.phase = phase
  BY <1>2 DEF ForceOf, Event
<1>4. phase \in Phases
  BY <1>1 DEF Phases
<1>5. Required("phase") = {}
  BY DEF Required
<1>6. Len(evs) \in Nat /\ Append(evs, e)[Len(evs) + 1] = e
  BY LogIs, Extended
<1> QED
  BY <1>1, <1>2, <1>3, <1>4, <1>5, <1>6 DEF Appends, WellFormed

-----------------------------------------------------------------------------
(* Types.                                                                  *)

\* Where verified may be after one more event.
LEMMA VerifiedStays ==
  ASSUME LogOK, verified \in 0..Len(evs), NEW e, Appends(e), verified' = verified
  PROVE  LogOK' /\ verified' \in 0..Len(evs')
  BY LogGrows, LogIs DEF Appends

\* The log stays well-formed and the commands are ones there are.
LEMMA StepTypes ==
  Types /\ [Next]_vars => Types'
<1> SUFFICES ASSUME Types, [Next]_vars
             PROVE  Types'
  OBVIOUS
<1> USE DEF Types
<1>1. ASSUME NEW w \in Writes[family], Record(w)
      PROVE  Types'
  <2>1. LogOK' /\ verified' \in 0..Len(evs')
    BY <1>1, RecordAppends, VerifiedStays DEF Record, AtOnce
  <2>2. JobsOK'
    BY <1>1, JobsDisturbed DEF Record, AtOnce
  <2>3. traced' \in BOOLEAN
    BY <1>1, Zenon DEF Record
  <2>4. PICK e : AtOnce(e)
    BY <1>1 DEF Record
  <2> QED
    BY <2>1, <2>2, <2>3, <2>4 DEF AtOnce, Move
<1>2. ASSUME NEW n \in DOMAIN evs, NEW w \in Updates[family], Update(n, w)
      PROVE  Types'
  <2>1. LogOK' /\ verified' \in 0..Len(evs')
    BY <1>2, UpdateAppends, VerifiedStays DEF Update, AtOnce
  <2>2. JobsOK'
    BY <1>2, JobsDisturbed DEF Update, AtOnce
  <2> QED
    BY <1>2, <2>1, <2>2 DEF Update, AtOnce, Move
<1>3. ASSUME NEW gate \in Gate, Approve(gate)
      PROVE  Types'
  <2>1. LogOK' /\ verified' \in 0..Len(evs')
    BY <1>3, ApproveAppends, VerifiedStays DEF Approve, AtOnce
  <2>2. JobsOK'
    BY <1>3, JobsDisturbed DEF Approve, AtOnce
  <2>3. traced' \in BOOLEAN
    BY <1>3, Zenon DEF Approve
  <2>4. PICK e : AtOnce(e)
    BY <1>3 DEF Approve
  <2> QED
    BY <2>1, <2>2, <2>3, <2>4 DEF AtOnce, Move
<1>4. ASSUME NEW path, NEW ids, Author(path, ids)
      PROVE  Types'
  <2>1. JobsOK'
    BY <1>4, JobsDisturbed DEF Author
  <2>2. LogOK' /\ verified' \in 0..Len(evs')
    BY <1>4 DEF Author, LogOK, IsLog, WellFormed
  <2>3. traced' \in BOOLEAN
    BY <1>4, Zenon DEF Author
  <2> QED
    BY <1>4, <2>1, <2>2, <2>3 DEF Author, Move
<1>5. ASSUME evs' = evs, verified' = verified
      PROVE  LogOK' /\ verified' \in 0..Len(evs')
  BY <1>5 DEF LogOK, IsLog, WellFormed
<1>6. ASSUME NEW p \in Proc, BeginTrace(p)
      PROVE  Types'
  <2> DEFINE j == [at |-> "trace", todo |-> Wants \ ExistingKeys, alone |-> Quiet]
  <2>1. Step(p, j)
    BY <1>6 DEF BeginTrace, Begin
  <2>2. IsCommand(j)
    <3>1. \A k \in j.todo : \E c \in DOMAIN Classes : k[1] = Classes[c]
      BY WantsClassed
    <3>2. Quiet \in BOOLEAN
      BY DEF Quiet
    <3> QED
      BY <3>1, <3>2 DEF IsCommand
  <2> HIDE DEF j
  <2>3. JobsOK'
    BY <2>1, <2>2, JobStep
  <2> QED
    BY <1>5, <1>6, <2>3 DEF BeginTrace, Move
<1>7. ASSUME NEW p \in Proc, TraceOne(p)
      PROVE  Types'
  <2> DEFINE k == FirstOf(job[p].todo)
             j == [job[p] EXCEPT !.todo = @ \ {k}]
  <2>1. Step(p, j) /\ job[p].at = "trace" /\ job[p].todo # {}
    BY <1>7 DEF TraceOne
  <2>2. IsCommand(j)
    <3>1. IsCommand(job[p])
      BY DEF JobsOK
    <3>2. /\ job[p] = [at |-> "trace", todo |-> job[p].todo, alone |-> job[p].alone]
          /\ job[p].alone \in BOOLEAN
          /\ \A x \in job[p].todo : \E c \in DOMAIN Classes : x[1] = Classes[c]
      BY <2>1, <3>1 DEF IsCommand, Idle
    <3>3. PICK t, b : t = job[p].todo /\ b = job[p].alone
      OBVIOUS
    <3>4. PICK J : J = [at |-> "trace", todo |-> t, alone |-> b]
      OBVIOUS
    <3>5. job[p] = J
      BY <3>2, <3>3, <3>4
    <3>6. PICK rest : rest = t \ {k}
      OBVIOUS
    <3>7. j = [J EXCEPT !.todo = rest]
      BY <3>3, <3>5, <3>6
    <3>8. j = [at |-> "trace", todo |-> rest, alone |-> b]
      BY <3>4, <3>7
    <3> HIDE DEF j, k
    <3> QED
      BY <3>2, <3>3, <3>6, <3>8 DEF IsCommand
  <2>3. LogOK' /\ verified' \in 0..Len(evs')
    BY <1>7, TraceAppends, VerifiedStays DEF TraceOne
  <2> HIDE DEF j, k
  <2>4. JobsOK'
    BY <2>1, <2>2, JobStep
  <2> QED
    BY <1>7, <2>3, <2>4 DEF TraceOne, counted
<1>8. IsCommand(Idle)
  BY DEF IsCommand
<1>9. ASSUME NEW p \in Proc, EndTrace(p)
      PROVE  Types'
  <2>1. JobsOK'
    BY <1>8, <1>9, JobStep DEF EndTrace
  <2>2. traced' \in BOOLEAN
    BY <1>9, Zenon DEF EndTrace
  <2> QED
    BY <1>5, <1>9, <2>1, <2>2 DEF EndTrace, counted
<1>10. ASSUME NEW p \in Proc, NEW f \in BOOLEAN,
              Begin(p, [at |-> "exit", next |-> After(phase), forced |-> f, alone |-> Quiet])
       PROVE  JobsOK'
  <2>1. IsCommand([at |-> "exit", next |-> After(phase), forced |-> f, alone |-> Quiet])
    <3>1. Quiet \in BOOLEAN /\ After(phase) \in {"ship", "done"}
      BY DEF Quiet, After
    <3> QED
      BY <3>1 DEF IsCommand
  <2> QED
    BY <1>10, <2>1, JobStep DEF Begin
<1>11. ASSUME NEW p \in Proc, BeginExit(p)
       PROVE  Types'
  <2>1. JobsOK'
    BY <1>10, <1>11 DEF BeginExit
  <2> QED
    BY <1>5, <1>11, <2>1 DEF BeginExit, counted
<1>12. ASSUME NEW p \in Proc, BeginForce(p)
       PROVE  Types'
  <2>1. JobsOK'
    BY <1>10, <1>12 DEF BeginForce
  <2>2. LogOK' /\ verified' \in 0..Len(evs')
    BY <1>12, ForceAppends, VerifiedStays DEF BeginForce
  <2>3. traced' \in BOOLEAN
    BY <1>12, Zenon DEF BeginForce
  <2> QED
    BY <1>12, <2>1, <2>2, <2>3 DEF BeginForce, Move
<1>13. ASSUME NEW p \in Proc, CommitExit(p)
       PROVE  Types'
  <2>1. JobsOK'
    BY <1>8, <1>13, JobStep DEF CommitExit
  <2>2. phase' \in {"verify", "ship", "done"}
    <3>1. IsCommand(job[p]) /\ job[p].at = "exit"
      BY <1>13 DEF JobsOK, CommitExit
    <3>2. job[p].next \in {"ship", "done"}
      BY <3>1 DEF IsCommand, Idle
    <3> QED
      BY <1>13, <3>2 DEF CommitExit
  <2>3. verified' \in 0..Len(evs')
    BY <1>13, LogIs DEF CommitExit
  <2>4. LogOK'
    BY <1>13 DEF CommitExit, LogOK, IsLog, WellFormed
  <2> QED
    BY <1>13, <2>1, <2>2, <2>3, <2>4 DEF CommitExit, counted
<1>14. ASSUME NEW p \in Proc, Kill(p)
       PROVE  Types'
  <2>1. JobsOK'
    BY <1>8, <1>14, JobStep DEF Kill
  <2> QED
    BY <1>5, <1>14, <2>1 DEF Kill, Move
<1>15. CASE UNCHANGED vars
  <2>1. JobsOK'
    BY <1>15 DEF JobsOK, vars, IsCommand
  <2> QED
    BY <1>5, <1>15, <2>1 DEF vars
<1> QED
  BY <1>1, <1>2, <1>3, <1>4, <1>6, <1>7, <1>9, <1>11, <1>12, <1>13, <1>14, <1>15 DEF Next


-----------------------------------------------------------------------------
(* What a step leaves true.                                                *)

\* Where nothing is said, nothing changes.
LEMMA NothingSaid ==
  ASSUME evs' = evs
  PROVE  /\ Problems' = Problems
         /\ \A k : Findings(k)' = Findings(k)
         /\ NothingOpen' <=> NothingOpen
         /\ Lasts' <=> Lasts
         /\ \A u : JudgedAt(u)' <=> JudgedAt(u)
<1>1. \A kind : Created(kind)' = Created(kind)
  BY DEF Created
<1>2. \A r, f, v : Now(r, f, v)' <=> Now(r, f, v)
  BY DEF Now, Stands
<1>3. \A q : Drifted(q)' <=> Drifted(q)
  <2>1. Baselines' = Baselines
    BY <1>1 DEF Baselines
  <2> QED
    BY <1>2, <2>1 DEF Drifted, Agreed, Stands
<1>4. Problems' = Problems
  <2> DEFINE Sc == {d \in Created("edit") : \E b \in Created("scope-boundary") :
                      evs[d].data.path \in evs[b].data.out_of_scope}
             Dr == {q \in Created("requirement") : Drifted(q)}
             Fo == {q \in Created("followup") : Now(q, "status", "open")}
             De == {q \in Created("deviation") : Now(q, "status", "pending")}
             As == {q \in Created("assumption") : /\ Now(q, "high_risk", TRUE)
                                                  /\ Now(q, "status", "invalidated")}
             Ph == {m \in DOMAIN evs : evs[m].kind = "phase" /\ evs[m].data.action = "force"}
  <2>1. Sc' = Sc /\ Ph' = Ph
    BY <1>1
  <2>2. Dr' = Dr
    BY <1>1, <1>3
  <2>3. Fo' = Fo
    BY <1>1, <1>2
  <2>4. De' = De
    BY <1>1, <1>2
  <2>5. As' = As
    BY <1>1, <1>2
  <2>6. Problems =
          {<<"followup", r>> : r \in Fo} \cup {<<"deviation", r>> : r \in De}
          \cup {<<"force", n>> : n \in Ph}
          \cup {<<"drift", <<"scope", <<"req", evs[r].data.rid>>>>>> : r \in Dr}
          \cup {<<"scope", d>> : d \in Sc} \cup {<<"assumption-invalidated", r>> : r \in As}
    BY DEF Problems
  <2>7. Problems' =
          {<<"followup", r>> : r \in Fo'} \cup {<<"deviation", r>> : r \in De'}
          \cup {<<"force", n>> : n \in Ph'}
          \cup {<<"drift", <<"scope", <<"req", evs'[r].data.rid>>>>>> : r \in Dr'}
          \cup {<<"scope", d>> : d \in Sc'} \cup {<<"assumption-invalidated", r>> : r \in As'}
    BY DEF Problems
  <2> HIDE DEF Sc, Dr, Fo, De, As, Ph
  <2> QED
    BY <2>1, <2>2, <2>3, <2>4, <2>5, <2>6, <2>7
<1>5. \A k : Findings(k)' = Findings(k)
  BY <1>1 DEF Findings
<1>6. NothingOpen' <=> NothingOpen
  BY <1>1, <1>2 DEF NothingOpen
<1>7. Lasts' <=> Lasts
  BY DEF Lasts, Bound, Agreed, Stands
<1>8. \A u : JudgedAt(u)' <=> JudgedAt(u)
  BY <1>1 DEF JudgedAt, VerdictsOf, Stands
<1> QED
  BY <1>4, <1>5, <1>6, <1>7, <1>8

\* What was judged was judged, whatever comes after.
LEMMA JudgedOn ==
  ASSUME LogOK, NEW e, Appends(e), NEW u \in 0..Len(evs)
  PROVE  JudgedAt(u)' <=> JudgedAt(u)
<1>1. /\ IsLog(evs) /\ Len(evs) \in Nat /\ DOMAIN evs = 1..Len(evs)
      /\ evs' = Append(evs, e)
      /\ \A n \in 1..Len(evs) : evs'[n] = evs[n]
  BY LogIs, LogGrows DEF Appends
<1>2. \A kind, n : n \in Created(kind)' <=>
        n \in Created(kind) \/ (n = Len(evs) + 1 /\ e.kind = kind /\ e.of = 0)
  BY CreatedOn DEF Appends
<1>3. \A kind : \A n \in Created(kind) : n \in 1..Len(evs)
  BY <1>1 DEF Created
<1>4. ~ (Len(evs) + 1 <= u)
  BY <1>1
<1>5. \A ac : VerdictsOf(ac, u)' = VerdictsOf(ac, u)
  <2> TAKE ac
  <2>1. \A v : v \in VerdictsOf(ac, u)' <=> v \in VerdictsOf(ac, u)
    BY <1>1, <1>2, <1>3, <1>4 DEF VerdictsOf
  <2> QED
    BY <2>1
<1>6. \A ac : \A v \in VerdictsOf(ac, u) :
        Stands(evs', v, "status", "fail", u) <=> Stands(evs, v, "status", "fail", u)
  BY <1>1, <1>3, StandsThere DEF VerdictsOf
<1>7. \A r : r \in Created("requirement")' /\ r <= u <=>
             r \in Created("requirement") /\ r <= u
  BY <1>2, <1>4
<1>8. \A r \in Created("requirement") : evs'[r] = evs[r]
  BY <1>1, <1>3
<1>9. JudgedAt(u) <=>
        \A r \in Created("requirement") : r <= u =>
          \A ac \in evs[r].data.acs :
            /\ VerdictsOf(ac, u) # {}
            /\ \A v \in VerdictsOf(ac, u) : ~ Stands(evs, v, "status", "fail", u)
  BY DEF JudgedAt
<1>10. JudgedAt(u)' <=>
         \A r \in Created("requirement")' : r <= u =>
           \A ac \in evs'[r].data.acs :
             /\ VerdictsOf(ac, u)' # {}
             /\ \A v \in VerdictsOf(ac, u)' : ~ Stands(evs', v, "status", "fail", u)
  BY DEF JudgedAt
<1> QED
  BY <1>5, <1>6, <1>7, <1>8, <1>9, <1>10

\* An approval of the scope names requirements that are there.
LEMMA ApproveBinds ==
  ASSUME LogOK, Lasts, NEW gate, NEW e, e.of = 0, e.data = ApprovalOf(gate)
  PROVE  Bound(Append(evs, e), Len(evs) + 1)
<1> DEFINE l == Append(evs, e)
           N == Len(evs)
<1>1. /\ IsLog(evs) /\ N \in Nat /\ l[N + 1] = e /\ \A n \in 1..N : l[n] = evs[n]
  <2>1. IsLog(evs) /\ N \in Nat
    BY LogIs
  <2> QED
    BY <2>1, Extended
<1>3. ASSUME e.data.gate = "scope", "approved_refs" \in DOMAIN e.data
      PROVE  \A ref \in e.data.approved_refs : ref[1] = "req" => Agreed(l, ref[2], N + 1)
  <2>1. gate = "scope" /\ e.data.approved_refs = ApprovalRefs("scope")
    <3>1. PICK refs : refs = ApprovalRefs(gate)
      OBVIOUS
    <3>2. e.data = IF refs = {} THEN [gate |-> gate] ELSE [gate |-> gate, approved_refs |-> refs]
      BY <3>1 DEF ApprovalOf
    <3>3. PICK d : d = e.data
      OBVIOUS
    <3>4. d.gate = gate /\ ("approved_refs" \in DOMAIN d => d.approved_refs = refs)
      BY <3>2, <3>3
    <3>5. gate = "scope" /\ e.data.approved_refs = refs
      BY <1>3, <3>3, <3>4
    <3> QED
      BY <3>1, <3>5
  <2>2. \A ref \in ApprovalRefs("scope") : ref[1] = "req" =>
          \E r \in Records("requirement") :
            Str(r, "status") # "dropped" /\ ref = <<"req", Str(r, "rid")>>
    BY DEF ApprovalRefs
  <2> SUFFICES ASSUME NEW ref \in ApprovalRefs("scope"), ref[1] = "req"
               PROVE  Agreed(l, ref[2], N + 1)
    BY <2>1
  <2>3. PICK r \in Records("requirement") :
          Str(r, "status") # "dropped" /\ ref = <<"req", Str(r, "rid")>>
    BY <2>2
  <2>4. /\ r \in 1..N /\ evs[r].of = 0 /\ evs[r].kind = "requirement"
        /\ "rid" \in DOMAIN evs[r].data
    BY <2>3, RecordsAre DEF Required
  <2>5. ref[2] = evs[r].data.rid
    BY <2>3, <2>4, LastingField DEF Lasting
  <2>6. ~ Stands(evs, r, "status", "dropped", N)
    BY <2>3, <2>4, StrStands DEF Now
  <2>7. e.of # r
    BY <1>1, <2>4
  <2>8. ~ Stands(l, r, "status", "dropped", N + 1)
    BY <1>1, <2>4, <2>6, <2>7, StandsOn
  <2>9. r \in 1..(N + 1) - 1 /\ l[r] = evs[r]
    BY <1>1, <2>4
  <2> HIDE DEF l
  <2> QED
    BY <2>4, <2>5, <2>8, <2>9 DEF Agreed
<1> HIDE DEF l
<1>4. Bound(l, N + 1)
  BY <1>1, <1>3 DEF Bound
<1> QED
  BY <1>4 DEF l

\* Any other event names none.
LEMMA OtherBinds ==
  ASSUME LogOK, NEW e, e.kind = "approval" => e.of # 0
  PROVE  Bound(Append(evs, e), Len(evs) + 1)
<1>1. Append(evs, e)[Len(evs) + 1] = e
  BY LogIs, Extended
<1> QED
  BY <1>1 DEF Bound

\* A write, be it a record, an update or an approval.
LEMMA WriteKeeps ==
  ASSUME IInv, Types', NEW e, AtOnce(e), Appends(e), Lasts',
         traced' => traced /\ e.kind = "trace-finding"
  PROVE  IInv'
<1> USE DEF IInv
<1>1. /\ LogOK /\ JobsOK /\ evs' = Append(evs, e)
      /\ WellFormed(Append(evs, e), Len(evs) + 1)
      /\ family' = family /\ verified' = verified
      /\ job' = [q \in Proc |-> Disturbed(job[q])]
  BY DEF Types, Appends, AtOnce
<1>2. \A q \in Proc : job'[q].at \in {"trace", "exit"} => job'[q].alone = FALSE
  BY <1>1, JobsDisturbed
<1>3. Tracing' /\ Leaving'
  BY <1>2 DEF Tracing, Leaving
<1>4. Answered'
  <2> SUFFICES ASSUME traced'
               PROVE  \A k \in Problems' : Findings(k)' # {}
    BY DEF Answered
  <2>1. Problems' = Problems
    BY <1>1, ProblemsStay
  <2>2. \A k : Findings(k) # {} => Findings(k)' # {}
    BY <1>1, FindingsOn
  <2> QED
    BY <2>1, <2>2 DEF Answered
<1>5. Judged'
  <2>1. PICK u : u = verified
    OBVIOUS
  <2>2. JudgedAt(u) => JudgedAt(u)'
    BY <1>1, <2>1, JudgedOn DEF Types
  <2> QED
    BY <1>1, <2>1, <2>2 DEF Judged
<1> QED
  BY <1>3, <1>4, <1>5

\* A step of p leaves only p undisturbed.
LEMMA OnlyOne ==
  ASSUME JobsOK, NEW p \in Proc, NEW j, IsCommand(j), Step(p, j)
  PROVE  /\ (j.at = "trace" /\ j.alone =>
               /\ \A k \in Problems' : k \in j.todo \/ Findings(k)' # {}
               /\ \A k \in j.todo : Findings(k)' = {})
            => Tracing'
         /\ (j.at = "exit" /\ j.alone =>
               /\ phase' # "done" /\ j.next = After(phase')
               /\ ~ j.forced /\ phase' = "verify" /\ family' \in Built => JudgedAt(Len(evs))'
               /\ ~ j.forced /\ phase' = "ship" => NothingOpen')
            => Leaving'
<1>1. /\ job'[p] = j
      /\ \A q \in Proc : q # p /\ job'[q].at \in {"trace", "exit"} => job'[q].alone = FALSE
  BY JobStep
<1>2. \A q \in Proc : job'[q].at \in {"trace", "exit"} /\ job'[q].alone => q = p
  BY <1>1
<1> QED
  BY <1>1, <1>2 DEF Tracing, Leaving

\* A step that neither says anything nor leaves Verify, nor ends a trace.
LEMMA QuietKeeps ==
  ASSUME IInv, evs' = evs, family' = family, verified' = verified, traced' => traced
  PROVE  Lasts' /\ Answered' /\ Judged'
<1>1. Lasts' /\ Answered'
  BY NothingSaid DEF IInv, Answered
<1>2. PICK u : u = verified
  OBVIOUS
<1>3. JudgedAt(u)' <=> JudgedAt(u)
  BY NothingSaid
<1> QED
  BY <1>1, <1>2, <1>3 DEF IInv, Judged


\* The steps of a process, one by one.
LEMMA BeginTraceKeeps ==
  ASSUME IInv, Types', NEW p \in Proc, BeginTrace(p)
  PROVE  IInv'
<1> DEFINE j == [at |-> "trace", todo |-> Wants \ ExistingKeys, alone |-> Quiet]
<1>1. /\ Step(p, j) /\ LogOK /\ Lasts /\ JobsOK
      /\ evs' = evs /\ family' = family /\ verified' = verified /\ traced' = traced
  BY DEF BeginTrace, Begin, IInv, Types
<1>2. j.at = "trace" /\ j.todo = Wants \ ExistingKeys
  OBVIOUS
<1>3. IsCommand(j)
  <2>1. Quiet \in BOOLEAN
    BY DEF Quiet
  <2>2. \A k \in j.todo : \E c \in DOMAIN Classes : k[1] = Classes[c]
    BY WantsClassed
  <2> QED
    BY <2>1, <2>2 DEF IsCommand
<1> HIDE DEF j
<1>4. \A k \in Problems' : k \in j.todo \/ Findings(k)' # {}
  BY <1>1, <1>2, Wanted, FindingKeys, NothingSaid
<1>5. \A k \in j.todo : Findings(k)' = {}
  BY <1>1, <1>2, FindingKeys, NothingSaid
<1>6. j.at # "exit"
  BY <1>2
<1>7. Tracing' /\ Leaving'
  BY <1>1, <1>3, <1>4, <1>5, <1>6, OnlyOne
<1> QED
  BY <1>1, <1>7, QuietKeeps DEF IInv

\* A finding of what an undisturbed trace has to do is the first for it.
LEMMA TraceOneKeeps ==
  ASSUME IInv, Types', NEW p \in Proc, TraceOne(p)
  PROVE  /\ IInv'
         /\ job[p].alone => Findings(FirstOf(job[p].todo)) = {}
<1>1. PICK k : k = FirstOf(job[p].todo)
  OBVIOUS
<1>2. PICK rest : rest = job[p].todo \ {k}
  OBVIOUS
<1>3. PICK j : j = [job[p] EXCEPT !.todo = rest]
  OBVIOUS
<1>4. PICK e : e = FindingOf(k)
  OBVIOUS
<1>5. /\ LogOK /\ Lasts /\ JobsOK /\ Tracing /\ Judged /\ verified \in 0..Len(evs)
      /\ job[p].at = "trace" /\ job[p].todo # {} /\ Step(p, j)
      /\ traced' = FALSE /\ verified' = verified /\ family' = family
  BY <1>1, <1>2, <1>3 DEF TraceOne, IInv, Types, counted
<1>6. Appends(e)
  BY <1>1, <1>4, <1>5, TraceAppends
<1>7. e.of = 0 /\ e.kind = "trace-finding" /\ e.data.key = k
  BY <1>4 DEF FindingOf, Event
<1>8. /\ job[p] = [at |-> "trace", todo |-> job[p].todo, alone |-> job[p].alone]
      /\ job[p].alone \in BOOLEAN
      /\ \A x \in job[p].todo : \E c \in DOMAIN Classes : x[1] = Classes[c]
  BY <1>5 DEF JobsOK, IsCommand, Idle
<1>9. k \in job[p].todo
  BY <1>1, <1>5, <1>8, FirstOfIsOne
<1>10. /\ j = [at |-> "trace", todo |-> rest, alone |-> job[p].alone]
       /\ j.at = "trace" /\ j.todo = rest /\ j.alone = job[p].alone
  <2>1. PICK J, t, b : J = job[p] /\ t = J.todo /\ b = J.alone
    OBVIOUS
  <2>2. J = [at |-> "trace", todo |-> t, alone |-> b] /\ j = [J EXCEPT !.todo = rest]
    BY <1>3, <1>8, <2>1
  <2> QED
    BY <2>1, <2>2
<1>11. IsCommand(j)
  BY <1>2, <1>8, <1>10 DEF IsCommand
<1>12. job[p].alone =>
         /\ \A x \in Problems : x \in job[p].todo \/ Findings(x) # {}
         /\ \A x \in job[p].todo : Findings(x) = {}
  BY <1>5 DEF Tracing
<1>13. /\ Problems' = Problems
       /\ \A x : Findings(x) # {} => Findings(x)' # {}
       /\ \A x : x # k => Findings(x)' = Findings(x)
       /\ Findings(k)' # {}
  BY <1>5, <1>6, <1>7, ProblemsStay, FindingsOn DEF Appends
<1>14. j.alone => \A x \in Problems' : x \in j.todo \/ Findings(x)' # {}
  BY <1>2, <1>10, <1>12, <1>13
<1>15. j.alone => \A x \in j.todo : Findings(x)' = {}
  BY <1>2, <1>10, <1>12, <1>13
<1>16. Tracing' /\ Leaving'
  <2>1. j.at # "exit"
    BY <1>10
  <2> QED
    BY <1>5, <1>11, <1>14, <1>15, <2>1, OnlyOne
<1>17. Lasts'
  <2>1. Bound(Append(evs, e), Len(evs) + 1)
    BY <1>5, <1>7, OtherBinds
  <2> QED
    BY <1>5, <1>6, <1>7, <2>1, LastsOn DEF Appends
<1>18. Judged'
  <2>1. PICK u : u = verified
    OBVIOUS
  <2>2. JudgedAt(u) => JudgedAt(u)'
    BY <1>5, <1>6, <2>1, JudgedOn
  <2> QED
    BY <1>5, <2>1, <2>2 DEF Judged
<1>19. Answered'
  BY <1>5 DEF Answered
<1> QED
  BY <1>1, <1>9, <1>12, <1>16, <1>17, <1>18, <1>19 DEF IInv

\* The end of an undisturbed trace: all is answered for.
LEMMA EndTraceKeeps ==
  ASSUME IInv, Types', NEW p \in Proc, EndTrace(p)
  PROVE  /\ IInv'
         /\ job[p].alone => \A k \in Problems' : Findings(k)' # {}
<1>1. /\ JobsOK /\ Tracing /\ Lasts /\ Judged
      /\ job[p].at = "trace" /\ job[p].todo = {} /\ Step(p, Idle)
      /\ evs' = evs /\ verified' = verified /\ family' = family
      /\ traced' = (traced \/ job[p].alone)
  BY DEF EndTrace, IInv, Types, counted
<1>2. job[p].alone => \A k \in Problems : Findings(k) # {}
  BY <1>1 DEF Tracing
<1>3. Problems' = Problems /\ \A k : Findings(k)' = Findings(k)
  BY <1>1, NothingSaid
<1>4. Tracing' /\ Leaving'
  <2>1. IsCommand(Idle) /\ Idle.at \notin {"trace", "exit"}
    BY DEF IsCommand, Idle
  <2> QED
    BY <1>1, <2>1, OnlyOne
<1>5. Lasts'
  BY <1>1, NothingSaid
<1>6. Judged'
  <2>1. PICK u : u = verified
    OBVIOUS
  <2>2. JudgedAt(u)' <=> JudgedAt(u)
    BY <1>1, NothingSaid
  <2> QED
    BY <1>1, <2>1, <2>2 DEF Judged
<1>7. Answered'
  BY <1>1, <1>2, <1>3 DEF IInv, Answered
<1> QED
  BY <1>2, <1>3, <1>4, <1>5, <1>6, <1>7 DEF IInv

\* An exit begins where its contract is met.
LEMMA BeginExitKeeps ==
  ASSUME IInv, Types', NEW p \in Proc, BeginExit(p)
  PROVE  IInv'
<1>1. PICK b \in BOOLEAN : b = Quiet
  BY DEF Quiet
<1>2. PICK j : j = [at |-> "exit", next |-> After(phase), forced |-> FALSE, alone |-> b]
  OBVIOUS
<1>3. /\ LogOK /\ Lasts /\ JobsOK /\ family \in DOMAIN Prior
      /\ Step(p, j) /\ phase # "done" /\ Missing(phase) = {}
      /\ evs' = evs /\ family' = family /\ verified' = verified /\ traced' = traced
      /\ phase' = phase
  BY <1>1, <1>2 DEF BeginExit, Begin, IInv, Types, counted
<1>4. After(phase) \in {"ship", "done"}
  BY DEF After
<1>5. IsCommand(j) /\ j.at = "exit" /\ j.next = After(phase) /\ ~ j.forced
  BY <1>2, <1>4 DEF IsCommand
<1>6. phase = "verify" /\ family \in Built => JudgedAt(Len(evs))
  BY <1>3, VerifyAsks
<1>7. phase = "ship" => NothingOpen
  <2>1. family \in Every
    BY <1>3, RecordsAssumption
  <2> QED
    BY <1>3, <2>1, ShipAsks
<1>8. JudgedAt(Len(evs)) => JudgedAt(Len(evs))'
  <2>1. PICK u : u = Len(evs)
    OBVIOUS
  <2>2. JudgedAt(u)' <=> JudgedAt(u)
    BY <1>3, NothingSaid
  <2>3. u = Len(evs')
    BY <1>3, <2>1
  <2> QED
    BY <2>1, <2>2, <2>3
<1>9. NothingOpen' <=> NothingOpen
  BY <1>3, NothingSaid
<1>10. After(phase') = After(phase)
  BY <1>3
<1>11. Tracing' /\ Leaving'
  <2>1. j.at # "trace"
    BY <1>5
  <2> QED
    BY <1>3, <1>5, <1>6, <1>7, <1>8, <1>9, <1>10, <2>1, OnlyOne
<1> QED
  BY <1>3, <1>11, QuietKeeps DEF IInv

\* A forced exit asks for nothing and is one more thing to answer for.
LEMMA BeginForceKeeps ==
  ASSUME IInv, Types', NEW p \in Proc, BeginForce(p)
  PROVE  IInv'
<1>1. PICK b \in BOOLEAN : b = Quiet
  BY DEF Quiet
<1>2. PICK j : j = [at |-> "exit", next |-> After(phase), forced |-> TRUE, alone |-> b]
  OBVIOUS
<1>3. PICK e : e = ForceOf(phase)
  OBVIOUS
<1>4. /\ LogOK /\ Lasts /\ JobsOK /\ Judged /\ verified \in 0..Len(evs)
      /\ phase \in {"verify", "ship", "done"}
      /\ Step(p, j) /\ phase # "done"
      /\ family' = family /\ verified' = verified /\ traced' = FALSE /\ phase' = phase
  BY <1>1, <1>2 DEF BeginForce, Begin, IInv, Types
<1>5. Appends(e)
  BY <1>3, <1>4, ForceAppends
<1>6. e.of = 0 /\ e.kind = "phase"
  BY <1>3 DEF ForceOf, Event
<1>7. IsCommand(j) /\ j.at = "exit" /\ j.next = After(phase) /\ j.forced
  <2>1. After(phase) \in {"ship", "done"}
    BY DEF After
  <2> QED
    BY <1>2, <2>1 DEF IsCommand
<1>8. Tracing' /\ Leaving'
  <2>1. j.at # "trace" /\ After(phase') = After(phase)
    BY <1>4, <1>7
  <2> QED
    BY <1>4, <1>7, <2>1, OnlyOne
<1>9. Lasts'
  <2>1. Bound(Append(evs, e), Len(evs) + 1)
    BY <1>4, <1>6, OtherBinds
  <2> QED
    BY <1>4, <1>5, <1>6, <2>1, LastsOn DEF Appends
<1>10. Judged'
  <2>1. PICK u : u = verified
    OBVIOUS
  <2>2. JudgedAt(u) => JudgedAt(u)'
    BY <1>4, <1>5, <2>1, JudgedOn
  <2> QED
    BY <1>4, <2>1, <2>2 DEF Judged
<1>11. Answered'
  BY <1>4 DEF Answered
<1> QED
  BY <1>8, <1>9, <1>10, <1>11 DEF IInv

\* Verify left undisturbed was left judged.
LEMMA CommitExitKeeps ==
  ASSUME IInv, Types', NEW p \in Proc, CommitExit(p)
  PROVE  IInv'
<1>1. /\ JobsOK /\ Lasts /\ Leaving /\ Answered /\ Judged
      /\ job[p].at = "exit" /\ Step(p, Idle)
      /\ evs' = evs /\ family' = family /\ traced' = traced
      /\ verified' = IF phase = "verify"
                     THEN IF job[p].alone /\ ~ job[p].forced THEN Len(evs) ELSE 0
                     ELSE verified
  BY DEF CommitExit, IInv, Types, counted
<1>2. Tracing' /\ Leaving'
  <2>1. IsCommand(Idle) /\ Idle.at \notin {"trace", "exit"}
    BY DEF IsCommand, Idle
  <2> QED
    BY <1>1, <2>1, OnlyOne
<1>3. Lasts' /\ Answered'
  BY <1>1, NothingSaid DEF Answered
<1>4. Judged'
  <2>1. PICK u : u = verified'
    OBVIOUS
  <2>2. JudgedAt(u)' <=> JudgedAt(u)
    BY <1>1, NothingSaid
  <2> SUFFICES ASSUME u # 0, family \in Built
               PROVE  JudgedAt(u)
    BY <1>1, <2>1, <2>2 DEF Judged
  <2>3. CASE phase = "verify"
    <3>1. job[p].alone /\ ~ job[p].forced /\ u = Len(evs)
      BY <1>1, <2>1, <2>3
    <3> QED
      BY <1>1, <2>3, <3>1 DEF Leaving
  <2>4. CASE phase # "verify"
    BY <1>1, <2>1, <2>4 DEF Judged
  <2> QED
    BY <2>3, <2>4
<1> QED
  BY <1>2, <1>3, <1>4 DEF IInv

\* A command killed.
LEMMA KillKeeps ==
  ASSUME IInv, Types', NEW p \in Proc, Kill(p)
  PROVE  IInv'
<1>1. /\ JobsOK /\ Step(p, Idle)
      /\ evs' = evs /\ family' = family /\ verified' = verified /\ traced' = traced
  BY DEF Kill, IInv, Types
<1>2. IsCommand(Idle) /\ Idle.at \notin {"trace", "exit"}
  BY DEF IsCommand, Idle
<1>3. Tracing' /\ Leaving'
  BY <1>1, <1>2, OnlyOne
<1> QED
  BY <1>1, <1>3, QuietKeeps DEF IInv


\* A record made by hand is no approval and no finding.
LEMMA RecordKeeps ==
  ASSUME IInv, Types', NEW w \in Writes[family], Record(w)
  PROVE  IInv'
<1>1. PICK e : e = Event(w.kind, 0, w.auto, w.data)
  OBVIOUS
<1>2. LogOK /\ Lasts /\ family \in DOMAIN Prior
  BY DEF IInv, Types
<1>3. w.kind \notin {"phase", "approval", "trace-finding"}
  BY <1>2, RecordsAssumption
<1>4. e.of = 0 /\ e.kind = w.kind
  BY <1>1 DEF Event
<1>5. AtOnce(e) /\ traced' = FALSE
  BY <1>1 DEF Record
<1>6. Appends(e)
  BY <1>1, <1>2, RecordAppends
<1>7. Bound(Append(evs, e), Len(evs) + 1)
  BY <1>2, <1>3, <1>4, OtherBinds
<1>8. Lasts'
  BY <1>2, <1>4, <1>6, <1>7, LastsOn DEF Appends
<1> QED
  BY <1>5, <1>6, <1>8, WriteKeeps

\* An update renames nothing.
LEMMA UpdateKeeps ==
  ASSUME NothingRenamed, IInv, Types', NEW n \in DOMAIN evs, NEW w \in Updates[family],
         Update(n, w)
  PROVE  IInv'
<1>1. PICK r : r = ResolveRecordID(n)
  OBVIOUS
<1>2. PICK e : e = Event(w.kind, r, w.auto, w.data)
  OBVIOUS
<1>3. LogOK /\ Lasts /\ family \in DOMAIN Prior
  BY DEF IInv, Types
<1>4. e.of = r /\ e.kind = w.kind /\ e.data = w.data
  BY <1>2 DEF Event
<1>5. AtOnce(e) /\ traced' = (traced /\ w.kind = "trace-finding")
  BY <1>1, <1>2 DEF Update
<1>6. Appends(e) /\ r \in 1..Len(evs)
  BY <1>1, <1>2, <1>3, UpdateAppends
<1>7. r # 0
  BY <1>6
<1>8. Bound(Append(evs, e), Len(evs) + 1)
  BY <1>3, <1>4, <1>7, OtherBinds
<1>9. DOMAIN w.data \cap Lasting = {}
  BY <1>3 DEF NothingRenamed
<1>10. Lasts'
  BY <1>3, <1>4, <1>6, <1>8, <1>9, LastsOn DEF Appends
<1>11. traced' => traced /\ e.kind = "trace-finding"
  BY <1>4, <1>5
<1> QED
  BY <1>5, <1>6, <1>10, <1>11, WriteKeeps

\* An approval binds requirements there are.
LEMMA ApproveKeeps ==
  ASSUME IInv, Types', NEW gate \in Gate, Approve(gate)
  PROVE  IInv'
<1>1. PICK e : e = Event("approval", 0, FALSE, ApprovalOf(gate))
  OBVIOUS
<1>2. LogOK /\ Lasts
  BY DEF IInv, Types
<1>3. e.of = 0 /\ e.data = ApprovalOf(gate)
  BY <1>1 DEF Event
<1>4. AtOnce(e) /\ traced' = FALSE
  BY <1>1 DEF Approve, ApprovalOf
<1>5. Appends(e)
  BY <1>1, <1>2, ApproveAppends
<1>6. Bound(Append(evs, e), Len(evs) + 1)
  BY <1>2, <1>3, ApproveBinds
<1>7. Lasts'
  BY <1>2, <1>3, <1>5, <1>6, LastsOn DEF Appends
<1> QED
  BY <1>4, <1>5, <1>7, WriteKeeps

\* A file changes no record.
LEMMA AuthorKeeps ==
  ASSUME IInv, Types', NEW path, NEW ids, Author(path, ids)
  PROVE  IInv'
<1>1. /\ JobsOK /\ job' = [q \in Proc |-> Disturbed(job[q])]
      /\ evs' = evs /\ family' = family /\ verified' = verified /\ traced' = FALSE
  BY DEF Author, IInv, Types
<1>2. \A q \in Proc : job'[q].at \in {"trace", "exit"} => job'[q].alone = FALSE
  BY <1>1, JobsDisturbed
<1>3. Tracing' /\ Leaving'
  BY <1>2 DEF Tracing, Leaving
<1> QED
  BY <1>1, <1>3, QuietKeeps DEF IInv

-----------------------------------------------------------------------------
(* The invariant holds.                                                    *)

\* The log Verify is entered with is one, and no command has begun.
LEMMA InitTypes ==
  ASSUME Init
  PROVE  Types
<1>1. /\ family \in DOMAIN Prior /\ evs = Prior[family].evs /\ phase = "verify"
      /\ job = [p \in Proc |-> Idle] /\ moves = 0 /\ verified = 0
  BY DEF Init
<1>2. IsLog(evs) /\ \A n \in DOMAIN evs : WellFormed(evs, n)
  BY <1>1, RecordsAssumption DEF IsLog
<1>3. Len(evs) \in Nat /\ DOMAIN evs = 1..Len(evs)
  BY <1>2, Extended
<1>4. LogOK
  BY <1>2, <1>3 DEF LogOK
<1>5. JobsOK
  <2>1. \A p \in Proc : job[p] = Idle
    BY <1>1
  <2>2. job \in [Proc -> {job[p] : p \in Proc}]
    BY <1>1
  <2> QED
    BY <2>1, <2>2 DEF JobsOK, IsCommand
<1>6. traced \in BOOLEAN
  BY Zenon DEF Init
<1> QED
  BY <1>1, <1>3, <1>4, <1>5, <1>6 DEF Types

\* Nothing has been answered for or judged yet.
LEMMA InitHolds ==
  ASSUME Kept, Init
  PROVE  IInv
<1>1. /\ family \in DOMAIN Prior /\ evs = Prior[family].evs
      /\ job = [p \in Proc |-> Idle] /\ traced = FALSE /\ verified = 0
  BY DEF Init
<1>2. DOMAIN evs = 1..Len(evs)
  BY InitTypes, LogIs DEF Types
<1>3. Lasts
  BY <1>1, <1>2 DEF Kept, NothingRenamed, PriorBound, Lasts
<1>4. \A p \in Proc : job[p].at = "idle"
  BY <1>1 DEF Idle
<1>5. Tracing /\ Leaving
  BY <1>4 DEF Tracing, Leaving
<1>6. Answered /\ Judged
  BY <1>1 DEF Answered, Judged
<1> QED
  BY <1>3, <1>5, <1>6, InitTypes DEF IInv

\* And no step breaks it.
LEMMA StepHolds ==
  ASSUME Kept, IInv, [Next]_vars
  PROVE  IInv'
<1>1. Types'
  BY StepTypes DEF IInv
<1>2. CASE UNCHANGED vars
  <2>1. job' = job /\ phase' = phase /\ Len(evs') = Len(evs)
    BY <1>2 DEF vars
  <2>2. Lasts' /\ Answered' /\ Judged'
    BY <1>2, QuietKeeps DEF vars
  <2>3. Tracing'
    BY <1>2, <2>1, NothingSaid DEF IInv, Tracing, vars
  <2>4. PICK u : u = Len(evs)
    OBVIOUS
  <2>5. JudgedAt(u)' <=> JudgedAt(u)
    BY <1>2, NothingSaid DEF vars
  <2>6. NothingOpen' <=> NothingOpen
    BY <1>2, NothingSaid DEF vars
  <2>7. Leaving'
    BY <1>2, <2>1, <2>4, <2>5, <2>6 DEF IInv, Leaving, After, vars
  <2> QED
    BY <1>1, <2>2, <2>3, <2>7 DEF IInv
<1>3. ASSUME NEW w \in Writes[family], Record(w)
      PROVE  IInv'
  BY <1>1, <1>3, RecordKeeps
<1>4. ASSUME NEW n \in DOMAIN evs, NEW w \in Updates[family], Update(n, w)
      PROVE  IInv'
  BY <1>1, <1>4, UpdateKeeps DEF Kept
<1>5. ASSUME NEW gate \in Gate, Approve(gate)
      PROVE  IInv'
  BY <1>1, <1>5, ApproveKeeps
<1>6. ASSUME NEW path, NEW ids, Author(path, ids)
      PROVE  IInv'
  BY <1>1, <1>6, AuthorKeeps
<1>7. ASSUME NEW p \in Proc,
             \/ BeginTrace(p) \/ TraceOne(p) \/ EndTrace(p)
             \/ BeginExit(p) \/ BeginForce(p) \/ CommitExit(p) \/ Kill(p)
      PROVE  IInv'
  BY <1>1, <1>7, BeginTraceKeeps, TraceOneKeeps, EndTraceKeeps, BeginExitKeeps,
     BeginForceKeeps, CommitExitKeeps, KillKeeps
<1> QED
  BY <1>2, <1>3, <1>4, <1>5, <1>6, <1>7 DEF Next

\* A process that stays undisturbed is the one that acts, on what it has
\* begun.
LEMMA AloneActs ==
  ASSUME Types, Next, NEW p \in Proc, Alone(p)
  PROVE  TraceOne(p) \/ EndTrace(p) \/ CommitExit(p) \/ Kill(p)
<1>1. JobsOK /\ job[p] # Idle /\ (job'[p] = Idle \/ job'[p].alone)
  BY DEF Types, Alone
<1>2. ~ (job'[p] # Idle /\ job'[p].alone = FALSE)
  BY <1>1
<1>3. job' # [q \in Proc |-> Disturbed(job[q])]
  BY <1>1, <1>2, JobsDisturbed
<1>4. ~ \E w \in Writes[family] : Record(w)
  BY <1>3 DEF Record, AtOnce
<1>5. ~ \E n \in DOMAIN evs, w \in Updates[family] : Update(n, w)
  BY <1>3 DEF Update, AtOnce
<1>6. ~ \E gate \in Gate : Approve(gate)
  BY <1>3 DEF Approve, AtOnce
<1>7. \A path, ids : ~ Author(path, ids)
  BY <1>3 DEF Author
<1>8. PICK q \in Proc :
        \/ BeginTrace(q) \/ TraceOne(q) \/ EndTrace(q)
        \/ BeginExit(q) \/ BeginForce(q) \/ CommitExit(q) \/ Kill(q)
  BY <1>4, <1>5, <1>6, <1>7 DEF Next
<1>9. PICK j : Step(q, j)
  BY <1>8 DEF BeginTrace, TraceOne, EndTrace, BeginExit, BeginForce, CommitExit, Kill, Begin
<1>10. q # p => job'[p] # Idle /\ job'[p].alone = FALSE
  <2>1. q # p => job'[p] = Disturbed(job[p])
    BY <1>9 DEF Step
  <2>2. PICK j1 : j1 = job[p]
    OBVIOUS
  <2>3. IsCommand(j1) /\ j1 # Idle
    BY <1>1, <2>2 DEF JobsOK
  <2>4. Disturbed(j1) # Idle /\ Disturbed(j1).alone = FALSE
    BY <2>3, DisturbedIs
  <2> QED
    BY <2>1, <2>2, <2>4
<1>11. q = p
  BY <1>2, <1>10
<1>12. ~ BeginTrace(p) /\ ~ BeginExit(p) /\ ~ BeginForce(p)
  BY <1>1 DEF BeginTrace, BeginExit, BeginForce, Begin
<1> QED
  BY <1>8, <1>11, <1>12

-----------------------------------------------------------------------------
(* Theorems.                                                               *)

\* Every log stays one a run can have, an update being of an earlier record
\* that is not an update itself (Ctl.Record), and every command one there is.
THEOREM CloseOutTypeCorrect == Spec => []TypeOK
<1>1. Init => Types
  BY InitTypes
<1>2. Types => TypeOK
  <2> SUFFICES ASSUME Types
               PROVE  TypeOK
    OBVIOUS
  <2>1. \A n \in DOMAIN evs : evs[n].of # 0 => evs[n].of < n /\ evs[evs[n].of].of = 0
    BY LogIs DEF Types, LogOK, WellFormed
  <2>2. \A p \in Proc : job[p].at \in {"idle", "trace", "exit"}
    BY DEF Types, JobsOK, IsCommand, Idle
  <2> QED
    BY <2>1, <2>2 DEF Types, TypeOK
<1> QED
  BY <1>1, <1>2, StepTypes, PTL DEF Spec

\* What the callers keep to, a trace nothing disturbs answers for everything
\* (views.Trace), whatever was killed or overlapped before it.
THEOREM TracesAnswer ==
  ASSUME Kept
  PROVE  Spec => TraceAnswers
<1>1. ASSUME IInv, Next, NEW p \in Proc, job[p].at = "trace", Alone(p)
      PROVE  /\ job'[p] = Idle /\ moves' = moves => \A k \in Problems' : Findings(k)' # {}
             /\ evs' # evs => Findings(evs'[Len(evs')].data.key) = {}
  <2>1. Types' /\ job[p].alone
    BY <1>1, StepTypes DEF IInv, Alone
  <2>2. TraceOne(p) \/ EndTrace(p) \/ Kill(p)
    BY <1>1, AloneActs DEF IInv, CommitExit
  <2>3. CASE TraceOne(p)
    <3>1. PICK k : k = FirstOf(job[p].todo)
      OBVIOUS
    <3>2. Findings(k) = {} /\ Appends(FindingOf(k)) /\ LogOK
      BY <1>1, <2>1, <2>3, <3>1, TraceOneKeeps, TraceAppends DEF IInv, Types
    <3>3. evs'[Len(evs')] = FindingOf(k)
      BY <3>2, LogGrows DEF Appends
    <3>4. FindingOf(k).data.key = k
      BY DEF FindingOf, Event
    <3>5. job'[p] # Idle
      <4>1. job'[p] = [job[p] EXCEPT !.todo = @ \ {FirstOf(job[p].todo)}]
        BY <2>3 DEF TraceOne, Step
      <4>2. PICK J, rest : J = job[p] /\ rest = J.todo \ {FirstOf(J.todo)}
        OBVIOUS
      <4>3. IsCommand(J) /\ J.at = "trace"
        BY <1>1, <4>2 DEF IInv, Types, JobsOK
      <4>4. "todo" \in DOMAIN J
        BY <4>3 DEF IsCommand, Idle
      <4>5. job'[p] = [J EXCEPT !.todo = rest]
        BY <4>1, <4>2
      <4> QED
        BY <4>4, <4>5 DEF Idle
    <3> QED
      BY <3>2, <3>3, <3>4, <3>5
  <2>4. CASE EndTrace(p)
    <3>1. evs' = evs
      BY <2>4 DEF EndTrace
    <3> QED
      BY <1>1, <2>1, <2>4, <3>1, EndTraceKeeps
  <2>5. CASE Kill(p)
    <3>1. evs' = evs /\ moves' = moves + 1 /\ moves \in Nat
      BY <1>1, <2>5 DEF Kill, Move, IInv, Types
    <3>2. moves' # moves
      BY <3>1
    <3> QED
      BY <3>1, <3>2
  <2> QED
    BY <2>2, <2>3, <2>4, <2>5
<1>2. IInv /\ [Next]_vars => [\A p \in Proc :
        job[p].at = "trace" /\ Alone(p) =>
          /\ job'[p] = Idle /\ moves' = moves => \A k \in Problems' : Findings(k)' # {}
          /\ evs' # evs => Findings(evs'[Len(evs')].data.key) = {}]_vars
  BY <1>1
<1>3. Init => IInv
  BY InitHolds
<1>4. IInv /\ [Next]_vars => IInv'
  BY StepHolds
<1> QED
  BY <1>2, <1>3, <1>4, PTL DEF Spec, TraceAnswers

\* The undisturbed exit of Ship is made from Ship, its contract met.
LEMMA ShipIsLeft ==
  ASSUME IInv, Next, NEW p \in Proc, job[p].at = "exit", Alone(p), phase' = "done",
         ~ job[p].forced
  PROVE  NothingOpen
<1>1. job[p].alone /\ phase # "done" /\ job[p].next = After(phase)
  BY DEF Alone, IInv, Leaving
<1>2. CommitExit(p) \/ Kill(p)
  BY AloneActs DEF IInv, TraceOne, EndTrace
<1>3. CommitExit(p)
  BY <1>1, <1>2 DEF Kill
<1>4. After(phase) = "done"
  BY <1>1, <1>3 DEF CommitExit
<1>5. phase = "ship"
  BY <1>1, <1>4 DEF After, IInv, Types
<1> QED
  BY <1>1, <1>5 DEF IInv, Leaving

\* So a close-out that was not forced leaves nothing unanswered: what it has
\* to answer for has a finding and none is open (ship.trace-clean).
THEOREM CleanIsAnswered ==
  ASSUME Kept
  PROVE  Spec => CleanMeansAnswered
<1>1. ASSUME IInv, Next, NEW p \in Proc, job[p].at = "exit", Alone(p), phase' = "done",
             ~ job[p].forced, traced
      PROVE  \A k \in Problems :
               Findings(k) # {} /\ \A n \in Findings(k) : ~ Now(n, "status", "open")
  <2>1. NothingOpen
    BY <1>1, ShipIsLeft
  <2>2. \A k \in Problems : Findings(k) # {}
    BY <1>1 DEF IInv, Answered
  <2> QED
    BY <2>1, <2>2 DEF NothingOpen, Findings
<1>2. IInv /\ [Next]_vars => [\A p \in Proc :
        /\ job[p].at = "exit" /\ Alone(p) /\ phase' = "done"
        /\ ~ job[p].forced /\ traced
        => \A k \in Problems :
             Findings(k) # {} /\ \A n \in Findings(k) : ~ Now(n, "status", "open")]_vars
  BY <1>1
<1>3. Init => IInv
  BY InitHolds
<1>4. IInv /\ [Next]_vars => IInv'
  BY StepHolds
<1> QED
  BY <1>2, <1>3, <1>4, PTL DEF Spec, CleanMeansAnswered

\* And what it ships was verified, or came later and is agreed or answered
\* for (verify.ac-verdicts, verify.no-failing-acs, the drift of the trace).
THEOREM ShippingIsVerified ==
  ASSUME Kept
  PROVE  Spec => ShippedIsVerified
<1> DEFINE Fine(r, ac) ==
             \/ LET V == {v \in Created("ac-verdict") : v <= verified /\ evs[v].data.ac = ac}
                IN  V # {} /\ \A v \in V : ~ Stands(evs, v, "status", "fail", verified)
             \/ /\ r > verified
                /\ \/ ~ Drifted(r)
                   \/ \E n \in Findings(<<"drift", <<"scope", <<"req", evs[r].data.rid>>>>>>) :
                        ~ Now(n, "status", "open")
<1>1. ASSUME IInv, Next, NEW p \in Proc, job[p].at = "exit", Alone(p), phase' = "done",
             ~ job[p].forced, traced, verified # 0, family \in Built,
             NEW r \in Created("requirement"), NEW ac \in evs[r].data.acs
      PROVE  Fine(r, ac)
  <2>1. JudgedAt(verified)
    BY <1>1 DEF IInv, Judged
  <2>2. CASE r <= verified
    <3>1. /\ VerdictsOf(ac, verified) # {}
          /\ \A v \in VerdictsOf(ac, verified) : ~ Stands(evs, v, "status", "fail", verified)
      BY <1>1, <2>1, <2>2 DEF JudgedAt
    <3> QED
      BY <3>1 DEF VerdictsOf
  <2>3. CASE ~ (r <= verified)
    <3>1. r \in Nat /\ verified \in Nat
      BY <1>1, LogIs DEF IInv, Types, Created
    <3>2. r > verified
      BY <2>3, <3>1
    <3>3. Drifted(r) =>
            \E n \in Findings(<<"drift", <<"scope", <<"req", evs[r].data.rid>>>>>>) :
              ~ Now(n, "status", "open")
      <4> SUFFICES ASSUME Drifted(r)
                   PROVE  \E n \in Findings(<<"drift", <<"scope", <<"req", evs[r].data.rid>>>>>>) :
                            ~ Now(n, "status", "open")
        OBVIOUS
      <4>1. PICK k : k = <<"drift", <<"scope", <<"req", evs[r].data.rid>>>>>>
        OBVIOUS
      <4>2. k \in Problems
        BY <1>1, <4>1 DEF Problems
      <4>3. PICK n : n \in Findings(k)
        BY <1>1, <4>2 DEF IInv, Answered
      <4>4. NothingOpen
        BY <1>1, ShipIsLeft
      <4> QED
        BY <4>1, <4>3, <4>4 DEF NothingOpen, Findings
    <3> QED
      BY <3>2, <3>3
  <2> QED
    BY <2>2, <2>3
<1>2. IInv /\ [Next]_vars => [\A p \in Proc :
        /\ job[p].at = "exit" /\ Alone(p) /\ phase' = "done"
        /\ ~ job[p].forced /\ traced /\ verified # 0 /\ family \in Built
        => \A r \in Created("requirement") : \A ac \in evs[r].data.acs : Fine(r, ac)]_vars
  <2> HIDE DEF Fine
  <2> QED
    BY <1>1
<1>3. Init => IInv
  BY InitHolds
<1>4. IInv /\ [Next]_vars => IInv'
  BY StepHolds
<1> QED
  BY <1>2, <1>3, <1>4, PTL DEF Spec, ShippedIsVerified


=============================================================================
