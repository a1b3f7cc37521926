---------------------------- MODULE Ledger_proofs ----------------------------
(***************************************************************************)
(* Proofs about Ledger: the types of the log, whoever writes; then what a  *)
(* single writer, killed any number of times at any point, can and cannot  *)
(* do to it.                                                               *)
(***************************************************************************)
EXTENDS Ledger, FiniteSetTheorems, SequenceTheorems, TLAPS

-----------------------------------------------------------------------------
(* The inductive invariant.                                                *)

\* Two lines, or a line and an event, that carry the same number are one event.
Same(x, y) == x.ev = y.ev => x.run = y.run /\ x.kind = y.kind

\* Numbers are given out once, and the log says of an event what was
\* acknowledged of it.
EventsNumbered ==
  /\ \A n \in DOMAIN lines : lines[n].ev <= events
  /\ \A e \in acked : e.ev <= events
  /\ \A n \in DOMAIN lines, e \in acked : Same(lines[n], e)

\* About to write: to the file the name still leads to, which ends in a whole
\* newline, after the line whose hash was read, with a number nobody has.
ReadyToWrite(j) ==
  /\ j.fd = inode
  /\ j.ev = events
  /\ j.prev = TailHash(lines)
  /\ lines # <<>> => Last(lines).ended
  /\ \A n \in DOMAIN lines : lines[n].ev < j.ev
  /\ \A e \in acked : e.ev < j.ev

\* The split of the log: every readable line is in the half it belongs to, and
\* what is to stay was in the log.
Split(j) ==
  /\ \A n \in Parsed(lines) :
       IF Mine(lines[n], j.run)
       THEN \E m \in DOMAIN j.mine : j.mine[m].ev = lines[n].ev
       ELSE \E m \in DOMAIN j.rest : j.rest[m].ev = lines[n].ev
  /\ \A m \in DOMAIN j.rest : \E n \in DOMAIN lines :
       /\ j.rest[m].ev = lines[n].ev
       /\ j.rest[m].run = lines[n].run /\ j.rest[m].kind = lines[n].kind

JobFits(j) ==
  /\ j.at = "write" => ReadyToWrite(j)
  /\ j.at \in {"archive", "verify", "compact"} => Split(j)
  /\ j.at \in {"verify", "compact"} => archive[j.run] = Rewritten(j.mine)

LInv ==
  /\ TypeOK
  /\ ChainIntact
  /\ EventsNumbered
  /\ FollowupsStayLive
  /\ \A p \in Proc : JobFits(job[p])

-----------------------------------------------------------------------------
(* The operators on lines.                                                 *)

\* A function on 1..n is a sequence.
LEMMA FunctionIsSeq ==
  ASSUME NEW S, NEW n \in Nat, NEW f \in [1..n -> S]
  PROVE  f \in Seq(S) /\ Len(f) = n /\ DOMAIN f = 1..n
<1>1. f \in Seq(S)
  BY SeqDef
<1>2. DOMAIN f = 1..n /\ DOMAIN f = 1..Len(f) /\ Len(f) \in Nat
  BY <1>1, LenProperties
<1> QED
  BY <1>1, <1>2

\* Each member of a finite set of numbers has a rank, and each rank a member.
LEMMA NthIsOnto ==
  ASSUME NEW N \in Nat, NEW K, K \subseteq 1..N
  PROVE  /\ Cardinality(K) \in Nat
         /\ \A n \in 1..Cardinality(K) : Nth(K, n) \in K
         /\ \A k \in K : \E n \in 1..Cardinality(K) : Nth(K, n) = k
<1> DEFINE Upto(k) == {j \in K : j <= k}
           rank == [k \in K |-> Cardinality(Upto(k))]
           C == Cardinality(K)
<1>1. IsFiniteSet(K) /\ C \in Nat
  <2>1. IsFiniteSet(1..N)
    BY FS_Interval
  <2>2. IsFiniteSet(K)
    BY <2>1, FS_Subset
  <2> QED
    BY <2>2, FS_CardinalityType
<1>2. ASSUME NEW k \in K
      PROVE  /\ IsFiniteSet(Upto(k)) /\ rank[k] \in 1..C
             /\ rank[k] = Cardinality(Upto(k))
  <2>1. IsFiniteSet(Upto(k)) /\ Cardinality(Upto(k)) <= C
    BY <1>1, FS_Subset
  <2>2. Cardinality(Upto(k)) \in Nat /\ k \in Upto(k)
    BY <2>1, FS_CardinalityType
  <2>3. Cardinality(Upto(k)) # 0
    BY <2>1, <2>2, FS_EmptySet
  <2> QED
    BY <1>1, <2>1, <2>2, <2>3
<1>3. ASSUME NEW j \in K, NEW k \in K, j < k
      PROVE  rank[j] # rank[k]
  <2>1. Upto(j) \subseteq Upto(k) /\ k \in Upto(k) /\ k \notin Upto(j)
    <3>1. j \in Nat /\ k \in Nat /\ \A i \in K : i \in Nat
      OBVIOUS
    <3>2. \A i \in K : i <= j => i <= k
      BY <1>3, <3>1
    <3>3. k <= k /\ ~ (k <= j)
      BY <1>3, <3>1
    <3> QED
      BY <3>2, <3>3
  <2>2. Cardinality(Upto(j)) # Cardinality(Upto(k))
    BY <1>2, <2>1, FS_Subset
  <2> QED
    BY <1>2, <2>2
<1>4. \A j, k \in K : rank[j] = rank[k] => j = k
  BY <1>3
<1>5. rank \in [K -> 1..C]
  BY <1>2
<1>6. rank \in Injection(K, 1..C)
  BY <1>4, <1>5 DEF Injection, IsInjective
<1>7. IsFiniteSet(1..C) /\ Cardinality(1..C) = C
  BY <1>1, FS_Interval
<1>8. rank \in Surjection(K, 1..C)
  BY <1>6, <1>7, FS_Injection
<1>9. \A n \in 1..C : \E k \in K : rank[k] = n
  BY <1>8 DEF Surjection
<1>10. \A k \in K : rank[k] = Cardinality({j \in K : j <= k})
  BY <1>2
<1> HIDE DEF rank
<1>11. ASSUME NEW n \in 1..C
       PROVE  Nth(K, n) \in K /\ rank[Nth(K, n)] = n
  <2>1. \E k \in K : Cardinality({j \in K : j <= k}) = n
    BY <1>9, <1>10
  <2> QED
    BY <1>10, <2>1 DEF Nth
<1>12. ASSUME NEW k \in K
       PROVE  \E n \in 1..C : Nth(K, n) = k
  BY <1>2, <1>4, <1>11
<1> QED
  BY <1>1, <1>11, <1>12

\* Kept keeps the lines at the positions it is given, and no others.
LEMMA KeptIsPart ==
  ASSUME NEW S, NEW ls \in Seq(S), NEW K, K \subseteq DOMAIN ls
  PROVE  /\ Kept(ls, K) \in Seq(S)
         /\ \A n \in DOMAIN Kept(ls, K) : \E k \in K : Kept(ls, K)[n] = ls[k]
         /\ \A k \in K : \E n \in DOMAIN Kept(ls, K) : Kept(ls, K)[n] = ls[k]
<1>1. DOMAIN ls = 1..Len(ls) /\ Len(ls) \in Nat /\ \A n \in DOMAIN ls : ls[n] \in S
  BY LenProperties
<1>2. /\ Cardinality(K) \in Nat
      /\ \A n \in 1..Cardinality(K) : Nth(K, n) \in K
      /\ \A k \in K : \E n \in 1..Cardinality(K) : Nth(K, n) = k
  BY <1>1, NthIsOnto
<1>3. Kept(ls, K) \in [1..Cardinality(K) -> S]
  BY <1>1, <1>2 DEF Kept
<1>4. Kept(ls, K) \in Seq(S) /\ DOMAIN Kept(ls, K) = 1..Cardinality(K)
  BY <1>2, <1>3, FunctionIsSeq
<1>5. \A n \in 1..Cardinality(K) : Kept(ls, K)[n] = ls[Nth(K, n)]
  BY DEF Kept
<1> QED
  BY <1>2, <1>4, <1>5

\* Two logs that differ in nothing but where their last line ends.
Alike(ls, ms) ==
  /\ DOMAIN ms = DOMAIN ls
  /\ \A n \in DOMAIN ls :
       /\ ms[n].ev = ls[n].ev /\ ms[n].run = ls[n].run /\ ms[n].kind = ls[n].kind
       /\ ms[n].whole = ls[n].whole /\ ms[n].prev = ls[n].prev

\* Healing a log changes nothing it says and ends its last line.
LEMMA HealedIsAlike ==
  ASSUME NEW ls \in Seq(LineType)
  PROVE  /\ Healed(ls) \in Seq(LineType)
         /\ Alike(ls, Healed(ls))
         /\ Healed(ls) = <<>> <=> ls = <<>>
         /\ Healed(ls) # <<>> => Last(Healed(ls)).ended
         /\ TailHash(Healed(ls)) = TailHash(ls)
<1>1. /\ DOMAIN ls = 1..Len(ls) /\ Len(ls) \in Nat
      /\ \A n \in DOMAIN ls : ls[n] \in LineType
  BY LenProperties
<1>2. CASE ls = <<>>
  BY <1>2 DEF Healed, Alike
<1>3. CASE ls # <<>>
  <2> DEFINE N == Len(ls)
             l == [ls[N] EXCEPT !.ended = TRUE]
             hs == [ls EXCEPT ![N] = l]
  <2>1. N \in 1..Len(ls) /\ N \in DOMAIN ls
    BY <1>1, <1>3, EmptySeq
  <2>2. /\ l \in LineType /\ l.ended
        /\ l.ev = ls[N].ev /\ l.run = ls[N].run /\ l.kind = ls[N].kind
        /\ l.whole = ls[N].whole /\ l.prev = ls[N].prev
    BY <1>1, <2>1 DEF LineType
  <2>3. Healed(ls) = hs
    BY <1>3 DEF Healed
  <2> HIDE DEF l
  <2>4. /\ hs \in Seq(LineType) /\ Len(hs) = N
        /\ \A n \in 1..N : hs[n] = IF n = N THEN l ELSE ls[n]
    BY <2>1, <2>2, ExceptSeq
  <2>5. DOMAIN hs = DOMAIN ls
    OBVIOUS
  <2> HIDE DEF hs
  <2>6. Last(hs) = l /\ Last(ls) = ls[N]
    BY <2>1, <2>4 DEF Last
  <2>7. hs # <<>>
    BY <2>1, <2>4, EmptySeq
  <2>8. Alike(ls, hs)
    BY <1>1, <2>2, <2>4, <2>5 DEF Alike
  <2>9. TailHash(hs) = TailHash(ls)
    BY <1>3, <2>2, <2>6, <2>7 DEF TailHash, Hash
  <2> QED
    BY <1>3, <2>2, <2>3, <2>4, <2>6, <2>7, <2>8, <2>9
<1> QED
  BY <1>2, <1>3

\* Nothing breaks in a log whose lines say the same.
LEMMA AlikeBreaks ==
  ASSUME NEW ls \in Seq(LineType), NEW ms, Alike(ls, ms),
         \A n \in DOMAIN ls : ~ Break(ls, n)
  PROVE  \A n \in DOMAIN ms : ~ Break(ms, n)
<1>1. DOMAIN ls = 1..Len(ls) /\ Len(ls) \in Nat
  BY LenProperties
<1> SUFFICES ASSUME NEW n \in DOMAIN ms
             PROVE  ~ Break(ms, n)
  OBVIOUS
<1>2. ~ Break(ls, n) /\ n \in 1..Len(ls)
  BY <1>1 DEF Alike
<1>3. \A m \in 1..(n - 1) : m \in DOMAIN ls
  BY <1>1, <1>2
<1>4. n # 1 => n - 1 \in DOMAIN ls
  BY <1>1, <1>2
<1>5. n # 1 => Hash(ms[n - 1]) = Hash(ls[n - 1])
  BY <1>4 DEF Alike, Hash
<1> QED
  BY <1>1, <1>2, <1>3, <1>5 DEF Alike, Break

\* A line chained to the last one breaks nothing.
LEMMA AppendBreaks ==
  ASSUME NEW ls \in Seq(LineType), NEW l \in LineType, l.prev = TailHash(ls),
         \A n \in DOMAIN ls : ~ Break(ls, n)
  PROVE  \A n \in DOMAIN Append(ls, l) : ~ Break(Append(ls, l), n)
<1> DEFINE ms == Append(ls, l)
           N == Len(ls)
<1>1. /\ DOMAIN ls = 1..N /\ N \in Nat
      /\ \A n \in DOMAIN ls : ls[n] \in LineType
  BY LenProperties
<1>2. /\ ms \in Seq(LineType) /\ Len(ms) = N + 1
      /\ \A n \in 1..N : ms[n] = ls[n]
      /\ ms[N + 1] = l
  BY AppendProperties
<1>3. DOMAIN ms = 1..(N + 1)
  BY <1>2, LenProperties
<1> HIDE DEF ms
<1>4. ASSUME NEW n \in 1..N
      PROVE  ~ Break(ms, n)
  <2>1. ~ Break(ls, n) /\ ms[n] = ls[n]
    BY <1>1, <1>2
  <2>2. \A m \in 1..(n - 1) : ms[m] = ls[m]
    BY <1>1, <1>2
  <2>3. n # 1 => ms[n - 1] = ls[n - 1]
    BY <1>1, <1>2
  <2> QED
    BY <2>1, <2>2, <2>3 DEF Break
<1>5. ~ Break(ms, N + 1)
  <2>1. CASE N = 0
    <3>1. ls = <<>>
      BY <2>1, EmptySeq
    <3> QED
      BY <1>2, <2>1, <3>1 DEF Break, TailHash
  <2>2. CASE N # 0
    <3>1. ls # <<>> /\ Last(ls) = ls[N] /\ N \in 1..N
      BY <1>1, <2>2, EmptySeq DEF Last
    <3>2. l.prev = Hash(ms[N]) /\ (N + 1) - 1 = N
      BY <1>1, <1>2, <3>1 DEF TailHash
    <3>3. Hash(ls[N]) # <<>>
      <4> DEFINE T == (1..MaxEvents) \X BOOLEAN
                 x == <<ls[N].ev, ls[N].whole>>
      <4>1. ls[N].prev \in Seq(T) /\ x \in T
        BY <1>1, <3>1 DEF LineType, HashType
      <4>2. Hash(ls[N]) = Append(ls[N].prev, x)
        BY DEF Hash
      <4> HIDE DEF T, x
      <4> QED
        BY <4>1, <4>2, AppendProperties
    <3> QED
      BY <1>1, <1>2, <2>2, <3>1, <3>2, <3>3 DEF Break, NoHash
  <2> QED
    BY <2>1, <2>2
<1> QED
  BY <1>1, <1>3, <1>4, <1>5 DEF ms

\* A rewritten log says what the lines said, and its chain is whole.
LEMMA RewrittenIsWhole ==
  ASSUME NEW ls \in Seq(LineType)
  PROVE  /\ Rewritten(ls) \in Seq(LineType)
         /\ DOMAIN Rewritten(ls) = DOMAIN ls
         /\ \A n \in DOMAIN ls :
              LET l == Rewritten(ls)[n]
              IN  /\ l.ev = ls[n].ev /\ l.run = ls[n].run /\ l.kind = ls[n].kind
                  /\ l.whole
         /\ \A n \in DOMAIN ls : ~ Break(Rewritten(ls), n)
<1> DEFINE N == Len(ls)
           chain(n) == [m \in 1..(n - 1) |-> <<ls[m].ev, TRUE>>]
           rs == Rewritten(ls)
<1>1. /\ DOMAIN ls = 1..N /\ N \in Nat
      /\ \A n \in 1..N : ls[n] \in LineType
  BY LenProperties
<1>2. ASSUME NEW n \in 1..N
      PROVE  chain(n) \in HashType /\ Len(chain(n)) = n - 1
  <2> DEFINE T == (1..MaxEvents) \X BOOLEAN
  <2>1. n - 1 \in Nat /\ HashType = Seq(T)
    BY <1>1 DEF HashType
  <2>2. \A m \in 1..(n - 1) : <<ls[m].ev, TRUE>> \in T
    <3> TAKE m \in 1..(n - 1)
    <3>1. ls[m] \in LineType
      BY <1>1
    <3> QED
      BY <3>1 DEF LineType
  <2> HIDE DEF T
  <2>3. chain(n) \in [1..(n - 1) -> T]
    BY <2>2
  <2> QED
    BY <2>1, <2>3, FunctionIsSeq
<1>3. rs = [n \in 1..N |-> Line(ls[n], chain(n), TRUE, TRUE)]
  BY <1>1 DEF Rewritten
<1> HIDE DEF chain, rs
<1>4. ASSUME NEW n \in 1..N
      PROVE  /\ rs[n] \in LineType
             /\ rs[n].ev = ls[n].ev /\ rs[n].run = ls[n].run
             /\ rs[n].kind = ls[n].kind /\ rs[n].whole = TRUE
             /\ rs[n].prev = chain(n)
  <2>1. rs[n] = Line(ls[n], chain(n), TRUE, TRUE) /\ ls[n] \in LineType
    BY <1>1, <1>3
  <2> QED
    BY <1>2, <2>1 DEF Line, LineType
<1>5. rs \in Seq(LineType) /\ DOMAIN rs = 1..N
  BY <1>1, <1>3, <1>4, FunctionIsSeq
<1>6. ASSUME NEW n \in 1..N, n # 1
      PROVE  chain(n) = Hash(rs[n - 1])
  <2>1. n - 1 \in 1..N
    BY <1>1, <1>6
  <2> DEFINE T == (1..MaxEvents) \X BOOLEAN
             x == <<ls[n - 1].ev, TRUE>>
             h == Append(chain(n - 1), x)
  <2>2. Hash(rs[n - 1]) = h
    BY <1>4, <2>1 DEF Hash
  <2>3. chain(n - 1) \in Seq(T) /\ x \in T /\ Len(chain(n - 1)) = n - 2
    <3>1. ls[n - 1] \in LineType /\ chain(n - 1) \in HashType
      BY <1>1, <1>2, <2>1
    <3>2. Len(chain(n - 1)) = n - 2
      BY <1>1, <1>2, <2>1
    <3> QED
      BY <3>1, <3>2 DEF HashType, LineType
  <2> HIDE DEF x, T
  <2>4. /\ h \in Seq(T) /\ Len(h) = n - 1
        /\ \A i \in 1..(n - 2) : h[i] = chain(n - 1)[i]
        /\ h[n - 1] = x
    BY <1>1, <2>3, AppendProperties
  <2>5. chain(n) \in Seq(T) /\ Len(chain(n)) = n - 1
    BY <1>2 DEF HashType, T
  <2>6. \A i \in 1..(n - 1) : chain(n)[i] = h[i]
    <3> TAKE i \in 1..(n - 1)
    <3>1. chain(n)[i] = <<ls[i].ev, TRUE>>
      BY DEF chain
    <3>2. CASE i = n - 1
      BY <2>4, <3>1, <3>2 DEF x
    <3>3. CASE i # n - 1
      <4>1. i \in 1..(n - 2) /\ i \in 1..((n - 1) - 1)
        BY <1>1, <3>3
      <4>2. chain(n - 1)[i] = <<ls[i].ev, TRUE>>
        BY <4>1 DEF chain
      <4> QED
        BY <2>4, <3>1, <4>1, <4>2
    <3> QED
      BY <3>2, <3>3
  <2> HIDE DEF h
  <2>7. chain(n) = h
    BY <2>4, <2>5, <2>6, SeqEqual
  <2> QED
    BY <2>2, <2>7
<1>7. ASSUME NEW n \in 1..N
      PROVE  ~ Break(rs, n)
  <2>1. CASE n = 1
    <3>0. rs[n].prev = chain(n) /\ chain(n) \in HashType /\ Len(chain(n)) = n - 1
      BY <1>2, <1>4
    <3>1. rs[n].prev \in HashType /\ Len(rs[n].prev) = 0
      <4>1. n - 1 = 0
        BY <2>1
      <4> QED
        BY <3>0, <4>1
    <3>2. rs[n].prev = NoHash
      BY <3>1, EmptySeq DEF HashType, NoHash
    <3>3. \A m \in 1..(n - 1) : FALSE
      BY <2>1
    <3> QED
      BY <3>2, <3>3 DEF Break
  <2>2. CASE n # 1
    <3>1. rs[n].prev = Hash(rs[n - 1]) /\ Len(rs[n].prev) = n - 1
      BY <1>2, <1>4, <1>6, <2>2
    <3>2. rs[n].prev # NoHash
      BY <1>1, <2>2, <3>1, EmptySeq DEF NoHash
    <3> QED
      BY <2>2, <3>1, <3>2 DEF Break
  <2> QED
    BY <2>1, <2>2
<1> QED
  BY <1>1, <1>4, <1>5, <1>7 DEF rs

-----------------------------------------------------------------------------
(* Commands and what they read.                                            *)

\* The fields a job has where it is.
LEMMA JobFields ==
  ASSUME NEW j \in Job
  PROVE  /\ j.at \in {"idle", "open", "write", "save", "scan",
                      "archive", "verify", "compact", "clear"}
         /\ j.at # "idle" => j.run \in Run
         /\ j.at \in {"open", "write"} =>
              j.cmd \in {"start", "record", "close"} /\ j.todo \in Seq(Kind) \ {<<>>}
         /\ j.at = "write" => j.fd \in Nat /\ j.ev \in 1..MaxEvents /\ j.prev \in HashType
         /\ j.at \in {"archive", "verify", "compact", "clear"} =>
              j.cmd = "close" /\ j.mine \in Seq(LineType) /\ j.rest \in Seq(LineType)
BY DEF Job

\* What the command of a process may become.
LEMMA NextJobs ==
  /\ Idle \in Job
  /\ \A cmd \in {"start", "record", "close"}, r \in Run, todo \in Seq(Kind) \ {<<>>} :
       Command(cmd, r, todo) \in Job
  /\ \A at \in {"save", "scan"}, cmd \in {"start", "close"}, r \in Run :
       [at |-> at, cmd |-> cmd, run |-> r, todo |-> <<>>] \in Job
  /\ \A j \in Job, at \in {"archive", "verify", "compact", "clear"} :
       j.at \in {"archive", "verify", "compact", "clear"} =>
         /\ [j EXCEPT !.at = at] \in Job
         /\ [j EXCEPT !.at = at].at = at /\ [j EXCEPT !.at = at].run = j.run
         /\ [j EXCEPT !.at = at].mine = j.mine /\ [j EXCEPT !.at = at].rest = j.rest
<1>1. Idle \in Job
  BY DEF Idle, Job
<1>2. ASSUME NEW cmd \in {"start", "record", "close"}, NEW r \in Run,
             NEW todo \in Seq(Kind) \ {<<>>}
      PROVE  Command(cmd, r, todo) \in Job
  BY DEF Command, Job
<1>3. ASSUME NEW at \in {"save", "scan"}, NEW cmd \in {"start", "close"}, NEW r \in Run
      PROVE  [at |-> at, cmd |-> cmd, run |-> r, todo |-> <<>>] \in Job
  BY DEF Job
<1>4. ASSUME NEW j \in Job, NEW at \in {"archive", "verify", "compact", "clear"},
             j.at \in {"archive", "verify", "compact", "clear"}
      PROVE  /\ [j EXCEPT !.at = at] \in Job
             /\ [j EXCEPT !.at = at].at = at /\ [j EXCEPT !.at = at].run = j.run
             /\ [j EXCEPT !.at = at].mine = j.mine
             /\ [j EXCEPT !.at = at].rest = j.rest
  BY <1>4 DEF Job
<1> QED
  BY <1>1, <1>2, <1>3, <1>4

\* The lines of a log in TypeOK.
LEMMA LinesType ==
  ASSUME TypeOK
  PROVE  /\ DOMAIN lines = 1..Len(lines) /\ Len(lines) \in Nat
         /\ \A n \in DOMAIN lines : lines[n] \in LineType
         /\ events \in Nat
BY LenProperties, LedgerAssumption DEF TypeOK

-----------------------------------------------------------------------------
(* Types, whoever else writes.  Each lemma gives the job a process goes on *)
(* with, and that what it wrote is made of lines.                          *)

\* A process goes on with x; the rest stays within its bounds.
LEMMA Retyped ==
  ASSUME TypeOK, NEW p \in Proc, NEW x \in Job, job' = [job EXCEPT ![p] = x],
         lines' \in Seq(LineType), inode' \in Nat, archive' \in [Run -> Seq(LineType)],
         snap' \in 0..MaxRuns, minted' \in 0..MaxRuns,
         events' \in 0..MaxEvents, crashes' \in 0..MaxCrashes,
         acked' \subseteq [ev : 1..MaxEvents, run : Run, kind : Kind]
  PROVE  TypeOK'
BY DEF TypeOK

\* What a command begins as.
LEMMA BeginJobs ==
  ASSUME TypeOK, NEW p \in Proc,
         \/ BeginStart(p)
         \/ \E kind \in {"record", "followup"} : BeginRecord(p, kind)
         \/ BeginClose(p)
  PROVE  \E x \in Job : /\ job' = [job EXCEPT ![p] = x]
                        /\ x.at = "open"
<1>1. /\ snap \in 0..MaxRuns /\ minted \in 0..MaxRuns /\ MaxRuns \in Nat
  BY LedgerAssumption DEF TypeOK
<1>2. PICK cmd \in {"start", "record", "close"}, r \in Run, todo \in Seq(Kind) \ {<<>>} :
        job' = [job EXCEPT ![p] = Command(cmd, r, todo)]
  <2>1. <<"start", "enter">> \in Seq(Kind) \ {<<>>}
    BY DEF Kind
  <2>2. \A kind \in {"record", "followup", "close"} : <<kind>> \in Seq(Kind) \ {<<>>}
    BY DEF Kind
  <2>3. CASE BeginStart(p)
    <3>1. minted + 1 \in Run
      BY <1>1, <2>3 DEF BeginStart, Run
    <3> QED
      BY <2>1, <2>3, <3>1 DEF BeginStart
  <2>4. ASSUME NEW kind \in {"record", "followup"}, BeginRecord(p, kind)
        PROVE  \E cmd \in {"start", "record", "close"}, r \in Run,
                  todo \in Seq(Kind) \ {<<>>} :
                  job' = [job EXCEPT ![p] = Command(cmd, r, todo)]
    <3>1. snap \in Run
      BY <1>1, <2>4 DEF BeginRecord, Run
    <3> QED
      BY <2>2, <2>4, <3>1 DEF BeginRecord
  <2>5. CASE BeginClose(p)
    <3>1. snap \in Run
      BY <1>1, <2>5 DEF BeginClose, Run
    <3> QED
      BY <2>2, <2>5, <3>1 DEF BeginClose
  <2> QED
    BY <2>3, <2>4, <2>5
<1>3. PICK x : x = Command(cmd, r, todo)
  OBVIOUS
<1>4. x \in Job /\ x.at = "open"
  BY <1>3, NextJobs DEF Command
<1> QED
  BY <1>2, <1>3, <1>4

\* What a process is about to write once it has opened the log.
LEMMA OpenJob ==
  ASSUME TypeOK, NEW p \in Proc, OpenLog(p)
  PROVE  \E x \in Job :
           /\ job' = [job EXCEPT ![p] = x]
           /\ x.at = "write" /\ x.fd = inode /\ x.ev = events + 1
           /\ x.prev = TailHash(lines')
<1> DEFINE j == job[p]
<1>1. /\ lines \in Seq(LineType) /\ j \in Job /\ j.at = "open"
      /\ lines' = Healed(lines) /\ events < MaxEvents
      /\ events \in Nat /\ MaxEvents \in Nat /\ inode \in Nat
  BY LedgerAssumption DEF OpenLog, TypeOK
<1>2. lines' \in Seq(LineType)
  BY <1>1, HealedIsAlike
<1>3. TailHash(lines') \in HashType
  <2>1. CASE lines' = <<>>
    BY <2>1, EmptySeq DEF TailHash, NoHash, HashType
  <2>2. CASE lines' # <<>>
    <3>1. Len(lines') \in 1..Len(lines')
      BY <1>2, <2>2, EmptySeq
    <3>2. Last(lines') \in LineType
      BY <1>2, <3>1, ElementOfSeq DEF Last
    <3> DEFINE T == (1..MaxEvents) \X BOOLEAN
               l == Last(lines')
               x == <<l.ev, l.whole>>
    <3>3. l.prev \in Seq(T) /\ x \in T /\ HashType = Seq(T)
      BY <3>2 DEF LineType, HashType
    <3>4. TailHash(lines') = Append(l.prev, x)
      BY <2>2 DEF TailHash, Hash
    <3> HIDE DEF T, x, l
    <3> QED
      BY <3>3, <3>4, AppendProperties
  <2> QED
    BY <2>1, <2>2
<1>4. PICK x : x = [at |-> "write", cmd |-> j.cmd, run |-> j.run, todo |-> j.todo,
                    fd |-> inode, ev |-> events + 1, prev |-> TailHash(lines')]
  OBVIOUS
<1>5. job' = [job EXCEPT ![p] = x]
  BY <1>4 DEF OpenLog
<1>6. x \in Job
  <2>1. j.cmd \in {"start", "record", "close"} /\ j.run \in Run
        /\ j.todo \in Seq(Kind) \ {<<>>}
    BY <1>1, JobFields
  <2>2. events + 1 \in 1..MaxEvents
    BY <1>1
  <2> QED
    BY <1>1, <1>3, <1>4, <2>1, <2>2 DEF Job
<1> QED
  BY <1>4, <1>5, <1>6

\* What a command goes on with once its event is appended.
LEMMA WriteJobs ==
  ASSUME TypeOK, NEW p \in Proc, WriteLine(p)
  PROVE  \E x \in Job : /\ job' = [job EXCEPT ![p] = x]
                        /\ x.at \in {"idle", "open", "save", "scan"}
<1> DEFINE j == job[p]
           rest == Tail(j.todo)
           at == IF rest # <<>> THEN "open" ELSE After(j.cmd)
           y == [at |-> at, cmd |-> j.cmd, run |-> j.run, todo |-> rest]
<1>1. j \in Job /\ j.at = "write"
  BY DEF TypeOK, WriteLine
<1>2. PICK x : x = IF at = "idle" THEN Idle ELSE y
  OBVIOUS
<1>3. job' = [job EXCEPT ![p] = x]
  BY <1>2 DEF WriteLine
<1>4. /\ j.cmd \in {"start", "record", "close"} /\ j.run \in Run
      /\ rest \in Seq(Kind)
  BY <1>1, JobFields, HeadTailProperties
<1> HIDE DEF rest
<1>5. CASE rest # <<>>
  <2>1. x = Command(j.cmd, j.run, rest)
    BY <1>2, <1>5 DEF Command
  <2>2. x \in Job /\ x.at = "open"
    BY <1>4, <1>5, <2>1, NextJobs DEF Command
  <2> QED
    BY <1>3, <2>2
<1>6. CASE rest = <<>>
  <2>1. \/ j.cmd = "start" /\ at = "save"
        \/ j.cmd = "record" /\ at = "idle"
        \/ j.cmd = "close" /\ at = "scan"
    BY <1>4, <1>6 DEF After
  <2> HIDE DEF at
  <2>2. x \in Job /\ x.at \in {"idle", "save", "scan"}
    BY <1>2, <1>4, <1>6, <2>1, NextJobs DEF Idle
  <2> QED
    BY <1>3, <2>2
<1> QED
  BY <1>5, <1>6

\* A write leaves a log of lines, even when it runs into an unterminated one or
\* goes to a file that is no longer the log.
LEMMA WriteTypes ==
  ASSUME TypeOK, NEW p \in Proc, job[p].at = "write",
         NEW whole \in BOOLEAN, NEW ended \in BOOLEAN, Write(p, whole, ended)
  PROVE  /\ lines' \in Seq(LineType)
         /\ EventOf(job[p]) \in [ev : 1..MaxEvents, run : Run, kind : Kind]
<1> DEFINE j == job[p]
           l == Line(EventOf(j), j.prev, whole, ended)
           N == Len(lines)
<1>1. /\ j \in Job /\ lines \in Seq(LineType)
      /\ DOMAIN lines = 1..N /\ N \in Nat
      /\ \A n \in DOMAIN lines : lines[n] \in LineType
  BY LinesType DEF TypeOK
<1>2. /\ j.run \in Run /\ j.todo \in Seq(Kind) \ {<<>>}
      /\ j.ev \in 1..MaxEvents /\ j.prev \in HashType
  BY <1>1, JobFields
<1>3. Head(j.todo) \in Kind
  BY <1>2, HeadTailProperties
<1>4. EventOf(j) \in [ev : 1..MaxEvents, run : Run, kind : Kind]
  BY <1>2, <1>3 DEF EventOf
<1>5. l \in LineType
  BY <1>2, <1>4 DEF Line, LineType
<1>6. lines' = lines \/ lines' = Appended(lines, l)
  BY DEF Write
<1> HIDE DEF l
<1>7. CASE lines # <<>> /\ ~ Last(lines).ended
  <2> DEFINE m == [lines[N] EXCEPT !.whole = FALSE, !.ended = l.ended]
  <2>1. N \in 1..N /\ N \in DOMAIN lines
    BY <1>1, <1>7, EmptySeq
  <2>2. m \in LineType
    BY <1>1, <1>5, <2>1 DEF LineType
  <2>3. Appended(lines, l) = [lines EXCEPT ![N] = m]
    BY <1>1, <1>7, <2>1 DEF Appended
  <2> HIDE DEF m
  <2>4. [lines EXCEPT ![N] = m] \in Seq(LineType)
    BY <1>1, <2>1, <2>2, ExceptSeq
  <2> QED
    BY <1>1, <1>4, <1>6, <2>3, <2>4
<1>8. CASE ~ (lines # <<>> /\ ~ Last(lines).ended)
  <2>1. Appended(lines, l) = Append(lines, l)
    BY <1>8 DEF Appended
  <2> QED
    BY <1>1, <1>4, <1>5, <1>6, <2>1, AppendProperties
<1> QED
  BY <1>7, <1>8

\* What a close goes on with once it has split the log.
LEMMA ScanJob ==
  ASSUME TypeOK, NEW p \in Proc, Scan(p)
  PROVE  \E x \in Job :
           /\ job' = [job EXCEPT ![p] = x]
           /\ x.at = "archive" /\ x.run = job[p].run
           /\ x.mine = Kept(lines, {n \in Parsed(lines) : Mine(lines[n], x.run)})
           /\ x.rest = Kept(lines, {n \in Parsed(lines) : Rest(lines[n], x.run)})
<1> DEFINE r == job[p].run
           M == {n \in Parsed(lines) : Mine(lines[n], r)}
           R == {n \in Parsed(lines) : Rest(lines[n], r)}
<1>1. r \in Run /\ lines \in Seq(LineType)
  BY JobFields DEF TypeOK, Scan
<1>2. PICK x : x = [at |-> "archive", cmd |-> "close", run |-> r,
                    mine |-> Kept(lines, M), rest |-> Kept(lines, R)]
  OBVIOUS
<1>3. job' = [job EXCEPT ![p] = x]
  BY <1>2 DEF Scan
<1>4. M \subseteq DOMAIN lines /\ R \subseteq DOMAIN lines
  BY DEF Parsed
<1>5. /\ x.at = "archive" /\ x.run = r
      /\ x.mine = Kept(lines, {n \in Parsed(lines) : Mine(lines[n], x.run)})
      /\ x.rest = Kept(lines, {n \in Parsed(lines) : Rest(lines[n], x.run)})
  BY <1>2
<1> HIDE DEF M, R
<1>6. Kept(lines, M) \in Seq(LineType) /\ Kept(lines, R) \in Seq(LineType)
  BY <1>1, <1>4, KeptIsPart
<1>7. x \in Job
  BY <1>1, <1>2, <1>6 DEF Job
<1> QED
  BY <1>3, <1>5, <1>7

\* What the archive is written as, whole or cut short, and what is left of the
\* log.
LEMMA ArchiveTypes ==
  ASSUME NEW j \in Job, j.at \in {"archive", "verify", "compact", "clear"}
  PROVE  /\ Rewritten(j.mine) \in Seq(LineType)
         /\ Rewritten(j.rest) \in Seq(LineType)
         /\ \A n \in 0..(Len(j.mine) - 1) :
              Rewritten(SubSeq(j.mine, 1, n)) \in Seq(LineType)
<1>1. j.mine \in Seq(LineType) /\ j.rest \in Seq(LineType) /\ Len(j.mine) \in Nat
  BY JobFields, LenProperties
<1>2. ASSUME NEW n \in 0..(Len(j.mine) - 1)
      PROVE  SubSeq(j.mine, 1, n) \in Seq(LineType)
  <2>1. n \in Int /\ \A i \in 1..n : i \in 1..Len(j.mine)
    BY <1>1
  <2>2. \A i \in 1..n : j.mine[i] \in LineType
    BY <1>1, <2>1, ElementOfSeq
  <2> QED
    BY <2>1, <2>2, SubSeqProperties
<1> QED
  BY <1>1, <1>2, RewrittenIsWhole

\* Every step keeps the types, whatever the other processes are at.
LEMMA TypesKept == TypeOK /\ [Next]_vars => TypeOK'
<1> SUFFICES ASSUME TypeOK, [Next]_vars PROVE TypeOK'
  OBVIOUS
<1>1. /\ lines \in Seq(LineType) /\ inode \in Nat /\ archive \in [Run -> Seq(LineType)]
      /\ snap \in 0..MaxRuns /\ minted \in 0..MaxRuns
      /\ events \in 0..MaxEvents /\ crashes \in 0..MaxCrashes
      /\ acked \subseteq [ev : 1..MaxEvents, run : Run, kind : Kind]
      /\ \A p \in Proc : job[p] \in Job
      /\ Idle \in Job
      /\ MaxRuns \in Nat /\ MaxEvents \in Nat /\ MaxCrashes \in Nat
  BY NextJobs, LedgerAssumption DEF TypeOK
<1>2. crashes < MaxCrashes => crashes + 1 \in 0..MaxCrashes
  BY <1>1
<1>3. ASSUME NEW p \in Proc,
             \/ BeginStart(p)
             \/ \E kind \in {"record", "followup"} : BeginRecord(p, kind)
             \/ BeginClose(p)
      PROVE  TypeOK'
  <2>1. PICK x \in Job : job' = [job EXCEPT ![p] = x]
    BY <1>3, BeginJobs
  <2>2. minted' \in 0..MaxRuns
    BY <1>1, <1>3 DEF BeginStart, BeginRecord, BeginClose
  <2>3. UNCHANGED <<lines, inode, archive, snap, events, crashes, acked>>
    BY <1>3 DEF BeginStart, BeginRecord, BeginClose
  <2> QED
    BY <1>1, <2>1, <2>2, <2>3, Retyped
<1>4. ASSUME NEW p \in Proc, OpenLog(p) PROVE TypeOK'
  <2>1. PICK x \in Job : job' = [job EXCEPT ![p] = x]
    BY <1>4, OpenJob
  <2>2. events' \in 0..MaxEvents /\ lines' = Healed(lines)
    BY <1>1, <1>4 DEF OpenLog
  <2>3. UNCHANGED <<inode, archive, snap, minted, crashes, acked>>
    BY <1>4 DEF OpenLog
  <2> QED
    BY <1>1, <2>1, <2>2, <2>3, HealedIsAlike, Retyped
<1>5. ASSUME NEW p \in Proc, WriteLine(p) PROVE TypeOK'
  <2>1. PICK x \in Job : job' = [job EXCEPT ![p] = x]
    BY <1>5, WriteJobs
  <2>2. /\ lines' \in Seq(LineType)
        /\ EventOf(job[p]) \in [ev : 1..MaxEvents, run : Run, kind : Kind]
    BY <1>5, WriteTypes DEF WriteLine
  <2>3. /\ acked' = acked \cup {EventOf(job[p])}
        /\ UNCHANGED <<inode, archive, snap, minted, events, crashes>>
    BY <1>5 DEF WriteLine
  <2> QED
    BY <1>1, <2>1, <2>2, <2>3, Retyped
<1>6. ASSUME NEW p \in Proc, TornWrite(p) PROVE TypeOK'
  <2>1. lines' \in Seq(LineType)
    BY <1>6, WriteTypes DEF TornWrite
  <2>2. /\ job' = [job EXCEPT ![p] = Idle] /\ crashes' \in 0..MaxCrashes
        /\ UNCHANGED <<inode, archive, snap, minted, events, acked>>
    BY <1>2, <1>6 DEF TornWrite, Done
  <2> QED
    BY <1>1, <2>1, <2>2, Retyped
<1>7. ASSUME NEW p \in Proc, SaveSnapshot(p) \/ ClearRun(p) \/ Crash(p) PROVE TypeOK'
  <2>1. SaveSnapshot(p) => job[p].run \in 1..MaxRuns
    BY <1>1, JobFields DEF SaveSnapshot, Run
  <2>2. snap' \in 0..MaxRuns /\ crashes' \in 0..MaxCrashes
    BY <1>1, <1>2, <1>7, <2>1 DEF SaveSnapshot, ClearRun, Crash
  <2>3. /\ job' = [job EXCEPT ![p] = Idle]
        /\ UNCHANGED <<lines, inode, archive, minted, events, acked>>
    BY <1>7 DEF SaveSnapshot, ClearRun, Crash, Done
  <2> QED
    BY <1>1, <2>2, <2>3, Retyped
<1>8. ASSUME NEW p \in Proc, Scan(p) PROVE TypeOK'
  <2>1. PICK x \in Job : job' = [job EXCEPT ![p] = x]
    BY <1>8, ScanJob
  <2>2. UNCHANGED <<lines, inode, archive, snap, minted, events, crashes, acked>>
    BY <1>8 DEF Scan
  <2> QED
    BY <1>1, <2>1, <2>2, Retyped
<1>9. ASSUME NEW p \in Proc, WriteArchive(p) \/ TornArchive(p) PROVE TypeOK'
  <2>1. job[p] \in Job /\ job[p].at = "archive" /\ job[p].run \in Run
    BY <1>1, <1>9, JobFields DEF WriteArchive, TornArchive
  <2>2. PICK as \in Seq(LineType) : archive' = [archive EXCEPT ![job[p].run] = as]
    BY <1>9, <2>1, ArchiveTypes DEF WriteArchive, TornArchive
  <2>3. archive' \in [Run -> Seq(LineType)]
    BY <1>1, <2>1, <2>2
  <2>4. PICK x \in Job : job' = [job EXCEPT ![p] = x]
    BY <1>1, <1>9, <2>1, NextJobs DEF WriteArchive, TornArchive, Goto, Done
  <2>5. /\ crashes' \in 0..MaxCrashes
        /\ UNCHANGED <<lines, inode, snap, minted, events, acked>>
    BY <1>1, <1>2, <1>9 DEF WriteArchive, TornArchive
  <2> QED
    BY <1>1, <2>3, <2>4, <2>5, Retyped
<1>10. ASSUME NEW p \in Proc, Verify(p) PROVE TypeOK'
  <2>1. PICK x \in Job : job' = [job EXCEPT ![p] = x]
    BY <1>1, <1>10, NextJobs DEF Verify, Goto, Done
  <2>2. UNCHANGED <<lines, inode, archive, snap, minted, events, crashes, acked>>
    BY <1>10 DEF Verify
  <2> QED
    BY <1>1, <2>1, <2>2, Retyped
<1>11. ASSUME NEW p \in Proc, Compact(p) PROVE TypeOK'
  <2>1. PICK x \in Job : job' = [job EXCEPT ![p] = x]
    BY <1>1, <1>11, NextJobs DEF Compact, Goto
  <2>2. lines' \in Seq(LineType) /\ inode' \in Nat
    BY <1>1, <1>11, ArchiveTypes DEF Compact
  <2>3. UNCHANGED <<archive, snap, minted, events, crashes, acked>>
    BY <1>11 DEF Compact
  <2> QED
    BY <1>1, <2>1, <2>2, <2>3, Retyped
<1>12. CASE UNCHANGED vars
  BY <1>12 DEF vars, TypeOK
<1> QED
  BY <1>3, <1>4, <1>5, <1>6, <1>7, <1>8, <1>9, <1>10, <1>11, <1>12 DEF Next

-----------------------------------------------------------------------------
(* The steps of a single writer.                                           *)

\* With one writer its command is the only one.
LEMMA OnlyJob ==
  ASSUME OneWriter, TypeOK, NEW p \in Proc, NEW x \in Job,
         job' = [job EXCEPT ![p] = x]
  PROVE  /\ job' \in [Proc -> Job]
         /\ \A q \in Proc : job'[q] = x
BY DEF OneWriter, TypeOK

\* A step that leaves the log, its archives and its events alone, of a process
\* whose next command fits.
LEMMA LogUntouched ==
  ASSUME OneWriter, LInv, NEW p \in Proc, NEW x \in Job, job' = [job EXCEPT ![p] = x],
         UNCHANGED <<lines, inode, archive, events, acked>>,
         snap' \in 0..MaxRuns, minted' \in 0..MaxRuns, crashes' \in 0..MaxCrashes,
         JobFits(x)
  PROVE  LInv'
<1>1. /\ job' \in [Proc -> Job]
      /\ \A q \in Proc : job'[q] = x
  BY OnlyJob DEF LInv
<1>2. TypeOK'
  BY <1>1 DEF LInv, TypeOK
<1>3. ChainIntact' /\ EventsNumbered' /\ FollowupsStayLive'
  BY DEF LInv, ChainIntact, EventsNumbered, FollowupsStayLive
<1>4. JobFits(x)'
  BY DEF JobFits, ReadyToWrite, Split
<1>5. \A q \in Proc : JobFits(job[q])'
  BY <1>1, <1>4
<1> QED
  BY <1>2, <1>3, <1>5 DEF LInv

\* A command that is yet to open the log, or is done with it, fits.
LEMMA FitsAnyway ==
  ASSUME NEW x, x.at \in {"idle", "open", "save", "scan", "clear"}
  PROVE  JobFits(x) /\ JobFits(x)'
BY DEF JobFits

\* A command begins.
LEMMA BeginSteps ==
  ASSUME OneWriter, LInv, NEW p \in Proc,
         \/ BeginStart(p)
         \/ \E kind \in {"record", "followup"} : BeginRecord(p, kind)
         \/ BeginClose(p)
  PROVE  LInv'
<1>1. PICK x \in Job : job' = [job EXCEPT ![p] = x] /\ x.at = "open"
  BY BeginJobs DEF LInv
<1>2. TypeOK'
  BY TypesKept DEF LInv, Next
<1>3. UNCHANGED <<lines, inode, archive, events, acked>>
  BY DEF BeginStart, BeginRecord, BeginClose
<1>4. JobFits(x)
  BY <1>1, FitsAnyway
<1> QED
  BY <1>1, <1>2, <1>3, <1>4, LogUntouched DEF TypeOK

\* The command of a process ends, with its last step or with the process.
LEMMA EndSteps ==
  ASSUME OneWriter, LInv, NEW p \in Proc,
         SaveSnapshot(p) \/ ClearRun(p) \/ Crash(p)
  PROVE  LInv'
<1>1. job' = [job EXCEPT ![p] = Idle]
  BY DEF SaveSnapshot, ClearRun, Crash, Done
<1>2. job[p] \in Job
  BY DEF LInv, TypeOK
<1>3. SaveSnapshot(p) => snap' \in 0..MaxRuns
  BY <1>2, JobFields, LedgerAssumption DEF SaveSnapshot, Run
<1>4. /\ snap' \in 0..MaxRuns /\ minted' \in 0..MaxRuns
      /\ crashes' \in 0..MaxCrashes
  BY <1>3, LedgerAssumption DEF SaveSnapshot, ClearRun, Crash, LInv, TypeOK
<1>5. UNCHANGED <<lines, inode, archive, events, acked>>
  BY DEF SaveSnapshot, ClearRun, Crash
<1>6. Idle \in Job /\ JobFits(Idle)
  BY NextJobs DEF Idle, JobFits
<1> QED
  BY <1>1, <1>4, <1>5, <1>6, LogUntouched

\* A close reads the log and splits it in two.
LEMMA ScanStep ==
  ASSUME OneWriter, LInv, NEW p \in Proc, Scan(p)
  PROVE  LInv'
<1>1. PICK x \in Job :
        /\ job' = [job EXCEPT ![p] = x]
        /\ x.at = "archive" /\ x.run = job[p].run
        /\ x.mine = Kept(lines, {n \in Parsed(lines) : Mine(lines[n], x.run)})
        /\ x.rest = Kept(lines, {n \in Parsed(lines) : Rest(lines[n], x.run)})
  BY ScanJob DEF LInv
<1> DEFINE M == {n \in Parsed(lines) : Mine(lines[n], x.run)}
           R == {n \in Parsed(lines) : Rest(lines[n], x.run)}
<1>2. x.mine = Kept(lines, M) /\ x.rest = Kept(lines, R)
  BY <1>1
<1>3. /\ M \subseteq DOMAIN lines /\ R \subseteq DOMAIN lines
      /\ \A n \in Parsed(lines) : IF Mine(lines[n], x.run) THEN n \in M ELSE n \in R
  BY DEF Parsed, Rest
<1>4. lines \in Seq(LineType)
  BY DEF LInv, TypeOK
<1> HIDE DEF M, R
<1>5. \A k \in M : \E n \in DOMAIN x.mine : x.mine[n] = lines[k]
  BY <1>2, <1>3, <1>4, KeptIsPart
<1>6. /\ \A n \in DOMAIN x.rest : \E k \in R : x.rest[n] = lines[k]
      /\ \A k \in R : \E n \in DOMAIN x.rest : x.rest[n] = lines[k]
  BY <1>2, <1>3, <1>4, KeptIsPart
<1>7. Split(x)
  <2>1. \A n \in Parsed(lines) :
          IF Mine(lines[n], x.run)
          THEN \E m \in DOMAIN x.mine : x.mine[m].ev = lines[n].ev
          ELSE \E m \in DOMAIN x.rest : x.rest[m].ev = lines[n].ev
    BY <1>3, <1>5, <1>6
  <2>2. \A m \in DOMAIN x.rest : \E n \in DOMAIN lines :
          /\ x.rest[m].ev = lines[n].ev
          /\ x.rest[m].run = lines[n].run /\ x.rest[m].kind = lines[n].kind
    BY <1>3, <1>6
  <2> QED
    BY <2>1, <2>2 DEF Split
<1>8. JobFits(x)
  BY <1>1, <1>7 DEF JobFits
<1>9. /\ UNCHANGED <<lines, inode, archive, events, acked, snap, minted, crashes>>
      /\ snap \in 0..MaxRuns /\ minted \in 0..MaxRuns /\ crashes \in 0..MaxCrashes
  BY DEF Scan, LInv, TypeOK
<1> QED
  BY <1>1, <1>8, <1>9, LogUntouched

\* The archive is read back; with all its lines there the log may be compacted.
LEMMA VerifyStep ==
  ASSUME OneWriter, LInv, NEW p \in Proc, Verify(p)
  PROVE  LInv'
<1> DEFINE j == job[p]
<1>1. j \in Job /\ j.at = "verify" /\ job \in [Proc -> Job] /\ JobFits(j)
  BY DEF LInv, TypeOK, Verify
<1>2. PICK x : x = [j EXCEPT !.at = "compact"]
  OBVIOUS
<1>3. x \in Job /\ x.at = "compact" /\ x.run = j.run /\ x.mine = j.mine /\ x.rest = j.rest
  BY <1>1, <1>2, NextJobs
<1>4. job' = [job EXCEPT ![p] = x] \/ job' = [job EXCEPT ![p] = Idle]
  BY <1>2 DEF Verify, Goto, Done
<1>5. JobFits(x)
  BY <1>1, <1>3 DEF JobFits, Split
<1>6. Idle \in Job /\ JobFits(Idle)
  BY NextJobs DEF Idle, JobFits
<1>7. /\ UNCHANGED <<lines, inode, archive, events, acked, snap, minted, crashes>>
      /\ snap \in 0..MaxRuns /\ minted \in 0..MaxRuns /\ crashes \in 0..MaxCrashes
  BY DEF Verify, LInv, TypeOK
<1> QED
  BY <1>3, <1>4, <1>5, <1>6, <1>7, LogUntouched

\* Opening the log heals it and takes the next number.
LEMMA OpenStep ==
  ASSUME OneWriter, LInv, NEW p \in Proc, OpenLog(p)
  PROVE  LInv'
<1>1. /\ lines \in Seq(LineType)
      /\ lines' = Healed(lines) /\ events' = events + 1 /\ events < MaxEvents
      /\ events \in Nat /\ MaxEvents \in Nat
      /\ UNCHANGED <<inode, archive, snap, minted, crashes, acked>>
  BY LedgerAssumption DEF OpenLog, LInv, TypeOK
<1>2. /\ lines' \in Seq(LineType) /\ Alike(lines, lines')
      /\ lines' # <<>> => Last(lines').ended
  BY <1>1, HealedIsAlike
<1>3. PICK x \in Job :
        /\ job' = [job EXCEPT ![p] = x]
        /\ x.at = "write" /\ x.fd = inode /\ x.ev = events + 1
        /\ x.prev = TailHash(lines')
  BY OpenJob DEF LInv
<1>4. /\ job' \in [Proc -> Job] /\ \A q \in Proc : job'[q] = x
  BY <1>3, OnlyJob DEF LInv
<1>5. TypeOK'
  BY TypesKept DEF LInv, Next
<1>6. ChainIntact'
  BY <1>1, <1>2, AlikeBreaks DEF LInv, ChainIntact
<1>7. /\ \A n \in DOMAIN lines' : lines'[n].ev <= events
      /\ \A n \in DOMAIN lines', e \in acked : Same(lines'[n], e)
  BY <1>2 DEF Alike, LInv, EventsNumbered, Same
<1>8. /\ \A n \in DOMAIN lines' : lines'[n].ev < events + 1
      /\ \A e \in acked : e.ev < events + 1
  <2>1. \A n \in DOMAIN lines' : lines'[n].ev \in Nat
    <3> TAKE n \in DOMAIN lines'
    <3>1. lines'[n] \in LineType
      BY <1>2, LenProperties
    <3> QED
      BY <1>1, <3>1 DEF LineType
  <2>2. \A e \in acked : e.ev \in Nat
    BY <1>1 DEF LInv, TypeOK
  <2> QED
    BY <1>1, <1>7, <2>1, <2>2 DEF LInv, EventsNumbered
<1>9. EventsNumbered'
  <2>1. \A n \in DOMAIN lines' : lines'[n].ev <= events + 1
    <3> TAKE n \in DOMAIN lines'
    <3>1. lines'[n] \in LineType
      BY <1>2, LenProperties
    <3> QED
      BY <1>1, <1>8, <3>1 DEF LineType
  <2>2. \A e \in acked : e.ev <= events + 1
    BY <1>1, <1>8 DEF LInv, TypeOK
  <2> QED
    BY <1>1, <1>7, <2>1, <2>2 DEF EventsNumbered
<1>10. FollowupsStayLive'
  BY <1>1, <1>2 DEF LInv, FollowupsStayLive, Holds, Parsed, Alike
<1>11. JobFits(x)'
  <2>1. ReadyToWrite(x)'
    BY <1>1, <1>2, <1>3, <1>8 DEF ReadyToWrite
  <2> QED
    BY <1>3, <2>1 DEF JobFits
<1>12. \A q \in Proc : JobFits(job[q])'
  BY <1>4, <1>11
<1> QED
  BY <1>5, <1>6, <1>9, <1>10, <1>12 DEF LInv

\* With the file still there and its last line ended a write adds one line,
\* chained to the last one.
LEMMA WriteAppends ==
  ASSUME LInv, NEW p \in Proc, job[p].at = "write",
         NEW whole \in BOOLEAN, NEW ended \in BOOLEAN, Write(p, whole, ended)
  PROVE  \E l \in LineType :
           /\ lines' = Append(lines, l)
           /\ l.ev = job[p].ev /\ l.run = job[p].run /\ l.kind = Head(job[p].todo)
           /\ l.whole = whole /\ l.ended = ended /\ l.prev = TailHash(lines)
<1> DEFINE j == job[p]
           l == Line(EventOf(j), j.prev, whole, ended)
<1>1. j \in Job /\ ReadyToWrite(j)
  BY DEF LInv, TypeOK, JobFits
<1>2. /\ j.run \in Run /\ j.todo \in Seq(Kind) \ {<<>>}
      /\ j.ev \in 1..MaxEvents /\ j.prev \in HashType
  BY <1>1, JobFields
<1>3. Head(j.todo) \in Kind
  BY <1>2, HeadTailProperties
<1>4. /\ l \in LineType /\ l.ev = j.ev /\ l.run = j.run /\ l.kind = Head(j.todo)
      /\ l.whole = whole /\ l.ended = ended /\ l.prev = TailHash(lines)
  BY <1>1, <1>2, <1>3 DEF Line, EventOf, LineType, ReadyToWrite
<1>5. lines' = Appended(lines, l)
  BY <1>1 DEF Write, ReadyToWrite
<1> HIDE DEF l
<1>6. lines' = Append(lines, l)
  BY <1>1, <1>5 DEF Appended, ReadyToWrite
<1> QED
  BY <1>4, <1>6

\* What an appended line does to the log: nothing to what was there.
LEMMA AppendedLines ==
  ASSUME TypeOK, NEW l \in LineType, lines' = Append(lines, l)
  PROVE  /\ lines' \in Seq(LineType)
         /\ DOMAIN lines' = DOMAIN lines \cup {Len(lines) + 1}
         /\ \A n \in DOMAIN lines : lines'[n] = lines[n]
         /\ lines'[Len(lines) + 1] = l
<1>1. /\ lines' \in Seq(LineType) /\ Len(lines') = Len(lines) + 1
      /\ \A n \in 1..Len(lines) : lines'[n] = lines[n]
      /\ lines'[Len(lines) + 1] = l
  BY AppendProperties DEF TypeOK
<1>2. DOMAIN lines = 1..Len(lines) /\ Len(lines) \in Nat
  BY LinesType
<1>3. DOMAIN lines' = 1..(Len(lines) + 1)
  BY <1>1, LenProperties
<1> QED
  BY <1>1, <1>2, <1>3

\* A write, whole or cut short, of a process that goes on with x.
LEMMA WriteStep ==
  ASSUME OneWriter, LInv, NEW p \in Proc, job[p].at = "write",
         NEW whole \in BOOLEAN, NEW ended \in BOOLEAN, Write(p, whole, ended),
         \/ acked' = acked
         \/ whole /\ acked' = acked \cup {EventOf(job[p])},
         NEW x \in Job, job' = [job EXCEPT ![p] = x],
         x.at \in {"idle", "open", "save", "scan"},
         UNCHANGED <<inode, archive, snap, minted, events>>,
         crashes' \in 0..MaxCrashes
  PROVE  LInv'
<1> DEFINE j == job[p]
           N == Len(lines) + 1
<1>1. j \in Job /\ ReadyToWrite(j) /\ TypeOK
  BY DEF LInv, TypeOK, JobFits
<1>2. PICK l \in LineType :
        /\ lines' = Append(lines, l)
        /\ l.ev = j.ev /\ l.run = j.run /\ l.kind = Head(j.todo)
        /\ l.whole = whole /\ l.ended = ended /\ l.prev = TailHash(lines)
  BY WriteAppends
<1>3. /\ lines' \in Seq(LineType)
      /\ DOMAIN lines' = DOMAIN lines \cup {N}
      /\ \A n \in DOMAIN lines : lines'[n] = lines[n]
      /\ lines'[N] = l
  BY <1>1, <1>2, AppendedLines
<1>4. /\ job' \in [Proc -> Job] /\ \A q \in Proc : job'[q] = x
  BY OnlyJob DEF LInv
<1>5. PICK e : e = EventOf(j)
  OBVIOUS
<1>6. /\ e \in [ev : 1..MaxEvents, run : Run, kind : Kind]
      /\ e.ev = l.ev /\ e.run = l.run /\ e.kind = l.kind
  BY <1>2, <1>5 DEF EventOf, LineType
<1>7. /\ acked' \subseteq acked \cup {e}
      /\ e \in acked' => e \in acked \/ l.whole
  BY <1>2, <1>5
<1>8. TypeOK'
  BY <1>1, <1>3, <1>4, <1>6, <1>7 DEF TypeOK
<1>9. ChainIntact'
  <2>1. lines \in Seq(LineType) /\ \A n \in DOMAIN lines : ~ Break(lines, n)
    BY DEF LInv, TypeOK, ChainIntact
  <2> QED
    BY <1>2, <2>1, AppendBreaks DEF ChainIntact
<1>10. events \in Nat /\ l.ev = events
  BY <1>1, <1>2, LinesType DEF ReadyToWrite
<1>11. EventsNumbered'
  <2>1. \A n \in DOMAIN lines' : lines'[n].ev <= events
    BY <1>3, <1>10 DEF LInv, EventsNumbered
  <2>2. \A f \in acked' : f.ev <= events
    BY <1>6, <1>7, <1>10 DEF LInv, EventsNumbered
  <2>3. ASSUME NEW n \in DOMAIN lines', NEW f \in acked'
        PROVE  Same(lines'[n], f)
    <3>1. CASE n \in DOMAIN lines /\ f \in acked
      BY <1>3, <3>1 DEF LInv, EventsNumbered
    <3>2. CASE n \in DOMAIN lines /\ f = e
      <4>1. lines'[n].ev < e.ev
        BY <1>1, <1>2, <1>3, <1>6, <3>2 DEF ReadyToWrite
      <4>2. e.ev \in Nat /\ lines[n].ev \in Nat
        BY <1>1, <1>6, <1>10, <3>2, LinesType, LedgerAssumption DEF LineType
      <4> QED
        BY <1>3, <3>2, <4>1, <4>2 DEF Same
    <3>3. CASE n = N /\ f \in acked
      <4>1. f.ev < l.ev
        BY <1>1, <1>2, <3>3 DEF ReadyToWrite
      <4>2. f.ev \in Nat
        BY <1>1, <3>3, LedgerAssumption DEF TypeOK
      <4> QED
        BY <1>3, <1>10, <3>3, <4>1, <4>2 DEF Same
    <3>4. CASE n = N /\ f = e
      BY <1>3, <1>6, <3>4 DEF Same
    <3> QED
      BY <1>3, <1>7, <3>1, <3>2, <3>3, <3>4
  <2> QED
    BY <2>1, <2>2, <2>3 DEF EventsNumbered
<1>12. FollowupsStayLive'
  <2>1. \A f \in acked : Holds(lines, f) => Holds(lines', f)
    BY <1>3 DEF Holds, Parsed
  <2>2. l.whole => Holds(lines', e)
    BY <1>3, <1>6 DEF Holds, Parsed
  <2> QED
    BY <1>7, <2>1, <2>2 DEF LInv, FollowupsStayLive
<1>13. \A q \in Proc : JobFits(job[q])'
  BY <1>4, FitsAnyway DEF JobFits
<1> QED
  BY <1>8, <1>9, <1>11, <1>12, <1>13 DEF LInv

\* Append returns, or its process is killed in the write.
LEMMA WriteSteps ==
  ASSUME OneWriter, LInv, NEW p \in Proc, WriteLine(p) \/ TornWrite(p)
  PROVE  LInv'
<1> DEFINE j == job[p]
<1>1. j \in Job /\ j.at = "write"
  BY DEF LInv, TypeOK, WriteLine, TornWrite
<1>2. CASE WriteLine(p)
  <2>1. PICK x \in Job : /\ job' = [job EXCEPT ![p] = x]
                         /\ x.at \in {"idle", "open", "save", "scan"}
    BY <1>2, WriteJobs DEF LInv
  <2> QED
    BY <1>1, <1>2, <2>1, WriteStep DEF WriteLine, LInv, TypeOK
<1>3. CASE TornWrite(p)
  <2>1. PICK whole \in BOOLEAN : Write(p, whole, FALSE)
    BY <1>3 DEF TornWrite
  <2>2. job' = [job EXCEPT ![p] = Idle] /\ Idle \in Job /\ Idle.at = "idle"
    BY <1>3, NextJobs DEF TornWrite, Done, Idle
  <2>3. crashes' \in 0..MaxCrashes
    BY <1>3, LedgerAssumption DEF TornWrite, LInv, TypeOK
  <2>4. UNCHANGED <<inode, archive, snap, minted, events, acked>>
    BY <1>3 DEF TornWrite
  <2> QED
    BY <1>1, <2>1, <2>2, <2>3, <2>4, WriteStep
<1> QED
  BY <1>2, <1>3

\* The archive of the run is written, or part of it before a kill: the log is
\* untouched either way.
LEMMA ArchiveSteps ==
  ASSUME OneWriter, LInv, NEW p \in Proc, WriteArchive(p) \/ TornArchive(p)
  PROVE  LInv'
<1> DEFINE j == job[p]
<1>1. /\ j \in Job /\ j.at = "archive" /\ j.run \in Run
      /\ j.mine \in Seq(LineType) /\ Split(j)
  BY JobFields DEF LInv, TypeOK, WriteArchive, TornArchive, JobFits
<1>2. UNCHANGED <<lines, inode, snap, minted, events, acked>>
  BY DEF WriteArchive, TornArchive
<1>3. ChainIntact' /\ EventsNumbered' /\ FollowupsStayLive'
  BY <1>2 DEF LInv, ChainIntact, EventsNumbered, FollowupsStayLive
<1>4. ASSUME NEW x \in Job, job' = [job EXCEPT ![p] = x], JobFits(x)',
             NEW as \in Seq(LineType), archive' = [archive EXCEPT ![j.run] = as],
             crashes' \in 0..MaxCrashes
      PROVE  LInv'
  <2>1. /\ job' \in [Proc -> Job] /\ \A q \in Proc : job'[q] = x
    BY <1>4, OnlyJob DEF LInv
  <2>2. TypeOK'
    BY <1>1, <1>2, <1>4, <2>1 DEF LInv, TypeOK
  <2>3. \A q \in Proc : JobFits(job[q])'
    BY <1>4, <2>1
  <2> QED
    BY <1>3, <2>2, <2>3 DEF LInv
<1>5. CASE WriteArchive(p)
  <2>1. PICK x : x = [j EXCEPT !.at = "verify"]
    OBVIOUS
  <2>2. /\ x \in Job /\ x.at = "verify" /\ x.run = j.run
        /\ x.mine = j.mine /\ x.rest = j.rest
    BY <1>1, <2>1, NextJobs
  <2>3. PICK as : as = Rewritten(j.mine)
    OBVIOUS
  <2>4. as \in Seq(LineType)
    BY <1>1, <2>3, RewrittenIsWhole
  <2>5. /\ job' = [job EXCEPT ![p] = x] /\ archive' = [archive EXCEPT ![j.run] = as]
        /\ crashes' = crashes
    BY <1>5, <2>1, <2>3 DEF WriteArchive, Goto
  <2>6. archive'[x.run] = Rewritten(x.mine)
    BY <1>1, <2>2, <2>3, <2>5 DEF LInv, TypeOK
  <2>7. Split(x)'
    BY <1>1, <1>2, <2>2 DEF Split
  <2>8. JobFits(x)'
    BY <2>2, <2>6, <2>7 DEF JobFits
  <2> QED
    BY <1>4, <2>2, <2>4, <2>5, <2>8 DEF LInv, TypeOK
<1>6. CASE TornArchive(p)
  <2>1. PICK as \in Seq(LineType) : archive' = [archive EXCEPT ![j.run] = as]
    BY <1>1, <1>6, ArchiveTypes DEF TornArchive
  <2>2. job' = [job EXCEPT ![p] = Idle]
    BY <1>6 DEF TornArchive, Done
  <2>3. crashes' \in 0..MaxCrashes
    BY <1>6, LedgerAssumption DEF TornArchive, LInv, TypeOK
  <2>4. Idle \in Job /\ JobFits(Idle)'
    BY NextJobs DEF Idle, JobFits
  <2> QED
    BY <1>4, <2>1, <2>2, <2>3, <2>4
<1> QED
  BY <1>5, <1>6

\* The log is replaced by what is to stay of it, chained anew.
LEMMA CompactStep ==
  ASSUME OneWriter, LInv, NEW p \in Proc, Compact(p)
  PROVE  LInv'
<1> DEFINE j == job[p]
<1>1. /\ j \in Job /\ j.at = "compact" /\ Split(j) /\ j.rest \in Seq(LineType)
      /\ lines' = Rewritten(j.rest) /\ inode' = inode + 1
      /\ UNCHANGED <<archive, snap, minted, events, crashes, acked>>
  BY JobFields DEF LInv, TypeOK, Compact, JobFits
<1>2. PICK x : x = [j EXCEPT !.at = "clear"]
  OBVIOUS
<1>3. x \in Job /\ x.at = "clear" /\ job' = [job EXCEPT ![p] = x]
  BY <1>1, <1>2, NextJobs DEF Compact, Goto
<1>4. /\ job' \in [Proc -> Job] /\ \A q \in Proc : job'[q] = x
  BY <1>3, OnlyJob DEF LInv
<1>5. /\ lines' \in Seq(LineType) /\ DOMAIN lines' = DOMAIN j.rest
      /\ \A m \in DOMAIN lines' :
           /\ lines'[m].ev = j.rest[m].ev /\ lines'[m].run = j.rest[m].run
           /\ lines'[m].kind = j.rest[m].kind /\ lines'[m].whole
      /\ \A m \in DOMAIN lines' : ~ Break(lines', m)
  BY <1>1, RewrittenIsWhole
<1>6. \A m \in DOMAIN lines' : \E n \in DOMAIN lines :
        /\ lines'[m].ev = lines[n].ev
        /\ lines'[m].run = lines[n].run /\ lines'[m].kind = lines[n].kind
  BY <1>1, <1>5 DEF Split
<1>7. TypeOK'
  BY <1>1, <1>4, <1>5 DEF LInv, TypeOK
<1>8. EventsNumbered'
  BY <1>1, <1>6 DEF LInv, EventsNumbered, Same
<1>9. FollowupsStayLive'
  <2> SUFFICES ASSUME NEW e \in acked, e.kind = "followup"
               PROVE  Holds(lines', e)
    BY <1>1 DEF FollowupsStayLive
  <2>1. PICK n \in Parsed(lines) : lines[n].ev = e.ev
    BY DEF LInv, FollowupsStayLive, Holds
  <2>2. lines[n].kind = "followup"
    BY <2>1 DEF LInv, EventsNumbered, Same, Parsed
  <2>3. ~ Mine(lines[n], j.run)
    BY <2>2 DEF Mine, KeepLive
  <2>4. \E m \in DOMAIN j.rest : j.rest[m].ev = e.ev
    BY <1>1, <2>1, <2>3 DEF Split
  <2> QED
    BY <1>5, <2>4 DEF Holds, Parsed
<1>10. \A q \in Proc : JobFits(job[q])'
  BY <1>3, <1>4 DEF JobFits
<1>11. ChainIntact'
  BY <1>5 DEF ChainIntact
<1> QED
  BY <1>7, <1>8, <1>9, <1>10, <1>11 DEF LInv

-----------------------------------------------------------------------------
(* The theorems.                                                           *)

\* The inductive invariant.
LEMMA LInvariance == OneWriter => (Spec => []LInv)
<1> SUFFICES ASSUME OneWriter PROVE Spec => []LInv
  OBVIOUS
<1>1. Init => LInv
  <2> SUFFICES ASSUME Init PROVE LInv
    OBVIOUS
  <2>1. TypeOK
    BY NextJobs, EmptySeq, LedgerAssumption DEF Init, TypeOK
  <2>2. \A p \in Proc : JobFits(job[p])
    BY DEF Init, JobFits, Idle
  <2>3. DOMAIN lines = {}
    BY DEF Init
  <2> QED
    BY <2>1, <2>2, <2>3
       DEF Init, LInv, ChainIntact, EventsNumbered, FollowupsStayLive
<1>2. LInv /\ [Next]_vars => LInv'
  <2> SUFFICES ASSUME LInv, [Next]_vars PROVE LInv'
    OBVIOUS
  <2>1. ASSUME NEW p \in Proc,
               \/ BeginStart(p)
               \/ \E kind \in {"record", "followup"} : BeginRecord(p, kind)
               \/ BeginClose(p)
        PROVE  LInv'
    BY <2>1, BeginSteps
  <2>2. ASSUME NEW p \in Proc, OpenLog(p) PROVE LInv'
    BY <2>2, OpenStep
  <2>3. ASSUME NEW p \in Proc, WriteLine(p) \/ TornWrite(p) PROVE LInv'
    BY <2>3, WriteSteps
  <2>4. ASSUME NEW p \in Proc, SaveSnapshot(p) \/ ClearRun(p) \/ Crash(p) PROVE LInv'
    BY <2>4, EndSteps
  <2>5. ASSUME NEW p \in Proc, Scan(p) PROVE LInv'
    BY <2>5, ScanStep
  <2>6. ASSUME NEW p \in Proc, WriteArchive(p) \/ TornArchive(p) PROVE LInv'
    BY <2>6, ArchiveSteps
  <2>7. ASSUME NEW p \in Proc, Verify(p) PROVE LInv'
    BY <2>7, VerifyStep
  <2>8. ASSUME NEW p \in Proc, Compact(p) PROVE LInv'
    BY <2>8, CompactStep
  <2>9. CASE UNCHANGED vars
    BY <2>9 DEF vars, LInv, TypeOK, ChainIntact, EventsNumbered, FollowupsStayLive,
       JobFits, ReadyToWrite, Split
  <2> QED
    BY <2>1, <2>2, <2>3, <2>4, <2>5, <2>6, <2>7, <2>8, <2>9 DEF Next
<1> QED
  BY <1>1, <1>2, PTL DEF Spec

\* The log, the archives and every command stay well-formed, with any number
\* of processes writing at once: a line run into another is still a line.
THEOREM LedgerTypeCorrect == Spec => []TypeOK
<1>1. Init => TypeOK
  BY NextJobs, EmptySeq, LedgerAssumption DEF Init, TypeOK
<1> QED
  BY <1>1, TypesKept, PTL DEF Spec

\* With one writer VerifyChain never reports a break, wherever the writer was
\* killed and whatever was healed, skipped or compacted since.
THEOREM ChainStaysIntact ==
  ASSUME OneWriter
  PROVE  Spec => []ChainIntact
<1>1. LInv => ChainIntact
  BY DEF LInv
<1> QED
  BY <1>1, LInvariance, PTL

\* An acknowledged followup is in the live log for good.
THEOREM FollowupsOutliveRuns ==
  ASSUME OneWriter
  PROVE  Spec => []FollowupsStayLive
<1>1. LInv => FollowupsStayLive
  BY DEF LInv
<1> QED
  BY <1>1, LInvariance, PTL

\* Append returns only once its event is readable, on a log whose last write
\* may have been cut short.
THEOREM AckIsReadable ==
  ASSUME OneWriter
  PROVE  Spec => AckedMeansReadable
<1>1. LInv /\ [Next]_vars => [\A e \in acked' \ acked : Holds(lines', e)]_vars
  <2> SUFFICES ASSUME LInv, Next, NEW e \in acked' \ acked
               PROVE  Holds(lines', e)
    OBVIOUS
  <2>1. PICK p \in Proc : WriteLine(p)
    BY DEF Next, BeginStart, BeginRecord, BeginClose, OpenLog, TornWrite,
       SaveSnapshot, Scan, WriteArchive, TornArchive, Verify, Compact, ClearRun, Crash
  <2>2. /\ job[p].at = "write" /\ Write(p, TRUE, TRUE)
        /\ acked' = acked \cup {EventOf(job[p])}
    BY <2>1 DEF WriteLine
  <2>3. PICK l \in LineType : /\ lines' = Append(lines, l)
                              /\ l.ev = job[p].ev /\ l.whole = TRUE
    BY <2>2, WriteAppends
  <2>4. DOMAIN lines' = DOMAIN lines \cup {Len(lines) + 1} /\ lines'[Len(lines) + 1] = l
    BY <2>3, AppendedLines DEF LInv
  <2>5. e.ev = job[p].ev
    BY <2>2 DEF EventOf
  <2> QED
    BY <2>3, <2>4, <2>5 DEF Holds, Parsed
<1> QED
  BY <1>1, LInvariance, PTL DEF Spec, AckedMeansReadable

\* An event leaves the log only once the archive of its run holds it: of the
\* steps of a close, and of what a kill makes of them, only Compact takes
\* anything out, and what it takes out Verify has found archived.
THEOREM EventsAreMoved ==
  ASSUME OneWriter
  PROVE  Spec => MovedNotDropped
<1> DEFINE Moved == \A e \in acked :
                      Holds(lines, e) => Holds(lines', e) \/ Holds(archive'[e.run], e)
<1>1. LInv /\ [Next]_vars => [Moved]_vars
  <2> SUFFICES ASSUME LInv, Next PROVE Moved
    OBVIOUS
  <2>1. CASE lines' = lines
    BY <2>1
  <2>2. ASSUME NEW p \in Proc, OpenLog(p) PROVE Moved
    <3>1. Alike(lines, lines')
      BY <2>2, HealedIsAlike DEF OpenLog, LInv, TypeOK
    <3> QED
      BY <3>1 DEF Alike, Holds, Parsed
  <2>3. ASSUME NEW p \in Proc, WriteLine(p) \/ TornWrite(p) PROVE Moved
    <3>1. PICK whole \in BOOLEAN, ended \in BOOLEAN :
            job[p].at = "write" /\ Write(p, whole, ended)
      BY <2>3 DEF WriteLine, TornWrite
    <3>2. PICK l \in LineType : lines' = Append(lines, l)
      BY <3>1, WriteAppends
    <3>3. /\ DOMAIN lines \subseteq DOMAIN lines'
          /\ \A n \in DOMAIN lines : lines'[n] = lines[n]
      BY <3>2, AppendedLines DEF LInv
    <3> QED
      BY <3>3 DEF Holds, Parsed
  <2>4. ASSUME NEW p \in Proc, Compact(p) PROVE Moved
    <3> DEFINE j == job[p]
    <3>1. /\ j \in Job /\ Split(j) /\ archive[j.run] = Rewritten(j.mine)
          /\ j.mine \in Seq(LineType) /\ j.rest \in Seq(LineType)
          /\ lines' = Rewritten(j.rest) /\ archive' = archive
      BY <2>4, JobFields DEF LInv, TypeOK, Compact, JobFits
    <3> SUFFICES ASSUME NEW e \in acked, Holds(lines, e)
                 PROVE  Holds(lines', e) \/ Holds(archive'[e.run], e)
      OBVIOUS
    <3>2. PICK n \in Parsed(lines) : lines[n].ev = e.ev
      BY DEF Holds
    <3>3. CASE Mine(lines[n], j.run)
      <4>1. lines[n].run = j.run /\ lines[n].run = e.run
        BY <3>2, <3>3 DEF Mine, LInv, EventsNumbered, Same, Parsed
      <4>2. \E m \in DOMAIN j.mine : j.mine[m].ev = e.ev
        BY <3>1, <3>2, <3>3 DEF Split
      <4>3. Holds(Rewritten(j.mine), e)
        BY <3>1, <4>2, RewrittenIsWhole DEF Holds, Parsed
      <4> QED
        BY <3>1, <4>1, <4>3
    <3>4. CASE ~ Mine(lines[n], j.run)
      <4>1. \E m \in DOMAIN j.rest : j.rest[m].ev = e.ev
        BY <3>1, <3>2, <3>4 DEF Split
      <4> QED
        BY <3>1, <4>1, RewrittenIsWhole DEF Holds, Parsed
    <3> QED
      BY <3>3, <3>4
  <2> QED
    BY <2>1, <2>2, <2>3, <2>4 DEF Next, BeginStart, BeginRecord, BeginClose,
       SaveSnapshot, Scan, WriteArchive, TornArchive, Verify, ClearRun, Crash
<1> QED
  BY <1>1, LInvariance, PTL DEF Spec, MovedNotDropped

=============================================================================
