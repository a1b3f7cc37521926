-------------------------- MODULE StopGate_proofs --------------------------
(***************************************************************************)
(* Proofs about StopGate, for every set of sessions, items and phases and  *)
(* every number of changes and prompts: a session is let go only when it   *)
(* was itself blocked long enough, and is not blocked longer.              *)
(***************************************************************************)
EXTENDS StopGate, TLAPS

-----------------------------------------------------------------------------
(* The inductive invariant.                                                *)

Blocks == [hash : Hash, n : 0..StopSelfCap, turn : 0..StopSelfCap+1]

Gate == [session : Session \cup {NoSession}, hash : Hash, count : Nat]

Types ==
  /\ TypeOK
  /\ gate \in Gate
  /\ blocked \in [Session -> Blocks]
  /\ answer.kind = "release" => answer.session \in Session

\* The file counts no more than the blocks in a row that its session got over
\* its finding set; past the cap it also counts releases.
CountIsOfBlocks ==
  gate.session # NoSession =>
    LET b == blocked[gate.session]
    IN  gate.count > 0 /\ b.hash = gate.hash /\ b.n >= UpToCap(gate.count)

\* And no less than those of the present turn, as long as no other session
\* was blocked in between.
BlocksAreCounted ==
  \A s \in Session :
    LET b == blocked[s]
    IN  b.turn > 0 => /\ gate.session = s /\ gate.hash = b.hash
                      /\ gate.count >= b.turn

IInv ==
  Types /\ CountIsOfBlocks /\ BlocksAreCounted /\ BlocksAreCapped /\ ReleaseIsEarned

-----------------------------------------------------------------------------
(* Hashes and counts.                                                      *)

\* A finding set is named by what the answers know of it.
LEMMA HashesAreHashes ==
  /\ NoHash \in Hash /\ CloseHash \in Hash /\ ExitHash \in Hash
  /\ TypeOK /\ phase # 0 => ItemHash(unmet) \in Hash
<1>1. ASSUME TypeOK, phase # 0
      PROVE  ItemHash(unmet) \in Hash
  <2>1. phase \in 1..LastPhase
    BY <1>1, StopGateAssumption DEF TypeOK
  <2> DEFINE top == {i \in unmet : Cardinality({j \in unmet : j <= i}) <= MaxHashed}
  <2>2. top \in SUBSET Item
    BY <1>1 DEF TypeOK
  <2>3. ItemHash(unmet) = <<"items", phase, top>>
    BY DEF ItemHash
  <2> HIDE DEF top
  <2> QED
    BY <2>1, <2>2, <2>3 DEF Hash
<1> QED
  BY <1>1 DEF Hash

\* The cap on consecutive blocks is a number.
LEMMA CapIsCap ==
  \A n \in Nat : /\ UpToCap(n) \in 0..StopSelfCap
                 /\ UpToCap(n) <= n
                 /\ n >= StopSelfCap => UpToCap(n) = StopSelfCap
                 /\ n < StopSelfCap => UpToCap(n) = n
  BY DEF UpToCap, StopSelfCap

-----------------------------------------------------------------------------
(* The steps.                                                              *)

\* The invariant holds at the start.
LEMMA InitHolds == Init => IInv
<1> SUFFICES ASSUME Init
             PROVE  IInv
  OBVIOUS
<1>1. Types
  BY StopGateAssumption, HashesAreHashes
  DEF Init, Types, TypeOK, Gate, Blocks, NoGate, NoAnswer, NoBlocks, StopSelfCap
<1> QED
  BY <1>1 DEF Init, IInv, CountIsOfBlocks, BlocksAreCounted, BlocksAreCapped,
              ReleaseIsEarned, NoGate, NoAnswer, NoBlocks, StopSelfCap

\* A step that leaves the count and the blocks alone and releases nobody.
LEMMA QuietStep ==
  ASSUME IInv, TypeOK', UNCHANGED <<gate, blocked>>,
         answer' = answer \/ answer'.kind # "release"
  PROVE  IInv'
<1>1. Types'
  BY DEF IInv, Types
<1>2. CountIsOfBlocks' /\ BlocksAreCounted' /\ BlocksAreCapped'
  BY DEF IInv, CountIsOfBlocks, BlocksAreCounted, BlocksAreCapped
<1>3. ReleaseIsEarned'
  BY DEF IInv, ReleaseIsEarned
<1> QED
  BY <1>1, <1>2, <1>3 DEF IInv

\* What agent, user and reviewer do keeps the types.
LEMMA WorkKeepsTypes ==
  ASSUME TypeOK, StartRun \/ Progress \/ ExitPhase \/ ParkOrResume \/ Review
  PROVE  TypeOK'
<1> USE DEF TypeOK
<1>1. ASSUME NEW p \in 0..LastPhase, EnterPhase(p)
      PROVE  phase' \in 0..LastPhase /\ unmet' \subseteq Item
  BY <1>1 DEF EnterPhase
<1>2. NextPhase \in 0..LastPhase
  BY StopGateAssumption DEF NextPhase
<1>3. 1 \in 0..LastPhase
  BY StopGateAssumption
<1>4. CASE StartRun
  BY <1>1, <1>3, <1>4 DEF StartRun, Change, files
<1>5. CASE Progress
  BY <1>1, <1>5 DEF Progress, Change, files
<1>6. CASE ExitPhase
  BY <1>1, <1>2, <1>6 DEF ExitPhase, Change, files
<1>7. CASE ParkOrResume
  BY <1>7 DEF ParkOrResume, Change, files
<1>8. CASE Review
  BY <1>8 DEF Review, Change, files
<1> QED
  BY <1>4, <1>5, <1>6, <1>7, <1>8

\* One more block, or a release, over a finding set.
LEMMA CountingStep ==
  ASSUME IInv, NEW s \in Session \ Unenforced, NEW hash \in Hash, Counting(s, hash)
  PROVE  IInv'
<1> DEFINE g == Counted(s, hash)
           n == g.count
           b == blocked[s]
<1>t. /\ TypeOK /\ gate \in Gate /\ blocked \in [Session -> Blocks] /\ b \in Blocks
      /\ b.n \in 0..StopSelfCap /\ b.turn \in 0..StopSelfCap
  BY DEF IInv, Types, Blocks, BlocksAreCapped
<1>1. /\ g \in Gate /\ g.session = s /\ g.hash = hash
      /\ n = IF gate.session = s /\ gate.hash = hash THEN gate.count + 1 ELSE 1
  BY <1>t DEF Counted, Gate
<1>2. gate' = g /\ offNoted' = offNoted /\ UNCHANGED <<work, changes, turns>>
  BY DEF Counting, Answer
<1>3. n \in Nat \ {0}
  BY <1>1, <1>t DEF Gate
<1>4. s # NoSession
  BY StopGateAssumption
<1> HIDE DEF g
<1>5. CASE GivesWay(s, n)
  <2>1. answer' = [kind |-> "release", session |-> s, hash |-> hash]
    BY <1>5 DEF Counting, Answer, g
  <2>2. blocked' = blocked
    BY <1>5 DEF Counting, Answer, g
  <2>3. turn' = [turn EXCEPT ![s] = "idle"]
    BY <1>5 DEF Counting, Answer, g
  <2>4. escapes' \subseteq Hash
    BY <1>5, <1>t DEF Counting, g, TypeOK
  <2>5. n > StopSelfCap
    BY <1>5 DEF GivesWay
  <2>6. gate.session = s /\ gate.hash = hash /\ gate.count + 1 = n
    BY <1>1, <2>5 DEF StopSelfCap
  <2>7. b.hash = hash /\ b.n = StopSelfCap
    BY <1>4, <1>t, <2>5, <2>6, CapIsCap DEF IInv, CountIsOfBlocks, Gate, StopSelfCap
  <2>8. Types'
    BY <1>1, <1>2, <1>t, <2>1, <2>2, <2>3, <2>4 DEF Types, TypeOK, Gate, work
  <2>9. CountIsOfBlocks'
    BY <1>1, <1>2, <1>3, <2>2, <2>7, CapIsCap DEF CountIsOfBlocks, StopSelfCap
  <2>10. BlocksAreCounted'
    <3> SUFFICES ASSUME NEW t \in Session, blocked[t].turn > 0
                 PROVE  g.session = t /\ g.hash = blocked[t].hash /\ g.count >= blocked[t].turn
      BY <1>2, <2>2 DEF BlocksAreCounted
    <3>1. /\ gate.session = t /\ gate.hash = blocked[t].hash
          /\ gate.count >= blocked[t].turn
      BY DEF IInv, BlocksAreCounted
    <3> QED
      BY <1>1, <1>t, <2>6, <3>1 DEF Gate, Blocks
  <2>11. BlocksAreCapped' /\ ReleaseIsEarned'
    BY <2>1, <2>2, <2>7 DEF IInv, BlocksAreCapped, ReleaseIsEarned, StopSelfCap
  <2> QED
    BY <2>8, <2>9, <2>10, <2>11 DEF IInv
<1>6. CASE ~ GivesWay(s, n)
  <2> DEFINE c == blocked'[s]
  <2>1. /\ answer' = [kind |-> "block", session |-> s, hash |-> hash]
        /\ blocked' = BlockedOver(s, hash)
        /\ turn' = [turn EXCEPT ![s] = "sentback"]
        /\ escapes' = escapes
    BY <1>6 DEF Counting, Answer, g
  <2>2. /\ c.hash = hash
        /\ c.n = IF b.hash = hash THEN UpToCap(b.n + 1) ELSE 1
        /\ c.turn = IF b.hash = hash /\ turn[s] = "sentback"
                    THEN UpToCap(b.turn) + 1 ELSE 1
        /\ c = [hash |-> c.hash, n |-> c.n, turn |-> c.turn]
    BY <2>1 DEF BlockedOver
  <2>3. \A t \in Session \ {s} : blocked'[t] \in Blocks /\ blocked'[t].turn = 0
    <3> TAKE t \in Session \ {s}
    <3>1. blocked'[t] = [blocked[t] EXCEPT !.turn = 0]
      BY <2>1 DEF BlockedOver
    <3>2. blocked[t] \in Blocks /\ 0 \in 0..StopSelfCap+1
      BY <1>t DEF StopSelfCap
    <3> QED
      BY <3>1, <3>2 DEF Blocks
  <2>4. blocked' = [t \in Session |-> blocked'[t]]
    BY <2>1 DEF BlockedOver
  <2> HIDE DEF c
  <2>5. c.n >= UpToCap(n) /\ c.n \in 0..StopSelfCap
    <3>1. CASE gate.session = s /\ gate.hash = hash
      <4>1. n = gate.count + 1 /\ b.hash = hash /\ b.n >= UpToCap(gate.count)
        BY <1>1, <1>4, <3>1 DEF IInv, CountIsOfBlocks
      <4>2. c.n = UpToCap(b.n + 1) /\ gate.count \in Nat
        BY <1>t, <2>2, <4>1 DEF Gate
      <4> QED
        BY <1>t, <4>1, <4>2 DEF UpToCap, StopSelfCap
    <3>2. CASE ~ (gate.session = s /\ gate.hash = hash)
      BY <1>1, <1>t, <2>2, <3>2 DEF UpToCap, StopSelfCap
    <3> QED
      BY <3>1, <3>2
  <2>6. c.turn <= n /\ c.turn \in 1..StopSelfCap
    <3>1. CASE b.hash = hash /\ turn[s] = "sentback" /\ b.turn > 0
      <4>1. gate.session = s /\ gate.hash = hash /\ gate.count >= b.turn
        BY <3>1 DEF IInv, BlocksAreCounted
      <4>2. n = gate.count + 1 /\ gate.count \in Nat /\ c.turn = b.turn + 1
        BY <1>1, <1>t, <2>2, <3>1, <4>1 DEF Gate, UpToCap, StopSelfCap
      <4>3. ~ (n > StopSelfCap)
        BY <1>6, <3>1 DEF GivesWay
      <4> QED
        BY <1>t, <4>1, <4>2, <4>3 DEF StopSelfCap
    <3>2. CASE ~ (b.hash = hash /\ turn[s] = "sentback" /\ b.turn > 0)
      <4>1. c.turn = 1
        BY <1>t, <2>2, <3>2 DEF UpToCap, StopSelfCap
      <4> QED
        BY <1>3, <4>1 DEF StopSelfCap
    <3> QED
      BY <3>1, <3>2
  <2>7. c \in Blocks
    BY <2>2, <2>5, <2>6 DEF Blocks, StopSelfCap
  <2>8. blocked' \in [Session -> Blocks]
    BY <2>3, <2>4, <2>7 DEF c
  <2>9. Types'
    BY <1>1, <1>2, <1>t, <2>1, <2>8 DEF Types, TypeOK, Gate, work
  <2>10. CountIsOfBlocks'
    BY <1>1, <1>2, <1>3, <2>2, <2>5 DEF CountIsOfBlocks, c
  <2>11. BlocksAreCounted'
    <3> SUFFICES ASSUME NEW t \in Session, blocked'[t].turn > 0
                 PROVE  /\ gate'.session = t /\ gate'.hash = blocked'[t].hash
                        /\ gate'.count >= blocked'[t].turn
      BY DEF BlocksAreCounted
    <3>1. t = s
      BY <2>3
    <3> QED
      BY <1>1, <1>2, <1>3, <2>2, <2>6, <3>1 DEF c
  <2>12. BlocksAreCapped'
    BY <2>3, <2>6 DEF BlocksAreCapped, StopSelfCap, c
  <2>13. ReleaseIsEarned'
    BY <2>1 DEF ReleaseIsEarned
  <2> QED
    BY <2>9, <2>10, <2>11, <2>12, <2>13 DEF IInv
<1> QED
  BY <1>5, <1>6

\* Every step keeps the invariant.
LEMMA NextKeeps == IInv /\ [Next]_vars => IInv'
<1> SUFFICES ASSUME IInv, [Next]_vars
             PROVE  IInv'
  OBVIOUS
<1>t. TypeOK
  BY DEF IInv, Types
<1>1. CASE StartRun \/ Progress \/ ExitPhase \/ ParkOrResume \/ Review
  <2>1. UNCHANGED <<gate, blocked, answer>>
    BY <1>1 DEF StartRun, Progress, ExitPhase, ParkOrResume, Review, files
  <2> QED
    BY <1>1, <1>t, <2>1, WorkKeepsTypes, QuietStep
<1>2. CASE CloseRun
  <2>1. /\ gate' = NoGate /\ offNoted' = NoSession /\ escapes' = {}
        /\ answer' = NoAnswer /\ status' = "none" /\ turn' = turn
        /\ blocked' = [s \in Session |-> NoBlocks]
        /\ UNCHANGED <<phase, unmet>>
    BY <1>2 DEF CloseRun, Pruned, Change
  <2>2. Types'
    BY <1>t, <2>1, HashesAreHashes
    DEF Types, TypeOK, Gate, Blocks, NoGate, NoAnswer, NoBlocks, StopSelfCap
  <2> QED
    BY <2>1, <2>2 DEF IInv, CountIsOfBlocks, BlocksAreCounted, BlocksAreCapped,
                      ReleaseIsEarned, NoGate, NoAnswer, NoBlocks, StopSelfCap
<1>3. ASSUME NEW s \in Session, Prompt(s)
      PROVE  IInv'
  <2>1. TypeOK' /\ UNCHANGED <<gate, blocked, answer>>
    BY <1>3, <1>t DEF Prompt, TypeOK, work, files
  <2> QED
    BY <2>1, QuietStep
<1>4. ASSUME NEW s \in Session, Stop(s)
      PROVE  IInv'
  <2>1. CASE s \in Unenforced /\ Warn(s)
    <3>1. TypeOK' /\ UNCHANGED <<gate, blocked>> /\ answer'.kind = "allow"
      BY <1>t, <2>1 DEF Warn, Answer, TypeOK, work
    <3> QED
      BY <3>1, QuietStep
  <2>2. CASE Allow(s)
    <3>1. TypeOK' /\ UNCHANGED <<gate, blocked>> /\ answer'.kind = "allow"
      BY <1>t, <2>2 DEF Allow, Answer, TypeOK, work, files
    <3> QED
      BY <3>1, QuietStep
  <2>3. CASE /\ s \notin Unenforced
             /\ \/ Counting(s, CloseHash) \/ Counting(s, ExitHash)
                \/ phase # 0 /\ Counting(s, ItemHash(unmet))
    BY <1>t, <2>3, HashesAreHashes, CountingStep
  <2> QED
    BY <1>4, <2>1, <2>2, <2>3 DEF Stop
<1>5. CASE UNCHANGED vars
  <2>1. TypeOK' /\ UNCHANGED <<gate, blocked, answer>>
    BY <1>5, <1>t DEF vars, work, files, TypeOK
  <2> QED
    BY <2>1, QuietStep
<1> QED
  BY <1>1, <1>2, <1>3, <1>4, <1>5 DEF Next

\* It holds at every moment of every behaviour.
LEMMA InvariantHolds == Spec => []IInv
  BY InitHolds, NextKeeps, PTL DEF Spec

-----------------------------------------------------------------------------
(* The theorems.                                                           *)

\* The run, its files and the turns are well-formed.
THEOREM StopTypeCorrect == Spec => []TypeOK
<1>1. IInv => TypeOK
  BY DEF IInv, Types
<1> QED
  BY <1>1, InvariantHolds, PTL

\* A session is let go only after three blocks of its own in a row over the
\* finding set it is let go with.
THEOREM ReleaseNeedsBlocks == Spec => []ReleaseIsEarned
<1>1. IInv => ReleaseIsEarned
  BY DEF IInv
<1> QED
  BY <1>1, InvariantHolds, PTL

\* Undisturbed by others a session is blocked three times in a turn over one
\* finding set, and no more.
THEOREM CapHolds == Spec => []BlocksAreCapped
<1>1. IInv => BlocksAreCapped
  BY DEF IInv
<1> QED
  BY <1>1, InvariantHolds, PTL

=============================================================================
