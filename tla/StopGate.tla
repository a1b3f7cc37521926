------------------------------ MODULE StopGate ------------------------------
(***************************************************************************)
(* The Stop gate (internal/gates): when an agent wants to end its turn the *)
(* hook either lets it, or sends it back to work on what the phase         *)
(* contract still misses.  After stopSelfCap identical blocks it gives way *)
(* and records an escape.  The count is kept in one file per project,      *)
(* local/stop-gate.json, whatever number of sessions is open.              *)
(*                                                                         *)
(* The harness (external) tells the hook whether the agent is already      *)
(* working on account of an earlier block of the same turn.                *)
(***************************************************************************)
EXTENDS Naturals, FiniteSets

CONSTANTS
  Session,      \* sessions on the project
  Unenforced,   \* those started with WF_ENFORCE=0
  Item,         \* contract items an agent can satisfy, in contract order
  MaxHashed,    \* unmet items that make up the hash
  LastPhase,    \* phases are 1..LastPhase, 0 when all are exited
  MaxChanges,   \* bound: steps of agent, user and reviewer
  MaxTurns      \* bound: prompts

NoSession == "none"
StopSelfCap == 3

ASSUME StopGateAssumption ==
  /\ Session # {} /\ NoSession \notin Session /\ Unenforced \subseteq Session
  /\ Item \subseteq Nat /\ MaxHashed \in Nat \ {0} /\ LastPhase \in Nat \ {0}
  /\ MaxChanges \in Nat /\ MaxTurns \in Nat

VARIABLES
  status,     \* of the run: "none", "active" or "parked"
  phase,      \* its phase, 0 for ""
  unmet,      \* unmet contract items the agent can work on
  asks,       \* an unmet item only the user can satisfy
  reviewing,  \* a gating reviewer runs in the background
  turn,       \* session -> "idle", "working", or "sentback" by the hook
  gate,       \* local/stop-gate.json
  offNoted,   \* session named in local/enforce-off.json
  changes,    \* steps of agent, user and reviewer so far
  turns,      \* prompts so far
  escapes,    \* finding sets whose release is recorded, in this run
  answer,     \* history: the hook's last answer
  blocked     \* history: session -> the blocks in a row it got

work  == <<status, phase, unmet, asks, reviewing>>
files == <<gate, offNoted>>
vars  == <<work, turn, files, changes, turns, escapes, answer, blocked>>

-----------------------------------------------------------------------------
(* The finding set an answer is about.  Neither the exit nor the close      *)
(* reminder names a phase.                                                 *)

NoHash    == <<"none">>
CloseHash == <<"run.close">>
ExitHash  == <<"phase.exit">>
ItemHash(items) ==
  <<"items", phase, {i \in items : Cardinality({j \in items : j <= i}) <= MaxHashed}>>

NoGate    == [session |-> NoSession, hash |-> NoHash, count |-> 0]
NoAnswer  == [kind |-> "none", session |-> NoSession, hash |-> NoHash]
NoBlocks  == [hash |-> NoHash, n |-> 0, turn |-> 0]

Init ==
  /\ status = "none" /\ phase = 0 /\ unmet = {} /\ asks = FALSE
  /\ reviewing = FALSE
  /\ turn = [s \in Session |-> "idle"]
  /\ gate = NoGate /\ offNoted = NoSession
  /\ changes = 0 /\ turns = 0
  /\ escapes = {}
  /\ answer = NoAnswer
  /\ blocked = [s \in Session |-> NoBlocks]

-----------------------------------------------------------------------------
(* What goes on around the hook.                                           *)

Change ==
  /\ changes < MaxChanges
  /\ changes' = changes + 1
  /\ UNCHANGED <<turn, turns>>

\* A phase begins with some of its items unmet.
EnterPhase(p) ==
  /\ phase' = p
  /\ IF p = 0 THEN unmet' = {} /\ asks' = FALSE
     ELSE unmet' \in SUBSET Item /\ asks' \in BOOLEAN

StartRun ==
  /\ status = "none"
  /\ Change
  /\ status' = "active"
  /\ EnterPhase(1)
  /\ UNCHANGED <<reviewing, files, escapes, answer, blocked>>

\* Records are added or revoked.
Progress ==
  /\ status = "active" /\ phase # 0
  /\ Change
  /\ EnterPhase(phase)
  /\ UNCHANGED <<status, reviewing, files, escapes, answer, blocked>>

\* Fault: the last phase is followed by another.
NoLastPhase == phase + 1

NextPhase == IF phase = LastPhase THEN 0 ELSE phase + 1

ExitPhase ==
  /\ status = "active" /\ phase # 0 /\ unmet = {} /\ ~ asks
  /\ Change
  /\ EnterPhase(NextPhase)
  /\ UNCHANGED <<status, reviewing, files, escapes, answer, blocked>>

ParkOrResume ==
  /\ status # "none"
  /\ Change
  /\ status' = IF status = "active" THEN "parked" ELSE "active"
  /\ UNCHANGED <<phase, unmet, asks, reviewing, files, escapes, answer, blocked>>

\* Fault: the count outlives the run.
NotPruned == gate

\* PruneLocal removes the local files with the run.
Pruned == NoGate

CloseRun ==
  /\ status = "active" /\ phase = 0
  /\ Change
  /\ status' = "none"
  /\ gate' = Pruned /\ offNoted' = NoSession /\ escapes' = {}
  /\ answer' = NoAnswer
  /\ blocked' = [s \in Session |-> NoBlocks]
  /\ UNCHANGED <<phase, unmet, asks, reviewing>>

\* A background reviewer is launched or answers.
Review ==
  /\ Change
  /\ reviewing' = ~ reviewing
  /\ UNCHANGED <<status, phase, unmet, asks, files, escapes, answer, blocked>>

\* A prompt of the user starts a turn.
Prompt(s) ==
  /\ turn[s] = "idle"
  /\ turns < MaxTurns
  /\ turns' = turns + 1
  /\ turn' = [turn EXCEPT ![s] = "working"]
  /\ UNCHANGED <<work, files, changes, escapes, answer, blocked>>

-----------------------------------------------------------------------------
(* The hook.                                                               *)

UpToCap(n) == IF n > StopSelfCap THEN StopSelfCap ELSE n

\* s is blocked once more; the others' turns are no longer undisturbed.
BlockedOver(s, hash) ==
  LET b == blocked[s]
  IN  [t \in Session |->
        IF t # s THEN [blocked[t] EXCEPT !.turn = 0]
        ELSE [hash |-> hash,
              n    |-> IF b.hash = hash THEN UpToCap(b.n + 1) ELSE 1,
              turn |-> IF b.hash = hash /\ turn[s] = "sentback"
                       THEN UpToCap(b.turn) + 1 ELSE 1]]

Answer(s, kind, hash) ==
  /\ answer' = [kind |-> kind, session |-> s, hash |-> hash]
  /\ turn' = [turn EXCEPT ![s] = IF kind = "block" THEN "sentback" ELSE "idle"]
  /\ blocked' = IF kind = "block" THEN BlockedOver(s, hash) ELSE blocked
  /\ UNCHANGED <<work, changes, turns>>

Allow(s) == UNCHANGED <<files, escapes>> /\ Answer(s, "allow", NoHash)

\* WF_ENFORCE=0: a warning, noted once per session as an escape of the run.
Warn(s) ==
  /\ UNCHANGED <<gate, escapes>>
  /\ offNoted' = IF status = "active" THEN s ELSE offNoted
  /\ Answer(s, "allow", NoHash)

\* Fault: the count is not kept from one block to the next.
CountedAnew(s, hash) == [session |-> s, hash |-> hash, count |-> 1]

\* The count goes on for the same finding set in the same session.
Counted(s, hash) ==
  [session |-> s, hash |-> hash,
   count |-> IF gate.session = s /\ gate.hash = hash
             THEN gate.count + 1 ELSE 1]

\* Fault: the cap never releases.
NeverGivesWay(s, count) == FALSE

GivesWay(s, count) == turn[s] = "sentback" /\ count > StopSelfCap

\* Recorded by the release that first passes the cap only.
Records(count) == count = StopSelfCap + 1

\* stopBlockCounted
Counting(s, hash) ==
  LET g == Counted(s, hash)
  IN  /\ gate' = g
      /\ offNoted' = offNoted
      /\ IF GivesWay(s, g.count)
         THEN /\ escapes' = IF Records(g.count) THEN escapes \cup {hash}
                            ELSE escapes
              /\ Answer(s, "release", hash)
         ELSE escapes' = escapes /\ Answer(s, "block", hash)

Stop(s) ==
  /\ turn[s] # "idle"
  /\ \/ s \in Unenforced /\ Warn(s)
     \/ /\ s \notin Unenforced
        /\ \/ status # "active" /\ Allow(s)
           \/ status = "active" /\ phase = 0 /\ Counting(s, CloseHash)
           \/ /\ status = "active" /\ phase # 0
              /\ \/ unmet = {} /\ ~ asks /\ Counting(s, ExitHash)
                 \/ unmet = {} /\ asks /\ Allow(s)
                 \/ unmet # {} /\ reviewing /\ Allow(s)
                 \/ unmet # {} /\ ~ reviewing /\ Counting(s, ItemHash(unmet))

Next ==
  \/ StartRun
  \/ Progress
  \/ ExitPhase
  \/ ParkOrResume
  \/ CloseRun
  \/ Review
  \/ \E s \in Session : Prompt(s) \/ Stop(s)

Spec == Init /\ [][Next]_vars

\* A turn that goes on comes to the point where the agent wants to stop.
Fairness == \A s \in Session : WF_vars(Stop(s))

FairSpec == Spec /\ Fairness

-----------------------------------------------------------------------------
(* Properties.                                                             *)

Hash == {NoHash, CloseHash, ExitHash} \cup
        {<<"items", p, i>> : p \in 1..LastPhase, i \in SUBSET Item}

TypeOK ==
  /\ status \in {"none", "active", "parked"}
  /\ phase \in 0..LastPhase
  /\ unmet \subseteq Item
  /\ turn \in [Session -> {"idle", "working", "sentback"}]
  /\ gate.session \in Session \cup {NoSession} /\ gate.hash \in Hash
  /\ gate.count \in Nat
  /\ offNoted \in Unenforced \cup {NoSession}
  /\ escapes \subseteq Hash

\* A session is let go only after it was itself blocked three times in a row
\* over this finding set: not on account of another session, of another
\* finding set, or of blocks in a run before.
ReleaseIsEarned ==
  answer.kind = "release" =>
    LET b == blocked[answer.session]
    IN  b.hash = answer.hash /\ b.n >= StopSelfCap

\* Within one turn the same finding set blocks a session three times at most,
\* while no other session is blocked in between.
BlocksAreCapped == \A s \in Session : blocked[s].turn <= StopSelfCap

\* The gate holds nobody for ever: a turn comes to its end, unless another
\* session takes the count over.
EveryTurnEnds ==
  \A s \in Session :
    turn[s] # "idle" ~> turn[s] = "idle" \/ gate.session \notin {s, NoSession}

=============================================================================
