------------------------------ MODULE CloseOut -------------------------------
(***************************************************************************)
(* The end of a run, from Verify to the exit of Ship: records and their    *)
(* updates (Ctl.Record), approvals that bind what they approve, the        *)
(* close-out trace that turns what is left into findings (views.Trace),    *)
(* and the exits that ask for the contracts of workflow.yaml.              *)
(*                                                                         *)
(* A command is a process without a lock: what it read at its start may be *)
(* out of date when it writes, and it may be killed between two writes.    *)
(* Earlier phases are the events the run starts with.                      *)
(***************************************************************************)
EXTENDS Contracts

CONSTANTS
  Proc,      \* wf processes that may run at the same time
  Prior,     \* family -> the events and files Verify is entered with
  Writes,    \* family -> records that may be made: [kind, auto, data]
  Updates,   \* family -> updates that may be made, the same
  Gate,      \* gates that may be approved
  MaxWrites, \* bound: records, updates, approvals and files
  MaxForces, \* bound: forced exits, fewer than make the engine park the run
  MaxMoves   \* bound: writes, traces, forced exits and kills

ASSUME CloseOutAssumption ==
  /\ Proc # {}
  /\ {MaxWrites, MaxForces, MaxMoves} \subseteq Nat

VARIABLES
  phase,    \* "verify", "ship" or, all phases complete, "done"
  job,      \* process -> the command it executes
  writes,   \* records, updates, approvals and files so far
  moves,    \* those, and traces, forced exits and kills
  traced,   \* history: nothing but answers to findings since the last trace
            \* that nobody disturbed
  verified  \* history: the length of the log when Verify was left, by an exit
            \* nobody disturbed; 0 before and when it was forced

vars == <<family, evs, disk, phase, job, writes, moves, traced, verified>>

counted == <<family, writes, moves>>

-----------------------------------------------------------------------------
(* The events a run has and may get.                                       *)

Every == {"diff", "artifact", "assessment"}
Built == {"diff", "artifact"}

Phases == {"frame", "context", "design", "plan", "build", "verify", "ship"}

\* Of the fields a new record must have, those that are read below; a trace
\* gives its findings a key.
Required(kind) ==
  CASE kind = "requirement"    -> {"rid", "acs"}
    [] kind = "ac-verdict"     -> {"ac"}
    [] kind = "edit"           -> {"path"}
    [] kind = "scope-boundary" -> {"out_of_scope"}
    [] kind = "approval"       -> {"gate"}
    [] kind = "trace-finding"  -> {"key"}
    [] OTHER                   -> {}

\* An update is of an earlier record of its kind; phases log no updates.
WellFormed(log, n) ==
  /\ log[n].of \in 0..n-1
  /\ log[n].of # 0 =>
       /\ log[log[n].of].of = 0
       /\ log[log[n].of].kind = log[n].kind
       /\ log[n].kind # "phase"
  /\ log[n].of = 0 => Required(log[n].kind) \subseteq DOMAIN log[n].data
  /\ log[n].kind = "phase" =>
       /\ "action" \in DOMAIN log[n].data
       /\ log[n].data.action = "force" => log[n].data.phase \in Phases

\* The trace's and the engine's own records are not made by hand.
ASSUME RecordsAssumption ==
  /\ DOMAIN Prior \subseteq Every
  /\ \A f \in DOMAIN Prior :
       /\ Prior[f].evs \in Seq({Prior[f].evs[n] : n \in DOMAIN Prior[f].evs})
       /\ \A n \in DOMAIN Prior[f].evs : WellFormed(Prior[f].evs, n)
       /\ \A w \in Writes[f] : /\ w.kind \notin {"phase", "approval", "trace-finding"}
                               /\ Required(w.kind) \subseteq DOMAIN w.data
       /\ \A w \in Updates[f] : w.kind # "phase"

-----------------------------------------------------------------------------
(* The contracts of Verify and Ship and the entry to Ship.                 *)

Always == [intents |-> {}, config |-> {}]
OnIntent(i) == [Always EXCEPT !.intents = {i}]
OnFlag(c)   == [Always EXCEPT !.config = {c}]

Item(id, families, when, waivable, p) ==
  [id |-> id, families |-> families, when |-> when, waivable |-> waivable, check |-> p]

Exists(kind, filter) == [pred |-> "record-exists", kind |-> kind, filter |-> filter]

Closed(kind, field, open, filter) ==
  [pred |-> "no-open", kind |-> kind, field |-> field, open |-> open, filter |-> filter]

Verdict(agent, scope, statuses) ==
  [pred |-> "verdict-in", agent |-> agent, scope |-> scope, statuses |-> statuses]

Present(filter, mentions) ==
  [pred |-> "artifact-present", filter |-> filter, mentions |-> mentions]

ACVerdicts ==
  [pred |-> "per-each", kind |-> "requirement", each |-> "acs",
   item |-> [kind |-> "ac-verdict", link |-> "ac", filter |-> None]]

Passed == {"clean", "safe", "n/a"}
Stubs  == Closed("artifact", "status", {"stub"}, None)
Report == Present([role |-> {"deliverable-report"}], "finding")

VerifyItems ==
  { Item("verify.ac-verdicts", Built, Always, FALSE, ACVerdicts),
    Item("verify.no-failing-acs", Built, Always, FALSE,
         Closed("ac-verdict", "status", {"fail"}, None)),
    Item("verify.assumptions-discharged", Built, Always, TRUE,
         Closed("assumption", "status", {"open"}, [high_risk |-> {TRUE}])),
    Item("verify.adversary-confirm", Built, Always, FALSE,
         Verdict("adversary", "red-team", Passed)),
    Item("verify.conformance-confirm", Built, Always, FALSE,
         Verdict("design-conformance-reviewer", "", {"clean", "n/a"})),
    Item("verify.ux-confirm", Built, OnFlag("ux"), FALSE,
         Verdict("ux-reviewer", "", {"clean", "n/a"})),
    Item("verify.lens-pass", {"assessment"}, Always, FALSE,
         Verdict("lens-reviewer", "", Passed)),
    Item("verify.security-baseline", {"diff"}, Always, TRUE,
         Exists("test-run", [category |-> {"secret-scan"}, grounded |-> {TRUE},
                             exit |-> {0}])),
    Item("verify.quality-floor", {"diff"}, OnFlag("thresholds"), FALSE,
         Closed("metric", "below_threshold", {TRUE}, None)),
    Item("verify.smoke", Every, OnIntent("deploy"), FALSE,
         Exists("smoke-run", [exit |-> {0}])),
    Item("verify.rollback", Every, OnIntent("deploy"), FALSE,
         Exists("rollback-readiness", None)),
    Item("verify.findings-recorded", {"assessment"}, Always, TRUE,
         Exists("finding", None)),
    Item("verify.report-present", {"assessment"}, Always, FALSE, Report),
    Item("verify.artifacts-authored", Every, Always, FALSE, Stubs),
    Item("verify.origin-attributed", Every, OnIntent("investigate"), FALSE,
         Exists("origin", None)) }

ShipItems ==
  { Item("ship.trace-clean", Every, Always, FALSE,
         Closed("trace-finding", "status", {"open"}, None)),
    Item("ship.audited", Every, Always, FALSE, Verdict("auditor", "", Passed)),
    Item("ship.delivery", {"diff"}, Always, FALSE,
         Exists("artifact", [role |-> {"delivery"}])),
    Item("ship.delivery-manifest", Every, OnIntent("deploy"), FALSE,
         Present([role |-> {"delivery-manifest"}], "")),
    Item("ship.artifacts-authored", Every, Always, FALSE, Stubs),
    Item("ship.lessons-dispositioned", Every, Always, FALSE,
         Closed("lesson", "status", {"proposed"}, None)),
    Item("ship.tasks-resolved", Every, Always, FALSE,
         Closed("followup", "status", {"open"}, None)) }

ShipEntry ==
  { Item("ship.entry-ac-verdicts", Built, Always, TRUE, Exists("ac-verdict", None)),
    Item("ship.entry-report", {"assessment"}, Always, TRUE, Report) }

\* Fault: what is asked of a phase is asked of the entry to it.
EntryOnly(ph) == Unmet(IF ph = "verify" THEN ShipEntry ELSE ShipItems)

\* The exit of ph: its own contract, then the entry to the next phase.
Missing(ph) ==
  IF ph = "verify" THEN Unmet(VerifyItems) \cup Unmet(ShipEntry) ELSE Unmet(ShipItems)

-----------------------------------------------------------------------------
(* Commands.                                                               *)

Idle == [at |-> "idle"]

\* alone: nothing else has happened since the command began.
Quiet == \A p \in Proc : job[p] = Idle

Disturbed(j) == IF j = Idle THEN j ELSE [j EXCEPT !.alone = FALSE]

Step(p, j) == job' = [q \in Proc |-> IF q = p THEN j ELSE Disturbed(job[q])]

Begin(p, j) ==
  /\ job[p] = Idle
  /\ phase # "done"
  /\ Step(p, j)

Init ==
  /\ family \in DOMAIN Prior
  /\ evs = Prior[family].evs
  /\ disk = Prior[family].disk
  /\ phase = "verify"
  /\ job = [p \in Proc |-> Idle]
  /\ writes = 0 /\ moves = 0
  /\ traced = FALSE
  /\ verified = 0

Move == moves < MaxMoves /\ moves' = moves + 1

Event(kind, of, auto, data) == [kind |-> kind, of |-> of, auto |-> auto, data |-> data]

\* Commands of one write are a step of their own.
AtOnce(e) ==
  /\ Move
  /\ writes' = writes + 1
  /\ evs' = Append(evs, e)
  /\ job' = [q \in Proc |-> Disturbed(job[q])]
  /\ UNCHANGED <<family, disk, phase, verified>>

HasGroundedGreen(ac) ==
  \E r \in MatchRecords("test-run", [grounded |-> {TRUE}, exit |-> {0}]) :
    Str(r, "ac") = ac

\* validateRecord: what the rest of the log or the disk has to bear out.  It
\* looks at what the command says, not at the record an update is of.
MayRecord(kind, data, path) ==
  /\ kind = "ac-verdict" =>
       \/ data.status = "fail"
       \/ /\ data.status = "pass"
          /\ family = "diff" =>
               HasGroundedGreen(IF "ac" \in DOMAIN data THEN data.ac ELSE "")
       \/ data.status = "deferred" /\ HasApproval("deferral")
  /\ kind = "artifact" /\ "status" \in DOMAIN data /\ data.status = "present" =>
       path \in DOMAIN disk

\* No record is made twice, and no update that says nothing new: bounds.
Record(w) ==
  /\ \A n \in DOMAIN evs : evs[n].kind = w.kind => evs[n].data # w.data
  /\ MayRecord(w.kind, w.data, IF "path" \in DOMAIN w.data THEN w.data.path ELSE "")
  /\ AtOnce(Event(w.kind, 0, w.auto, w.data))
  /\ traced' = FALSE

\* wf record KIND updates=N: N may be an update itself.  N is taken to be of
\* this kind, which the engine leaves to its caller.
Update(n, w) ==
  LET r == ResolveRecordID(n)
  IN  /\ evs[n].kind = w.kind
      /\ \E f \in DOMAIN w.data : Str(r, f) # w.data[f]
      /\ MayRecord(w.kind, w.data, Str(r, "path"))
      /\ AtOnce(Event(w.kind, r, w.auto, w.data))
      /\ traced' = (traced /\ w.kind = "trace-finding")

\* The approvals of a gate that bind anything.
Binding(gate) ==
  {r \in Records("approval") : Str(r, "gate") = gate /\ Has(r, "approved_refs")}

\* wf approve, where the config asks for no answer: the engine computes what
\* is approved, if anything.  Never twice the same: a bound.
Approve(gate) ==
  LET refs == ApprovalRefs(gate)
      data == IF refs = {} THEN [gate |-> gate] ELSE [gate |-> gate, approved_refs |-> refs]
  IN  /\ \A n \in DOMAIN evs : evs[n].kind = "approval" => evs[n].data # data
      /\ AtOnce(Event("approval", 0, FALSE, data))
      /\ traced' = FALSE

\* The file the artifacts are about is written, naming these records.
Author(path, ids) ==
  /\ disk[path] # ids
  /\ Move
  /\ writes' = writes + 1
  /\ disk' = [disk EXCEPT ![path] = ids]
  /\ job' = [q \in Proc |-> Disturbed(job[q])]
  /\ traced' = FALSE
  /\ UNCHANGED <<family, evs, phase, verified>>

-----------------------------------------------------------------------------
(* views.Trace.  A finding is known by the key of what it is about.        *)

ForcedExits(ph) ==
  {n \in DOMAIN evs : evs[n].kind = "phase" /\ evs[n].data.action = "force"
                      /\ evs[n].data.phase \in ph}

\* The newest approval that binds anything.
LatestApprovedRefs(gate) == Field(Max(Binding(gate)), "approved_refs")

Drift ==
  UNION {{<<"drift", <<gate, ref>>>> : ref \in ApprovalRefs(gate) \ LatestApprovedRefs(gate)} :
           gate \in {g \in {"scope", "design", "plan"} : Binding(g) # {}}}

\* Paths the entries of a boundary cover; prose covers none.
OutOfScope ==
  {r \in Records("edit") :
     \E b \in Records("scope-boundary") : Str(r, "path") \in Field(b, "out_of_scope")}

GatingVerdicts == {r \in Records("verdict") : Str(r, "agent") \in Gating}

Unreviewed ==
  GatingVerdicts # {} /\ \E r \in Records("edit") : r > Max(GatingVerdicts)

Wants ==
  {<<"force", n>> : n \in ForcedExits(Phases)}
  \cup {<<"followup", r>> : r \in MatchRecords("followup", [status |-> {"open"}])}
  \cup {<<"deviation", r>> : r \in MatchRecords("deviation", [status |-> {"pending"}])}
  \cup {<<"ambiguity", r>> :
          r \in MatchRecords("ambiguity", [disposition |-> {"deferred", "open"}])}
  \cup Drift
  \cup {<<"scope", r>> : r \in OutOfScope}
  \cup (IF Unreviewed THEN {<<"stale-verdicts", 0>>} ELSE {})
  \cup {<<"vacated-signals", n>> :
          n \in {m \in ForcedExits({"frame"}) : /\ Records("risk") = {}
                                         /\ m = Min(ForcedExits({"frame"}))}}
  \cup {<<"assumption-invalidated", r>> :
          r \in MatchRecords("assumption", [high_risk |-> {TRUE},
                                            status |-> {"invalidated"}])}

\* Fault: a finding that has been answered is not counted.
OpenKeys ==
  {Field(r, "key") : r \in MatchRecords("trace-finding", [status |-> {"open"}])}

ExistingKeys ==
  {Field(r, "key") : r \in {q \in Records("trace-finding") : Has(q, "key")}}

BeginTrace(p) ==
  /\ Move
  /\ Begin(p, [at |-> "trace", todo |-> Wants \ ExistingKeys, alone |-> Quiet])
  /\ UNCHANGED <<family, evs, disk, phase, writes, traced, verified>>

Classes == <<"force", "followup", "deviation", "ambiguity", "drift", "scope",
             "stale-verdicts", "vacated-signals", "assumption-invalidated">>

\* Class by class, in some order within one.
FirstOf(todo) ==
  LET c == Min({n \in DOMAIN Classes : \E k \in todo : k[1] = Classes[n]})
  IN  CHOOSE k \in todo : k[1] = Classes[c]

TraceOne(p) ==
  LET k == FirstOf(job[p].todo)
  IN  /\ job[p].at = "trace" /\ job[p].todo # {}
      /\ evs' = Append(evs, Event("trace-finding", 0, TRUE, [key |-> k, status |-> "open"]))
      /\ Step(p, [job[p] EXCEPT !.todo = @ \ {k}])
      /\ traced' = FALSE
      /\ UNCHANGED <<counted, disk, phase, verified>>

\* All recorded: the report.
EndTrace(p) ==
  /\ job[p].at = "trace" /\ job[p].todo = {}
  /\ Step(p, Idle)
  /\ traced' = (traced \/ job[p].alone)
  /\ UNCHANGED <<counted, evs, disk, phase, verified>>

-----------------------------------------------------------------------------
(* PhaseExit.                                                              *)

After(ph) == IF ph = "verify" THEN "ship" ELSE "done"

BeginExit(p) ==
  /\ Begin(p, [at |-> "exit", next |-> After(phase), forced |-> FALSE, alone |-> Quiet])
  /\ Missing(phase) = {}
  /\ UNCHANGED <<counted, evs, disk, phase, traced, verified>>

\* --force asks for no contract and logs what it did.
BeginForce(p) ==
  /\ Move
  /\ Cardinality(ForcedExits(Phases)) < MaxForces
  /\ Begin(p, [at |-> "exit", next |-> After(phase), forced |-> TRUE, alone |-> Quiet])
  /\ evs' = Append(evs, Event("phase", 0, FALSE, [action |-> "force", phase |-> phase]))
  /\ traced' = FALSE
  /\ UNCHANGED <<family, disk, phase, writes, verified>>

\* The snapshot read at the start is saved, advanced.
CommitExit(p) ==
  /\ job[p].at = "exit"
  /\ phase' = job[p].next
  /\ Step(p, Idle)
  /\ verified' = IF phase = "verify"
                 THEN IF job[p].alone /\ ~ job[p].forced THEN Len(evs) ELSE 0
                 ELSE verified
  /\ UNCHANGED <<counted, evs, disk, traced>>

Kill(p) ==
  /\ job[p] # Idle
  /\ Move
  /\ Step(p, Idle)
  /\ UNCHANGED <<family, evs, disk, phase, writes, traced, verified>>

Next ==
  \/ /\ phase # "done" /\ writes < MaxWrites /\ moves < MaxMoves
     /\ \/ \E w \in Writes[family] : Record(w)
        \/ \E n \in DOMAIN evs, w \in Updates[family] : Update(n, w)
        \/ \E gate \in Gate : Approve(gate)
        \/ \E path \in DOMAIN disk : Author(path, {Str(r, "fid") : r \in Records("finding")})
  \/ \E p \in Proc :
       \/ BeginTrace(p)
       \/ TraceOne(p)
       \/ EndTrace(p)
       \/ BeginExit(p)
       \/ BeginForce(p)
       \/ CommitExit(p)
       \/ Kill(p)

Spec == Init /\ [][Next]_vars

-----------------------------------------------------------------------------
(* Properties.  They read the events in words of their own: what an event  *)
(* of the record said of a field stands until another says otherwise.      *)

Stands(log, r, f, v, upto) ==
  \E n \in r..upto :
    /\ n = r \/ log[n].of = r
    /\ f \in DOMAIN log[n].data /\ log[n].data[f] = v
    /\ \A m \in n+1..upto : log[m].of = r => f \notin DOMAIN log[m].data

Now(r, f, v) == Stands(evs, r, f, v, Len(evs))

Created(kind) == {n \in DOMAIN evs : evs[n].kind = kind /\ evs[n].of = 0}

\* The scope approvals that named anything, the last of them, and whether it
\* was given while a requirement of this name was there.
Baselines == {a \in Created("approval") : /\ evs[a].data.gate = "scope"
                                          /\ "approved_refs" \in DOMAIN evs[a].data}

Agreed(log, rid, a) ==
  \E r \in 1..a-1 :
    /\ log[r].kind = "requirement" /\ log[r].of = 0 /\ log[r].data.rid = rid
    /\ ~ Stands(log, r, "status", "dropped", a)

Drifted(r) ==
  /\ Baselines # {}
  /\ ~ Now(r, "status", "dropped")
  /\ ~ Agreed(evs, evs[r].data.rid, Max(Baselines))

\* What a close-out has to answer for, by the key of its finding.  Findings of
\* ambiguities, late edits, other gates' drift and vacated signals are made in
\* the same way and left out.
Problems ==
  {<<"followup", r>> : r \in {q \in Created("followup") : Now(q, "status", "open")}}
  \cup {<<"deviation", r>> : r \in {q \in Created("deviation") : Now(q, "status", "pending")}}
  \cup {<<"force", n>> : n \in {m \in DOMAIN evs : /\ evs[m].kind = "phase"
                                                  /\ evs[m].data.action = "force"}}
  \cup {<<"drift", <<"scope", <<"req", evs[r].data.rid>>>>>> :
          r \in {q \in Created("requirement") : Drifted(q)}}
  \cup {<<"scope", e>> :
          e \in {d \in Created("edit") : \E b \in Created("scope-boundary") :
                   evs[d].data.path \in evs[b].data.out_of_scope}}
  \cup {<<"assumption-invalidated", r>> :
          r \in {q \in Created("assumption") : /\ Now(q, "high_risk", TRUE)
                                               /\ Now(q, "status", "invalidated")}}

Findings(k) == {n \in Created("trace-finding") : evs[n].data.key = k}

\* p is disturbed by nothing, up to and in this step.
Alone(p) ==
  job[p] # Idle /\ job[p].alone /\ (job'[p] = Idle \/ job'[p].alone)

TypeOK ==
  /\ family \in DOMAIN Prior /\ phase \in {"verify", "ship", "done"}
  /\ \A n \in DOMAIN evs :
       evs[n].of # 0 => evs[n].of < n /\ evs[evs[n].of].of = 0
  /\ \A p \in Proc : job[p].at \in {"idle", "trace", "exit"}
  /\ verified \in 0..Len(evs)

\* A trace that ran to its end with nothing going on beside it leaves a
\* finding for each of the Problems, and has made none for what had
\* one, whatever traces were killed in the middle or overlapped before it.
TraceAnswers ==
  [][\A p \in Proc :
       job[p].at = "trace" /\ Alone(p) =>
         /\ job'[p] = Idle /\ moves' = moves => \A k \in Problems' : Findings(k)' # {}
         /\ evs' # evs => Findings(evs'[Len(evs')].data.key) = {}]_vars

\* Ship left by an exit that was neither forced nor disturbed, nothing but
\* answers having been recorded since the last undisturbed trace: everything
\* there is to answer for has a finding and none of them is open.
CleanMeansAnswered ==
  [][\A p \in Proc :
       /\ job[p].at = "exit" /\ Alone(p) /\ phase' = "done"
       /\ ~ job[p].forced /\ traced
       => \A k \in Problems :
            Findings(k) # {} /\ \A n \in Findings(k) : ~ Now(n, "status", "open")]_vars

\* Such an exit, Verify having been left in the same way: what a diff or an
\* artifact ships with had a verdict for each of its acceptance criteria and
\* none that stood as failed then, unless the requirement came after Verify;
\* that one is agreed, or its drift was answered.
ShippedIsVerified ==
  [][\A p \in Proc :
       /\ job[p].at = "exit" /\ Alone(p) /\ phase' = "done"
       /\ ~ job[p].forced /\ traced /\ verified # 0 /\ family \in Built
       => \A r \in Created("requirement") : \A ac \in evs[r].data.acs :
            \/ LET V == {v \in Created("ac-verdict") : v <= verified /\ evs[v].data.ac = ac}
               IN  V # {} /\ \A v \in V : ~ Stands(evs, v, "status", "fail", verified)
            \/ /\ r > verified
               /\ \/ ~ Drifted(r)
                  \/ \E n \in Findings(<<"drift", <<"scope", <<"req", evs[r].data.rid>>>>>>) :
                       ~ Now(n, "status", "open")]_vars

-----------------------------------------------------------------------------
(* What the callers keep to, the engine not looking: the hypothesis of the *)
(* theorems about these properties.                                        *)

\* What a record is about.
Lasting == {"rid", "acs", "ac", "path", "out_of_scope", "gate", "approved_refs", "key"}

\* The callers' updates leave that as it is; the engine does not look.
NothingRenamed ==
  \A f \in DOMAIN Prior :
    /\ \A n \in DOMAIN Prior[f].evs :
         Prior[f].evs[n].of # 0 => DOMAIN Prior[f].evs[n].data \cap Lasting = {}
    /\ \A w \in Updates[f] : DOMAIN w.data \cap Lasting = {}

\* The requirements an approval of the scope names are there.
Bound(log, a) ==
  log[a].kind = "approval" /\ log[a].of = 0 =>
    (log[a].data.gate = "scope" /\ "approved_refs" \in DOMAIN log[a].data =>
       \A ref \in log[a].data.approved_refs : ref[1] = "req" => Agreed(log, ref[2], a))

\* So they are in the log Verify is entered with, which wf approve wrote.
PriorBound ==
  \A f \in DOMAIN Prior : \A a \in DOMAIN Prior[f].evs : Bound(Prior[f].evs, a)

Kept == NothingRenamed /\ PriorBound

=============================================================================
