------------------------------ MODULE Contracts ------------------------------
(***************************************************************************)
(* Phase contracts (internal/contracts): the records of a run as its       *)
(* events leave them, the predicates over them, and what of a contract is  *)
(* unmet.                                                                  *)
(*                                                                         *)
(* A record is the position of the event that creates it; its fields are   *)
(* what that event and the later updates of it say, the last word          *)
(* counting.  A field that is not there reads as "".  The predicates of    *)
(* the phases before Verify, red-green and any-of, are BuildLoop's.        *)
(***************************************************************************)
EXTENDS Naturals, Sequences, FiniteSetsExt

CONSTANTS
  Intent,   \* the run's intent
  Flag,     \* the flags the project's config sets
  Gating,   \* the roster's gating agents
  Failing   \* the verdict statuses that fail

VARIABLES
  family,   \* the run's family
  evs,      \* the run's events: [kind, of, auto, data], of 0 in a creation
  disk      \* file authored in the project -> record ids it mentions

-----------------------------------------------------------------------------
(* The fold of the events.                                                 *)

Says(n, r) == n = r \/ evs[n].of = r

Sayings(r, f) == {n \in DOMAIN evs : Says(n, r) /\ f \in DOMAIN evs[n].data}

Has(r, f) == Sayings(r, f) # {}

Field(r, f) == evs[Max(Sayings(r, f))].data[f]

Str(r, f) == IF Has(r, f) THEN Field(r, f) ELSE ""

IsAuto(r) == \E n \in DOMAIN evs : Says(n, r) /\ evs[n].auto

Records(kind) ==
  {r \in DOMAIN evs : evs[r].of = 0 /\ evs[r].kind = kind /\ kind # "phase"}

\* Fault: the update of an update is not followed to the record.
Verbatim(n) == n

\* Any event of a record stands for it where an update names its target.
ResolveRecordID(n) == IF evs[n].of = 0 THEN n ELSE evs[n].of

-----------------------------------------------------------------------------
(* Matching.  A filter gives the values that will do, field by field.      *)

None == [f \in {} |-> {}]

Matches(r, filter) ==
  \A f \in DOMAIN filter : Has(r, f) /\ Field(r, f) \in filter[f]

MatchRecords(kind, filter) == {r \in Records(kind) : Matches(r, filter)}

\* What a per-each item is asked about: the elements of a field, or the
\* record by its own name.
RecordIdentity(r) ==
  LET named == SelectSeq(<<"tid", "rid", "ac", "id">>, LAMBDA f : Str(r, f) # "")
  IN  IF named = <<>> THEN r ELSE Field(r, Head(named))

ElementIDs(r, each) ==
  IF each = "" THEN {RecordIdentity(r)}
  ELSE IF Has(r, each) THEN Field(r, each) ELSE {}

-----------------------------------------------------------------------------
(* Predicates: p is an item's check with its parameters.                   *)

RecordExists(p) == Cardinality(MatchRecords(p.kind, p.filter)) >= 1

LinkedRecord(p, id) == \E r \in MatchRecords(p.kind, p.filter) : Str(r, p.link) = id

\* Fault: the newest record speaks for all of them.
NewestNotOpen(p) ==
  LET R == MatchRecords(p.kind, p.filter)
  IN  R # {} => Str(Max(R), p.field) \notin p.open

NoOpen(p) ==
  \A r \in MatchRecords(p.kind, p.filter) : Str(r, p.field) \notin p.open

HasApproval(gate) == \E r \in Records("approval") : Str(r, "gate") = gate

\* At least one element over all records, and the linked record for each.
PerEach(p) ==
  LET ids == UNION {ElementIDs(r, p.each) : r \in Records(p.kind)}
  IN  ids # {} /\ \A id \in ids : LinkedRecord(p.item, id)

\* The file is there, is more than a stub and mentions all it has to.
ArtifactPresent(p) ==
  LET required == {Field(r, "fid") : r \in {q \in Records(p.mentions) : Has(q, "fid")}}
  IN  \E r \in MatchRecords("artifact", p.filter) :
        /\ Str(r, "status") # "missing"
        /\ Str(r, "path") \in DOMAIN disk
        /\ required \subseteq disk[Str(r, "path")]

Dispositioned(r) ==
  \E d \in Records("disposition") : Has(d, "ref") /\ Field(d, "ref") = r

\* Of the agent, in one of the modes where the item names one.
Verdicts(p) ==
  {v \in MatchRecords("verdict", [agent |-> {p.agent}]) :
     p.scope = "" \/ Str(v, "scope") = p.scope}

Captured(S) == {v \in S : IsAuto(v)}

\* By hand nothing gets past a captured failing verdict but a disposition.
EffectiveVerdict(V) ==
  IF \/ IsAuto(Max(V)) \/ Captured(V) = {}
     \/ Str(Max(Captured(V)), "status") \notin Failing
     \/ Dispositioned(Max(Captured(V)))
  THEN Max(V) ELSE Max(Captured(V))

VerdictIn(p) ==
  LET V == Verdicts(p)
  IN  /\ V # {}
      /\ LET v == EffectiveVerdict(V)
         IN  /\ \/ IsAuto(v) \/ p.agent \notin Gating
                \/ Captured(Records("verdict")) = {}
                \/ \E w \in V : Dispositioned(w)
             /\ Str(v, "status") \in p.statuses

Eval(p) ==
  \/ p.pred = "record-exists"    /\ RecordExists(p)
  \/ p.pred = "no-open"          /\ NoOpen(p)
  \/ p.pred = "per-each"         /\ PerEach(p)
  \/ p.pred = "artifact-present" /\ ArtifactPresent(p)
  \/ p.pred = "verdict-in"       /\ VerdictIn(p)

-----------------------------------------------------------------------------
(* Contracts.                                                              *)

\* Signals and records are asked for by items of earlier phases only.
WhenApplies(w) ==
  /\ w.intents # {} => Intent \in w.intents
  /\ w.config \subseteq Flag

Waived(id) == \E w \in Records("waiver") : Str(w, "item") = id

\* The unmet among the items, of a phase or of an entry to one.
Unmet(items) ==
  {it.id : it \in {i \in items : /\ family \in i.families
                                 /\ WhenApplies(i.when)
                                 /\ ~ (i.waivable /\ Waived(i.id))
                                 /\ ~ Eval(i.check)}}

-----------------------------------------------------------------------------
(* What an approval of a gate binds to: the names of what is there.        *)

Names(kind, f) == {Str(r, f) : r \in Records(kind)} \ {""}

ApprovalRefs(gate) ==
  CASE gate = "scope" ->
         {<<"req", Str(r, "rid")>> :
            r \in {q \in Records("requirement") : Str(q, "status") # "dropped"}}
         \cup {<<"assumption", r>> :
                 r \in MatchRecords("assumption", [high_risk |-> {TRUE}])}
    [] gate = "design" ->
         {<<"option", Str(r, "stage"), Str(r, "selected")>> :
            r \in {q \in Records("option-set") : Str(q, "selected") # ""}}
    [] gate = "plan" ->
         {<<"task", t>> : t \in Names("task", "tid")}
         \cup {<<"strategy", a>> : a \in Names("verification-strategy", "ac")}
    [] OTHER -> {}

=============================================================================
