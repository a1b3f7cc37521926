------------------------------ MODULE MCLessons ------------------------------
(* Lessons over the shipped phases, with a roster and record kinds cut to   *)
(* what the checks below refer to.                                          *)
EXTENDS Lessons, WorkflowSpec, TLC

ShippedItem ==
  [name |-> <<"", "ship.trace-clean">>, phase |-> "ship", families |-> {},
   remediation |-> TRUE, stage |-> "", when |-> NoKind,
   predicates |-> {[predicate |-> "no-open", full |-> TRUE, kind |-> <<"", "finding">>]}]

MCVersion1 ==
  [families |-> WorkflowFamily, intents |-> WorkflowFamily, unknown |-> FALSE,
   phases |->
     [n \in 1..7 |->
       LET p == CHOOSE q \in WorkflowPhase : WorkflowOrder[q] = n
       IN  [name |-> p, order |-> n, mode |-> "auto-advance", skill |-> p,
            participation |-> WorkflowParticipation[p]]],
   loops |-> [from |-> "verify", targets |-> {"build", "plan", "design"},
              ship |-> {"verify"}],
   roster |-> <<[name |-> "adversary", phases |-> {"verify"}, corpusBundled |-> TRUE]>>,
   kinds |-> {<<"", "finding">>, <<"", "risk">>},
   passes |-> {"PASS"}, fails |-> {"FAIL"}, conditional |-> {"PARTIAL"},
   contracts |-> {ShippedItem}]

\* A later version that no longer has the adversary.
MCVersion2 == [MCVersion1 EXCEPT !.roster = <<>>]

MCPlugin == [v1 |-> MCVersion1, v2 |-> MCVersion2]

MCItem(name, kind) ==
  [name |-> name, phase |-> "build", families |-> {}, remediation |-> TRUE,
   stage |-> "", when |-> NoKind,
   predicates |-> {[predicate |-> "record-exists", full |-> TRUE, kind |-> kind]}]

MCReviewed ==
  [MCItem(<<"lesson", "reviewed">>, NoKind) EXCEPT
     !.predicates = {[predicate |-> "verdict-in", full |-> TRUE,
                      agent |-> "adversary", statuses |-> {"PASS"}]}]

\* "risks" wants a record of a kind the pack declares, "reviewed" a verdict
\* of the agent the later plugin lacks.
MCText == {"risks", "reviewed", "tidy"}

MCCheck ==
  [risks |-> [form |-> "item", item |-> MCItem(<<"lesson", "risks">>, <<"x", "risk">>)],
   reviewed |-> [form |-> "item", item |-> MCReviewed],
   tidy |-> [form |-> "prose"]]

MCSuggestible == <<"tidy">>

File(kinds, items) ==
  [kinds |-> kinds, items |-> items, unknown |-> FALSE, readable |-> TRUE]

MCPack ==
  {("kinds.yaml" :> File(<<[name |-> <<"x", "risk">>]>>, <<>>)) @@
   ("items.yaml" :> File(<<>>, <<MCItem(<<"local", "risk-kept">>, <<"x", "risk">>)>>))}

ASSUME PacksAreNamed == PacksStayApart

MCSymmetry == Permutations(Proc)

=============================================================================
