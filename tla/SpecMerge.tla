------------------------------ MODULE SpecMerge ------------------------------
(***************************************************************************)
(* internal/spec: what it takes for the workflow to load.  The plugin's    *)
(* workflow.yaml is decoded, every file in .workflow/contracts.d is added  *)
(* to it, and the result is validated as a whole.  A command that cannot   *)
(* load the workflow does nothing else.                                    *)
(*                                                                         *)
(* A name with a namespace is a pair: <<"lesson", "a">> is lesson.a,       *)
(* <<"x", "k">> is the record kind x-k, <<"", n>> is a shipped name.  The  *)
(* predicates nested in an item (per-each, any-of) are validated one by    *)
(* one like the item's own, so an item carries the set of all of them.     *)
(***************************************************************************)
EXTENDS Naturals, Sequences

Names(s) == {s[n].name : n \in DOMAIN s}

Distinct(s) == \A m, n \in DOMAIN s : s[m].name = s[n].name => m = n

-----------------------------------------------------------------------------
(* A predicate of an item.  full: its parameters are all there and of the  *)
(* right type; mentions: the kind an artifact has to mention, if any.      *)

OverKind == {"record-exists", "no-open", "linked-record", "per-each"}

Predicates ==
  OverKind \cup
  {"verdict-in", "approval", "any-of", "red-green", "artifact-present"}

NoKind == <<"", "">>

PredicateValid(p, kinds, agents, vocabulary) ==
  /\ p.predicate \in Predicates
  /\ p.full
  /\ p.predicate \in OverKind => p.kind \in kinds
  /\ p.predicate = "verdict-in" =>
       /\ p.agent \in agents
       /\ p.statuses # {}
       /\ p.statuses \subseteq vocabulary
  /\ p.predicate = "artifact-present" => p.mentions \in kinds \cup {NoKind}

-----------------------------------------------------------------------------
(* Validate.                                                               *)

PhasesValid(s) ==
  /\ Distinct(s.phases)
  /\ {s.phases[n].order : n \in DOMAIN s.phases} = 1..Len(s.phases)
  /\ \A n \in DOMAIN s.phases :
       /\ s.phases[n].mode \in {"interactive", "interactive-exit", "auto-advance"}
       /\ s.phases[n].skill # ""
       /\ \A f \in s.families :
            /\ f \in DOMAIN s.phases[n].participation
            /\ s.phases[n].participation[f] \in {"required", "waivable", "none"}

LoopsValid(s) ==
  /\ s.loops.from \in Names(s.phases) \cup {""}
  /\ s.loops.targets \subseteq Names(s.phases)
  /\ s.loops.ship \subseteq Names(s.phases)

RosterValid(s) ==
  /\ Distinct(s.roster)
  /\ \A n \in DOMAIN s.roster :
       s.roster[n].phases \subseteq Names(s.phases) /\ s.roster[n].corpusBundled

ItemValid(s, item) ==
  /\ item.phase \in Names(s.phases)
  /\ item.families \subseteq s.families
  /\ item.remediation
  /\ item.stage \in {"", "exit", "entry"}
  /\ item.when \in s.kinds \cup {NoKind}
  /\ \A p \in item.predicates :
       PredicateValid(p, s.kinds, Names(s.roster), s.passes \cup s.fails \cup s.conditional)

Validate(s) ==
  /\ s.families # {}
  /\ s.intents \subseteq s.families
  /\ PhasesValid(s)
  /\ LoopsValid(s)
  /\ RosterValid(s)
  /\ s.passes # {} /\ s.fails # {}
  /\ \A item \in s.contracts : ItemValid(s, item)

-----------------------------------------------------------------------------
(* mergeContractsDir.  ext is the directory: file name -> what the file    *)
(* declares.  The files are read in the order of their names, which only   *)
(* decides which of them an error names.                                   *)

\* What the files declare, of record kinds or of items.
All(ext, part) ==
  UNION {{ext[f][part][n] : n \in DOMAIN ext[f][part]} : f \in DOMAIN ext}

\* No name is declared twice, in one file or in two.
Once(ext, part) ==
  \A f, g \in DOMAIN ext : \A m \in DOMAIN ext[f][part], n \in DOMAIN ext[g][part] :
    ext[f][part][m].name = ext[g][part][n].name => f = g /\ m = n

Mergeable(s, ext) ==
  /\ \A f \in DOMAIN ext : ext[f].readable
  /\ \A k \in All(ext, "kinds") : k.name[1] = "x" /\ k.name \notin s.kinds
  /\ \A c \in All(ext, "items") :
       c.name[1] \in {"local", "lesson"} /\ c.name \notin {d.name : d \in s.contracts}
  /\ Once(ext, "kinds")
  /\ Once(ext, "items")

Merged(s, ext) ==
  [s EXCEPT !.kinds = @ \cup {k.name : k \in All(ext, "kinds")},
            !.contracts = @ \cup All(ext, "items")]

\* Load
Loads(s, ext) == Mergeable(s, ext) /\ Validate(Merged(s, ext))

\* LoadStrict: nor is there a field the engine does not know.
LoadsStrictly(s, ext) ==
  /\ ~ s.unknown
  /\ \A f \in DOMAIN ext : ~ ext[f].unknown
  /\ Loads(s, ext)

=============================================================================
