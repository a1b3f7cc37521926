---------------------------- MODULE WorkflowSpec ----------------------------
(***************************************************************************)
(* The part of workflow/workflow.yaml the run state machine reads: the     *)
(* phases and their order, which family takes part in which phase, and the *)
(* loop caps.  RunControl and its companions take these as parameters;     *)
(* the MC modules instantiate them with the values below.                  *)
(***************************************************************************)
EXTENDS Naturals

WorkflowPhase ==
  {"frame", "context", "design", "plan", "build", "verify", "ship"}

WorkflowOrder ==
  [frame |-> 1, context |-> 2, design |-> 3, plan |-> 4,
   build |-> 5, verify |-> 6, ship |-> 7]

WorkflowFamily == {"diff", "artifact", "assessment"}

\* Every phase is required of every family, but a diff may waive design and
\* an assessment has none.
WorkflowParticipation ==
  [p \in WorkflowPhase |->
    IF p = "design"
    THEN [diff |-> "waivable", artifact |-> "required", assessment |-> "none"]
    ELSE [f \in WorkflowFamily |-> "required"]]

\* loops.max_per_run and loops.max_slip_per_ac as shipped.
WorkflowMaxLoops == 10
WorkflowMaxSlips == 2

=============================================================================
