---------------------------- MODULE MCRunControl ----------------------------
(* RunControl with the phases and families of workflow.yaml.               *)
EXTENDS RunControl, WorkflowSpec

OnlyFrame == {"frame"}

\* The workflow is one the theorems are about.
ASSUME WorkflowFits == FrameOnly /\ ShipEnds

=============================================================================
