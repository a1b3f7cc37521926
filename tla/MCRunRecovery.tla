--------------------------- MODULE MCRunRecovery ---------------------------
(* RunRecovery with the phases and families of workflow.yaml.              *)
EXTENDS RunRecovery, WorkflowSpec

OnlyFrame == {"frame"}
OnlyDiff  == {"diff"}
DiffAndArtifact == {"diff", "artifact"}
Never     == {}

\* Context gates like its neighbours: leaving it out loses no
\* behaviour of the recovery.
ShortPhase == WorkflowPhase \ {"context"}
ShortOrder == [p \in ShortPhase |-> WorkflowOrder[p]]
ShortParticipation == [p \in ShortPhase |-> WorkflowParticipation[p]]

=============================================================================
