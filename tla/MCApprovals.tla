----------------------------- MODULE MCApprovals -----------------------------
(* Two gates, two processes.                                                *)
EXTENDS Approvals, TLC

MCSymmetry == Permutations(Proc) \cup Permutations(Gate)

=============================================================================
