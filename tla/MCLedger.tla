------------------------------ MODULE MCLedger ------------------------------
(* Ledger with symmetric processes.                                        *)
EXTENDS Ledger, TLC

ProcSymmetry == Permutations(Proc)

\* The instances are some the theorems are about.
ASSUME SingleWriter == OneWriter

=============================================================================
