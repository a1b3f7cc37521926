----------------------------- MODULE MCStopGate -----------------------------
(* StopGate with two contract items of which the first makes the hash, as  *)
(* the first six do of a longer contract.                                  *)
EXTENDS StopGate

TwoItems == 1..2

=============================================================================
