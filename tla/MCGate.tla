------------------------------- MODULE MCGate -------------------------------
(* The gate for TLC: two interchangeable callers. *)
EXTENDS GateHarness, TLC

CONSTANTS c1, c2

TwoCallers == {c1, c2}
CallerSymmetry == Permutations(TwoCallers)

=============================================================================
