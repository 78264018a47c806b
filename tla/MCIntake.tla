------------------------------ MODULE MCIntake ------------------------------
(***************************************************************************)
(* Model checking of Intake.  Hosts are only compared with each other.     *)
(***************************************************************************)
EXTENDS Intake

CONSTANTS h1, h2

TwoHosts == {h1, h2}
Symmetry == Permutations(TwoHosts)
=============================================================================
