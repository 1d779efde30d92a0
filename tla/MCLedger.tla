------------------------------ MODULE MCLedger ------------------------------
(* AggregationLedger with values that a .cfg cannot write, and symmetry:    *)
(* initiators and participants are only told apart.                         *)
EXTENDS AggregationLedger, TLC

MCValues == {7, -1234567}

Symmetry == Permutations(Initiators) \cup Permutations(Participants)
=============================================================================
