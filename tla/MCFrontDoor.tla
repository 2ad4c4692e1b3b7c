---------------------------- MODULE MCFrontDoor ----------------------------
(* Symmetry of the safety runs of FrontDoor.                               *)
EXTENDS FrontDoor, TLC

MCSymmetry == Permutations(Requests)

=============================================================================
