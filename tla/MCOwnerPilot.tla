---------------------------- MODULE MCOwnerPilot ----------------------------
(* Instances of OwnerPilot for TLC.                                         *)
EXTENDS OwnerPilot, TLC

CONSTANTS r1, r2

\* The request ids are interchangeable.
RequestSymmetry == Permutations(Requests)
=============================================================================
