--------------------------- MODULE MCLatticeStore ---------------------------
(***************************************************************************)
(* Small instances of the Lattice's store.                                   *)
(***************************************************************************)
EXTENDS LatticeStore, TLC

CONSTANTS t1, t2, n1, n2, e1, p1, a1

Symmetry == Permutations(Callers) \cup Permutations(Nodes)
=============================================================================
