-------------------------- MODULE MCPortAllocator --------------------------
(* An instance of PortAllocator for TLC. *)
EXTENDS PortAllocator, TLC

CONSTANTS d1, d2, d3, d4, n1, n2

Symmetry == Permutations(Deploys) \cup Permutations(Names)
=============================================================================
