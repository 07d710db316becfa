---------------------------- MODULE MCPairStore ----------------------------
(* A small instance of PairStore for TLC. *)
EXTENDS PairStore

CONSTANTS m1, m2, m3, m4

MCSlaveMacs == {m1, m2, m3, m4}
Symmetry == Permutations(MCSlaveMacs)
=============================================================================
