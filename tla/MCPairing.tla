----------------------------- MODULE MCPairing ------------------------------
(***************************************************************************)
(* Pairing on a small instance.                                            *)
(***************************************************************************)
EXTENDS Pairing, TLC

Symmetry == Permutations(Requests)
=============================================================================
