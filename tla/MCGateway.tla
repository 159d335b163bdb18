----------------------------- MODULE MCGateway -----------------------------
(* Instances of Gateway for TLC. *)
EXTENDS Gateway, TLC

Symmetry == Permutations(Request) \cup Permutations(Key)
=============================================================================
