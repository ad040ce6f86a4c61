-------------------------- MODULE MCCollaboration ---------------------------
(* Collaboration for model checking: calls on cases are interchangeable, and *)
(* so are the firms that share a prefix.                                     *)
EXTENDS Collaboration, TLC

Symmetry == Permutations(Calls) \union Permutations(SamePrefix)
=============================================================================
