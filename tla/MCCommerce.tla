----------------------------- MODULE MCCommerce -----------------------------
(* Commerce for model checking: request slots, users and the slugs of plans *)
(* are interchangeable.                                                     *)
EXTENDS Commerce, TLC

Symmetry == Permutations(Requests) \union Permutations(Users) \union Permutations(PlanSlugs)
=============================================================================
