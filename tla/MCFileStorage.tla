--------------------------- MODULE MCFileStorage ---------------------------
(* FileStorage for model checking: files, paths and request slots are       *)
(* interchangeable.                                                          *)
EXTENDS FileStorage, TLC

Symmetry == Permutations(Files) \union Permutations(Paths) \union Permutations(Reqs)
=============================================================================
