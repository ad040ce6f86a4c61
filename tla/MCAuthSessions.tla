--------------------------- MODULE MCAuthSessions ---------------------------
(* AuthSessions for model checking: session ids and request slots are       *)
(* interchangeable.                                                          *)
EXTENDS AuthSessions, TLC

Symmetry == Permutations(Sids) \union Permutations(Reqs)
=============================================================================
