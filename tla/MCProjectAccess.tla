--------------------------- MODULE MCProjectAccess ---------------------------
(* ProjectAccess on a small instance: projects and requests are interchangeable. *)
EXTENDS ProjectAccess, TLC

Symmetry == Permutations(Projects) \cup Permutations(Requests)
=============================================================================
