----------------------------- MODULE MCVmCreate -----------------------------
(* VmCreate on a small instance: keys, requests and copies are interchangeable. *)
EXTENDS VmCreate, TLC

Symmetry == Permutations(Keys) \cup Permutations(Makers) \cup Permutations(Requests \ Makers) \cup Permutations(Copies)
=============================================================================
