---------------------------- MODULE MCStorageGate ----------------------------
(* StorageGate on a small instance: requests and cookies are interchangeable. *)
EXTENDS StorageGate, TLC

Symmetry == Permutations(Pages) \cup Permutations(Requests) \cup Permutations(Cookies)
=============================================================================
