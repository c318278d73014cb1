------------------------------ MODULE MCLogRing ------------------------------
(* LogRing on a small instance: hosts, and severities, are interchangeable. *)
EXTENDS LogRing

RingSymmetry == Permutations(Hosts) \cup Permutations(Severities)
=============================================================================
