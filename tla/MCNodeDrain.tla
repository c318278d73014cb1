----------------------------- MODULE MCNodeDrain -----------------------------
(* NodeDrain on a small instance: two nodes, few pods. *)
EXTENDS NodeDrain
==============================================================================
