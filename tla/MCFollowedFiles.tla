--------------------------- MODULE MCFollowedFiles ---------------------------
(* FollowedFiles on a small instance; its run checks liveness, so without symmetry. *)
EXTENDS FollowedFiles
=============================================================================
