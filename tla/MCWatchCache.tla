---------------------------- MODULE MCWatchCache ----------------------------
(* WatchCache on a small instance: one kind, few objects and revisions. *)
EXTENDS WatchCache
=============================================================================
