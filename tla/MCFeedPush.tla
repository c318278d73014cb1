----------------------------- MODULE MCFeedPush -----------------------------
(* FeedPush on a small instance: one page, one project, few changes. *)
EXTENDS FeedPush
=============================================================================
