---------------------------- MODULE MCVmLifecycle ----------------------------
(* VmLifecycle on a small instance: one machine, few requests and instances. *)
EXTENDS VmLifecycle
==============================================================================
