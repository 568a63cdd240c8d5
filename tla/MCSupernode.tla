----------------------------- MODULE MCSupernode -----------------------------
(* A small instance of Supernode for TLC. *)
EXTENDS Supernode
==============================================================================
