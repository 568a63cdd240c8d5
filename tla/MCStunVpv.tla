------------------------------ MODULE MCStunVpv ------------------------------
(* Small instances of StunVpv for TLC. *)
EXTENDS StunVpv
==============================================================================
