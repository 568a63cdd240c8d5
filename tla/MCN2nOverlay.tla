---------------------------- MODULE MCN2nOverlay -----------------------------
(* Small instances of N2nOverlay for TLC. *)
EXTENDS N2nOverlay, TLC

\* Nothing tells edges, or the supernode's goroutines, apart; used by the run
\* that checks safety only.
Interchangeable == Permutations(Addr) \cup Permutations(Gor)
==============================================================================
