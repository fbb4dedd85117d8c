------------------------------- MODULE MCDChan -------------------------------
(* DChan on small instances.  Calls are interchangeable. *)
EXTENDS DChan, TLC

Symmetry == Permutations(Procs)
=============================================================================
