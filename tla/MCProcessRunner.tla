-------------------------- MODULE MCProcessRunner --------------------------
(* Instances of ProcessRunner for TLC. *)
EXTENDS ProcessRunner, TLC

Symmetry == Permutations(Runners) \cup Permutations(Commands)
=============================================================================
