----------------------------- MODULE MCBootstrap ----------------------------
(* Processes and commands are interchangeable; no liveness is checked.     *)
EXTENDS Bootstrap, TLC
Symmetry == Permutations(Proc) \cup Permutations(Cmd)
=============================================================================
