------------------------------ MODULE MCTargets -----------------------------
(* Small instances of Targets for TLC.                                     *)
EXTENDS Targets, TLC

CONSTANTS enroll, again, clear, vm1, vm2

(* Two requests for one machine and a clear; the document may name the     *)
(* other machine at first.                                                 *)
Wants == (enroll :> vm1) @@ (again :> vm1) @@ (clear :> None)
=============================================================================
