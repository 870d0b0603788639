------------------------------ MODULE MCLease ------------------------------
(* Small instances of Lease for TLC.                                       *)
EXTENDS Lease, TLC

CONSTANTS s1, s2, s3, t1, p1, p2, p3, host, wsl

(* s1 dies with its process or not; s2 and the scan share a later process  *)
(* of the same runtime; s3 runs in another runtime.                        *)
Procs == (s1 :> p1) @@ (s2 :> p2) @@ (s3 :> p3) @@ (t1 :> p2)
TwoRuntimes == (p1 :> host) @@ (p2 :> host) @@ (p3 :> wsl)
=============================================================================
