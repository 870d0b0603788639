-------------------------- MODULE MCTransitionLock --------------------------
(* Small instances of TransitionLock for TLC.                              *)
EXTENDS TransitionLock, TLC

CONSTANTS c1, c2, c3, p1, p2, p3, host

(* One call per process, all in one runtime.                               *)
OneEach == (c1 :> p1) @@ (c2 :> p2) @@ (c3 :> p3)
OneRuntime == [p \in Proc |-> host]
=============================================================================
