-------------------------- MODULE MCSessionMutation -------------------------
(* Small instances of SessionMutation for TLC.                             *)
EXTENDS SessionMutation, TLC

CONSTANTS c1, c2, c3, write, open, k1, f1, f2, m1, m2

(* c1 and c2 are one operation, from one caller; c3 is another operation   *)
(* with the same key, on another machine.                                  *)
Ops == (c1 :> write) @@ (c2 :> write) @@ (c3 :> open)
Kinds == (write :> "write") @@ (open :> "open")
Keys == [o \in Op |-> k1]
Flights == (write :> f1) @@ (open :> f2)
Machines == (write :> m1) @@ (open :> m2)
Auths == (c1 :> {"valid", "none"}) @@ (c2 :> {"valid"}) @@ (c3 :> {"invalid", "none"})
=============================================================================
