----------------------------- MODULE MCMutation -----------------------------
(* Small instances of Mutation for TLC and, in behaviours of their own     *)
(* (part), of the audit log and receipts behind it, Evidence: the two are  *)
(* models of the same files at different grain and share no state here.    *)
EXTENDS Mutation, Evidence, TLC

CONSTANTS r1, r2, r3, daemon, direct, k1, k2, m1, a1

VARIABLE part

(* r1 and its retry r2 are one reversible operation, with one key and one  *)
(* approval, from two processes, that may escalate to destructive; r3 is a *)
(* native input operation without approval on the same machine, by the     *)
(* second process.                                                         *)
Procs == (r1 :> daemon) @@ (r2 :> direct) @@ (r3 :> direct)
Keys == (r1 :> k1) @@ (r2 :> k1) @@ (r3 :> k2)
Targets == [r \in Run |-> m1]
Approvals == (r1 :> a1) @@ (r2 :> a1) @@ (r3 :> None)

MCInit == /\ part \in {"pipeline", "evidence"}
          /\ Init /\ EvidenceInit
          /\ part = "evidence" => ~apart

MCNext ==
    \/ part = "pipeline" /\ Next /\ UNCHANGED <<evars, part>>
    \/ part = "evidence" /\ EvidenceNext /\ UNCHANGED <<vars, part>>

MCSpec == MCInit /\ [][MCNext]_<<vars, evars, part>>
=============================================================================
