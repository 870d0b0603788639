----------------------------- MODULE MCApprovals -----------------------------
(* Approvals for TLC, with one more part beside it: a probe is one input of *)
(* the policy, and the probes between them are every combination of the     *)
(* values below.                                                            *)
EXTENDS Approvals, TLC

VARIABLE probe  \* an input of the policy, or Absent: the approvals run

Presented == [wellFormed : BOOLEAN, class : {"reversible", "destructive"}, exact : BOOLEAN,
              issuedAt : {1, 2}, expiresAt : {2, 3}, consumed : BOOLEAN]

Probes == [class : Classes, actor : {"ok", "exceeds"}, form : {"ok", "no_reason"},
           scope : {"none", "plain"}, capability : {"unneeded", "absent"},
           now : {0, 1, 2}, deadline : {2, 3}, writable : BOOLEAN,
           rollback : [available : BOOLEAN, verified : BOOLEAN, ref : {"none", "valid"}],
           onMissing : {"escalate", "deny"}, approval : Presented \cup {NoneGiven}]

(* Inputs of the policy with at most one thing wrong outside the rollback   *)
(* point and the approval: the others would be refused for the first.       *)
Inputs == {e \in Probes :
    Cardinality({i \in 1..5 : <<e.actor # "ok", e.form # "ok", e.scope # "none",
                                e.capability = "absent", ~e.writable>>[i]}) <= 1}

ProbeInit == /\ probe \in Inputs /\ ApprovalsInit
             /\ kind = "session" /\ base = "reversible" /\ parent = << >>
             /\ asked = [i \in Issuer |-> CHOOSE p \in Params : TRUE]

MCInit == (probe = Absent /\ ApprovalsInit) \/ ProbeInit
MCNext == probe = Absent /\ ApprovalsNext /\ UNCHANGED probe
MCSpec == MCInit /\ [][MCNext]_<<avars, probe>>

Symmetry == Permutations(Issuer) \cup Permutations(User) \cup Permutations(Params)

(* Evaluate admits exactly what the policy promises, whatever the order of  *)
(* its stages: no combination of a rollback point, its policy and an        *)
(* approval slips past the check that would refuse it, and nothing that     *)
(* is sanctioned is refused.                                                *)
PolicyIsSound == probe # Absent => (Evaluate(probe) = "none" <=> InOrder(probe) /\ Sanctioned(probe))
=============================================================================
