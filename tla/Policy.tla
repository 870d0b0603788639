------------------------------- MODULE Policy -------------------------------
(***************************************************************************)
(* The admission policy, internal/policy: Evaluate is a pure function of   *)
(* the operation, the time, the state of the target and the approval       *)
(* presented.  Its stages run in order and the first objection is the      *)
(* answer; no objection admits the operation.                              *)
(*                                                                         *)
(* An evaluation e is a record.  The operation: class, actor (what is      *)
(* wrong with the caller, "ok" if nothing), form (of reason, key and the   *)
(* rest), deadline, scope (the scopes the actor lacks: "none", "plain",    *)
(* "sensitive"), capability ("absent" if the backend lacks it).  Its       *)
(* surroundings: now, writable (the audit log), rollback (available,       *)
(* verified, ref), onMissing (the rollback policy).  The approval: [class, *)
(* wellFormed, exact, issuedAt, expiresAt, consumed], or NoneGiven.        *)
(***************************************************************************)
EXTENDS Naturals, Sequences, FiniteSetsExt

CONSTANT NoneGiven

Classes == {"observe", "reversible", "destructive", "forbidden"}

(* One stage of the policy: it objects, with a reason. *)
Stage(objects, reason) == [objects |-> objects, reason |-> reason]

(* validateOperationAndActor: deadline, actor, structure. *)
AdmissionStages(e) ==
    << Stage(e.deadline = 0, "invalid_operation_structure"),
       Stage(e.now >= e.deadline, "deadline_passed"),
       Stage(e.actor = "unauthenticated", "unauthenticated_caller"),
       Stage(e.actor = "exceeds", "delegation_exceeds_authority"),
       Stage(e.actor = "invalid", "invalid_actor"),
       Stage(e.form = "no_key", "missing_idempotency_key"),
       Stage(e.form = "no_reason", "missing_mutation_reason"),
       Stage(e.form = "malformed", "invalid_operation_structure") >>

(* checkCapabilityRequirements, then checkScopeRequirements. *)
AuthorityStages(e) ==
    << Stage(e.capability = "invalid", "invalid_operation_structure"),
       Stage(e.capability = "absent", "missing_required_capability"),
       Stage(e.scope = "sensitive", "missing_sensitive_evidence_scope"),
       Stage(e.scope = "plain", "missing_required_scope") >>

(* The rollback point lets a reversible mutation through by itself. *)
Reversible(e) == e.class = "reversible" /\ e.rollback.available /\ e.rollback.verified

RollbackStagesTrusting(e) ==
    << Stage(e.onMissing = "deny" /\ ~Reversible(e), "missing_verified_rollback_point") >>

(* evaluateReversibleMutation: an incoherent rollback state is refused, a  *)
(* missing or unverified one escalates the operation or is refused.        *)
RollbackStages(e) ==
    LET r == e.rollback IN
    << Stage(e.onMissing \notin {"escalate", "deny"}, "invalid_operation_structure"),
       Stage(r.verified /\ ~r.available, "missing_verified_rollback_point"),
       Stage(~r.available /\ r.ref # "none", "missing_verified_rollback_point"),
       Stage(Reversible(e) /\ r.ref # "valid", "missing_verified_rollback_point"),
       Stage(~Reversible(e) /\ e.onMissing = "deny", "missing_verified_rollback_point") >>

(* The effective class, after escalation. *)
EffectiveClass(e) ==
    IF e.class = "reversible" /\ ~Reversible(e) THEN "destructive" ELSE e.class

(* Approval.IsActive: inactive before it is issued, from its expiry on, and *)
(* once consumed.                                                           *)
ActivityStages(a, now) ==
    << Stage(a.consumed, "approval_record_consumed"),
       Stage(now < a.issuedAt, "approval_record_not_yet_valid"),
       Stage(now >= a.expiresAt, "approval_record_expired") >>

(* evaluateDestructiveApproval. *)
ApprovalStages(e) ==
    IF e.approval = NoneGiven THEN << Stage(TRUE, "approval_required") >>
    ELSE << Stage(~e.approval.wellFormed, "approval_record_mismatch"),
            Stage(e.approval.class # EffectiveClass(e), "approval_record_mismatch"),
            Stage(~e.approval.exact, "approval_record_mismatch") >>
         \o ActivityStages(e.approval, e.now)

Stages(e) ==
    << Stage(e.now = 0, "invalid_operation_structure"),
       Stage(e.class = "forbidden", "forbidden_operation") >>
    \o AdmissionStages(e) \o AuthorityStages(e)
    \o (IF e.class = "observe" THEN << >>
        ELSE << Stage(~e.writable, "audit_storage_unwritable") >>
             \o (IF e.class = "reversible" THEN RollbackStages(e) ELSE << >>)
             \o (IF Reversible(e) THEN << >> ELSE ApprovalStages(e)))

(* The first objection of a sequence of stages, or "none". *)
FirstObjection(stages) ==
    LET objecting == {i \in 1..Len(stages) : stages[i].objects}
    IN IF objecting = {} THEN "none" ELSE stages[Min(objecting)].reason

(* Evaluate: "none" admits. *)
Evaluate(e) == FirstObjection(Stages(e))

(* What the policy promises (docs/threat-model.md, operation classes and   *)
(* fail-closed invariants): who may do what, stated without the order of   *)
(* the stages.                                                             *)
InOrder(e) ==
    /\ 0 < e.now /\ e.now < e.deadline
    /\ e.actor = "ok" /\ e.form = "ok" /\ e.scope = "none"
    /\ e.capability \in {"unneeded", "present"}

Active(a, now) == ~a.consumed /\ a.issuedAt <= now /\ now < a.expiresAt

Sanctioned(e) ==
    \/ e.class = "observe"
    \/ /\ e.class = "reversible" /\ e.writable /\ e.onMissing \in {"escalate", "deny"}
       /\ e.rollback = [available |-> TRUE, verified |-> TRUE, ref |-> "valid"]
    \/ /\ \/ e.class = "destructive"
          \/ /\ e.class = "reversible" /\ e.onMissing = "escalate"
             /\ ~e.rollback.verified
             /\ ~e.rollback.available => e.rollback.ref = "none"
       /\ e.writable /\ e.approval # NoneGiven
       /\ e.approval.wellFormed /\ e.approval.exact /\ e.approval.class = "destructive"
       /\ Active(e.approval, e.now)
=============================================================================
