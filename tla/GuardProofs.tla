------------------------------ MODULE GuardProofs ---------------------------
(***************************************************************************)
(* Proofs about what a change of a machine has to pass: TransitionLock, the*)
(* lock around a transition, for any number of calls and processes; Policy *)
(* and Approvals, the evaluation of an operation and the store of one-time *)
(* approvals, for any operations, requests, executions, faults and crashes.*)
(***************************************************************************)
EXTENDS TransitionLock, MCApprovals, SequenceTheorems, WellFoundedInduction, TLAPS

-----------------------------------------------------------------------------
(* The transition lock.                                                    *)

AllAlive == \A p \in Proc : alive[p]

(* A call between its mkdir and the removal of the directory.              *)
Holding(c) == pc[c] \in {"made", "opened", "entering", "section", "release",
                         "unlink", "rmdir", "undo", "undoDir"}

(* Only an owner that was read is checked for life.                        *)
CheckedOwner == \A c \in Call : pc[c] = "check" => seen[c] \in Call

(* Before any exit a mkdir is undone only by the call that made it.        *)
Solo == AllAlive => /\ \A c, d \in Call : Holding(c) /\ Holding(d) => c = d
                    /\ \A c \in Call : Holding(c) => dir
                    /\ \A c \in Call : pc[c] \notin {"reclaim", "reclaimDir"}

(* The lock of x is gone from under it, so its release must fail.          *)
Lost(x) == \/ result[x] = "error"
           \/ pc[x] \in {"section", "release"} /\ owner # x

OneLost == \A c, d \in Call : <<c, d>> \in met => Lost(c) \/ Lost(d)

(* Success is only reported on return.                                     *)
OkReturned == \A c \in Call : result[c] = "ok" => pc[c] = "done"

(* Without exits and I/O faults the directory has a maker that will remove *)
(* it, and the maker finds its own complete owner file when it releases.   *)
Named == {"opened", "entering", "section", "release", "unlink"}
Tidy == AllAlive /\ ~faulty =>
          /\ dir => \E c \in Call : Holding(c)
          /\ owner # NoCall => pc[owner] \in Named
          /\ \A c \in Call : pc[c] \in Named => owner = c
          /\ \A c \in Call : pc[c] \in Named \ {"opened"} => full

Inv == TypeOK /\ CheckedOwner /\ Solo /\ OneLost /\ OkReturned /\ Tidy

(* No lock directory and no call in progress: the invariant holds.         *)
LEMMA InitInv == Init => Inv
<1> SUFFICES ASSUME Init PROVE Inv
  OBVIOUS
<1> USE LockAssumption DEF Init
<1>1. TypeOK BY DEF TypeOK, PCs
<1>2. CheckedOwner /\ Solo BY DEF CheckedOwner, Solo, Holding
<1>3. OneLost /\ OkReturned BY DEF OneLost, OkReturned
<1>4. Tidy BY DEF Tidy, Named
<1> QED BY <1>1, <1>2, <1>3, <1>4 DEF Inv

(* The type invariant is inductive by itself.                              *)
LEMMA NextType == TypeOK /\ [Next]_vars => TypeOK'
<1> SUFFICES ASSUME TypeOK, [Next]_vars PROVE TypeOK'
  OBVIOUS
<1> USE LockAssumption DEF TypeOK, PCs, files, Goto, Return, At, Inside
<1>1. ASSUME NEW c \in Call, Start(c) PROVE TypeOK'
  BY <1>1 DEF Start
<1>2. ASSUME NEW c \in Call, Step(c) PROVE TypeOK'
  <2>1. CASE TryCreate(c) BY <2>1 DEF TryCreate
  <2>2. CASE OpenOwner(c) BY <2>2 DEF OpenOwner
  <2>3. CASE WriteOwner(c) BY <2>3 DEF WriteOwner
  <2>4. CASE Enter(c) BY <2>4 DEF Enter
  <2>5. CASE Leave(c) BY <2>5 DEF Leave
  <2>6. CASE ReadForRelease(c) BY <2>6 DEF ReadForRelease
  <2>7. CASE Unlink(c) BY <2>7 DEF Unlink, RemoveOwner
  <2>8. CASE Rmdir(c) BY <2>8 DEF Rmdir, RemoveDirOK, RemoveDirFails
  <2>9. CASE Inspect(c) BY <2>9 DEF Inspect
  <2>10. CASE Check(c) BY <2>10 DEF Check
  <2>11. CASE Reclaim(c) BY <2>11 DEF Reclaim, RemoveOwner
  <2>12. CASE ReclaimDir(c) BY <2>12 DEF ReclaimDir, RemoveDirOK, RemoveDirFails
  <2>13. CASE Wait(c) BY <2>13 DEF Wait
  <2>14. CASE Undo(c) BY <2>14 DEF Undo, RemoveOwner
  <2>15. CASE UndoDir(c) BY <2>15 DEF UndoDir, RemoveDirOK, RemoveDirFails
  <2> QED BY <1>2, <2>1, <2>2, <2>3, <2>4, <2>5, <2>6, <2>7, <2>8, <2>9,
             <2>10, <2>11, <2>12, <2>13, <2>14, <2>15 DEF Step
<1>3. ASSUME NEW c \in Call, Late(c) \/ Cancel(c) PROVE TypeOK'
  BY <1>3 DEF Late, Cancel
<1>4. ASSUME NEW p \in Proc, Exit(p) PROVE TypeOK'
  BY <1>4 DEF Exit
<1>5. CASE UNCHANGED vars
  BY <1>5 DEF vars
<1> QED BY <1>1, <1>2, <1>3, <1>4, <1>5 DEF Next, Finished

(* The three safety parts, one step per action.                            *)
LEMMA NextTidy == Inv /\ [Next]_vars => Tidy'
<1> SUFFICES ASSUME Inv, [Next]_vars, AllAlive', ~faulty' PROVE Tidy'
  BY DEF Tidy
<1>0. TypeOK /\ TypeOK'
  BY NextType DEF Inv
<1>a. AllAlive
  <2>1. ASSUME NEW p \in Proc, Exit(p) PROVE FALSE BY <2>1, <1>0 DEF Exit, AllAlive, TypeOK
  <2> QED BY <2>1, <1>0 DEF Next, AllAlive, TypeOK, Start, Step, TryCreate, OpenOwner,
              WriteOwner, Enter, Leave, ReadForRelease, Unlink, Rmdir, Inspect, Check, Reclaim,
              ReclaimDir, Wait, Undo, UndoDir, Late, Cancel, Finished, vars
<1> USE LockAssumption, <1>0, <1>a DEF Inv, TypeOK, files, Goto, Return, At,
        Solo, Tidy, Named, Holding
<1>1. ASSUME NEW c \in Call, Start(c) PROVE Tidy'
  BY <1>1 DEF Start
<1>2. ASSUME NEW c \in Call, Step(c) PROVE Tidy'
  <2>1. CASE TryCreate(c) BY <2>1 DEF TryCreate
  <2>2. CASE OpenOwner(c) BY <2>2 DEF OpenOwner
  <2>3. CASE WriteOwner(c) BY <2>3 DEF WriteOwner
  <2>4. CASE Enter(c) BY <2>4 DEF Enter
  <2>5. CASE Leave(c) BY <2>5 DEF Leave
  <2>6. CASE ReadForRelease(c) BY <2>6 DEF ReadForRelease
  <2>7. CASE Unlink(c) BY <2>7 DEF Unlink, RemoveOwner
  <2>8. CASE Rmdir(c) BY <2>8 DEF Rmdir, RemoveDirOK, RemoveDirFails
  <2>9. CASE Inspect(c) BY <2>9 DEF Inspect
  <2>10. CASE Check(c) BY <2>10 DEF Check
  <2>11. CASE Reclaim(c) BY <2>11 DEF Reclaim, RemoveOwner
  <2>12. CASE ReclaimDir(c) BY <2>12 DEF ReclaimDir, RemoveDirOK, RemoveDirFails
  <2>13. CASE Wait(c) BY <2>13 DEF Wait
  <2>14. CASE Undo(c) BY <2>14 DEF Undo, RemoveOwner
  <2>15. CASE UndoDir(c) BY <2>15 DEF UndoDir, RemoveDirOK, RemoveDirFails
  <2> QED BY <1>2, <2>1, <2>2, <2>3, <2>4, <2>5, <2>6, <2>7, <2>8, <2>9,
             <2>10, <2>11, <2>12, <2>13, <2>14, <2>15 DEF Step
<1>3. ASSUME NEW c \in Call, Late(c) \/ Cancel(c) PROVE Tidy'
  BY <1>3 DEF Late, Cancel
<1>4. ASSUME NEW p \in Proc, Exit(p) PROVE Tidy'
  BY <1>4 DEF Exit, AllAlive
<1>5. CASE UNCHANGED vars
  BY <1>5 DEF vars
<1> QED BY <1>1, <1>2, <1>3, <1>4, <1>5 DEF Next, Finished

(* Every step of a call, a death or a late context preserves the invariant.*)
LEMMA NextInv == Inv /\ [Next]_vars => Inv'
<1> SUFFICES ASSUME Inv, [Next]_vars PROVE Inv'
  OBVIOUS
<1>0. TypeOK /\ TypeOK'
  BY NextType DEF Inv
<1> DEFINE Rest == CheckedOwner /\ Solo /\ OneLost /\ OkReturned
<1> USE LockAssumption, <1>0 DEF Inv, TypeOK, files, Goto, Return, At,
        CheckedOwner, Solo, AllAlive, OneLost, Lost, Holding, Inside, OkReturned
<1>1. ASSUME NEW c \in Call, Start(c) PROVE Rest'
  BY <1>1 DEF Start
<1>2. ASSUME NEW c \in Call, Step(c) PROVE Rest'
  <2>1. CASE TryCreate(c) BY <2>1 DEF TryCreate
  <2>2. CASE OpenOwner(c) BY <2>2 DEF OpenOwner
  <2>3. CASE WriteOwner(c) BY <2>3 DEF WriteOwner
  <2>4. CASE Enter(c)
    <3>1. (CheckedOwner /\ Solo /\ OkReturned)' BY <2>4 DEF Enter
    <3>2. OneLost'
      <4> SUFFICES ASSUME NEW a \in Call, NEW b \in Call, <<a, b>> \in met'
                   PROVE (Lost(a) \/ Lost(b))'
        OBVIOUS
      <4>1. CASE <<a, b>> \in met BY <2>4, <4>1 DEF Enter
      <4>2. CASE <<a, b>> \notin met
        <5>1. a = c /\ pc[b] = "section" /\ ~Cancelled(c) BY <2>4, <4>2 DEF Enter
        <5>2. a # b BY <5>1, <2>4 DEF Enter
        <5> QED BY <5>1, <5>2, <2>4 DEF Enter
      <4> QED BY <4>1, <4>2
    <3> QED BY <3>1, <3>2
  <2>5. CASE Leave(c) BY <2>5 DEF Leave
  <2>6. CASE ReadForRelease(c) BY <2>6 DEF ReadForRelease
  <2>7. CASE Unlink(c) BY <2>7 DEF Unlink, RemoveOwner
  <2>8. CASE Rmdir(c) BY <2>8 DEF Rmdir, RemoveDirOK, RemoveDirFails
  <2>9. CASE Inspect(c) BY <2>9 DEF Inspect
  <2>10. CASE Check(c) BY <2>10 DEF Check
  <2>11. CASE Reclaim(c) BY <2>11 DEF Reclaim, RemoveOwner
  <2>12. CASE ReclaimDir(c) BY <2>12 DEF ReclaimDir, RemoveDirOK, RemoveDirFails
  <2>13. CASE Wait(c) BY <2>13 DEF Wait
  <2>14. CASE Undo(c) BY <2>14 DEF Undo, RemoveOwner
  <2>15. CASE UndoDir(c) BY <2>15 DEF UndoDir, RemoveDirOK, RemoveDirFails
  <2> QED BY <1>2, <2>1, <2>2, <2>3, <2>4, <2>5, <2>6, <2>7, <2>8, <2>9,
             <2>10, <2>11, <2>12, <2>13, <2>14, <2>15 DEF Step
<1>3. ASSUME NEW c \in Call, Late(c) \/ Cancel(c) PROVE Rest'
  BY <1>3 DEF Late, Cancel
<1>4. ASSUME NEW p \in Proc, Exit(p) PROVE Rest'
  BY <1>4 DEF Exit
<1>5. ASSUME UNCHANGED vars PROVE Rest'
  BY <1>5 DEF vars
<1>6. Rest'
  BY <1>1, <1>2, <1>3, <1>4, <1>5 DEF Next, Finished
<1> QED BY <1>0, <1>6, NextTidy DEF Inv

(* lock.go:11-188: what every reachable state satisfies; the theorems      *)
(* below are its consequences.                                             *)
THEOREM LockInvariant == Spec => []Inv
  BY InitInv, NextInv, PTL DEF Spec

(* lock.go:11-188: every reachable state of the lock is well formed.       *)
THEOREM LockTypeCorrect == Spec => []TypeOK
<1>1. Inv => TypeOK BY DEF Inv
<1> QED BY <1>1, LockInvariant, PTL

(* lock.go:71-87 with O_EXCL and mkdir: until some process exits, no two   *)
(* calls are in fn() together, for any number of processes and calls.      *)
THEOREM LockExclusiveUntilExit == Spec => []ExclusiveUntilExit
<1>1. Inv => ExclusiveUntilExit
  BY DEF Inv, Solo, AllAlive, ExclusiveUntilExit, Exclusive, Inside, Holding
<1> QED BY <1>1, LockInvariant, PTL

(* lock.go:148-177: releaseLock compares the owner, so two calls that were *)
(* in fn() together never both return success.                             *)
THEOREM LockOverlapIsReported == Spec => []OverlapIsReported
<1>1. Inv => OverlapIsReported
  <2> SUFFICES ASSUME Inv, NEW c \in Call, NEW d \in Call, <<c, d>> \in met,
                      result[c] = "ok", result[d] = "ok"
               PROVE FALSE
    BY DEF OverlapIsReported
  <2> QED BY DEF Inv, OneLost, Lost, OkReturned
<1> QED BY <1>1, LockInvariant, PTL

(* lock.go:79-85, 29-30: no cancelled or failed acquisition leaves the     *)
(* directory behind while every process lives and every system call works. *)
THEOREM LockNoLeak == Spec => []NoLockLeak
<1>1. Inv => NoLockLeak
  BY DEF Inv, Tidy, NoLockLeak, AllAlive, Holding
<1> QED BY <1>1, LockInvariant, PTL

-----------------------------------------------------------------------------
(* The policy.                                                             *)

(* A set of numbers that is not empty has a least element.                 *)
LEMMA LeastElement ==
    ASSUME NEW T \in SUBSET Nat, T # {}
    PROVE  \E x \in T : \A y \in T : x <= y
<1> DEFINE R == OpToRel(<, Nat)
<1>1. IsWellFoundedOn(R, Nat) BY NatLessThanWellFounded
<1>2. \A x, y \in Nat : <<x, y>> \in R <=> x < y BY DEF OpToRel
<1> HIDE DEF R
<1>3. PICK x \in T : \A y \in T : ~ (<<y, x>> \in R) BY <1>1, WFMin
<1>4. ASSUME NEW y \in T PROVE x <= y
  <2>1. x \in Nat /\ y \in Nat OBVIOUS
  <2>2. ~(y < x) BY <1>2, <1>3, <2>1
  <2> QED BY <2>1, <2>2
<1> QED BY <1>4

(* What a stage of the policy is, and a sequence of stages none of which   *)
(* objects.                                                                *)
Reasons ==
    {"approval_record_consumed", "approval_record_expired",
     "approval_record_mismatch", "approval_record_not_yet_valid",
     "approval_required", "audit_storage_unwritable", "deadline_passed",
     "delegation_exceeds_authority", "forbidden_operation",
     "invalid_actor", "invalid_operation_structure",
     "missing_idempotency_key", "missing_mutation_reason",
     "missing_required_capability", "missing_required_scope",
     "missing_sensitive_evidence_scope",
     "missing_verified_rollback_point", "unauthenticated_caller"}
AStage == [objects : BOOLEAN, reason : Reasons]
Quiet(s) == \A i \in 1..Len(s) : ~s[i].objects

(* Only a quiet sequence has no first objection.                           *)
LEMMA FirstNone ==
    ASSUME NEW s \in Seq(AStage) PROVE FirstObjection(s) = "none" <=> Quiet(s)
<1> DEFINE objecting == {i \in 1..Len(s) : s[i].objects}
<1>1. CASE objecting = {} BY <1>1 DEF FirstObjection, Quiet
<1>2. CASE objecting # {}
  <2>1. objecting \in SUBSET Nat OBVIOUS
  <2>2. \E x \in objecting : \A y \in objecting : x <= y BY <1>2, <2>1, LeastElement
  <2>3. Min(objecting) \in objecting BY <2>2 DEF Min
  <2>4. Min(objecting) \in 1..Len(s) BY <2>3
  <2>5. s[Min(objecting)] \in AStage BY <2>4
  <2>6. s[Min(objecting)].reason # "none" BY <2>5 DEF AStage, Reasons
  <2>7. FirstObjection(s) = s[Min(objecting)].reason BY <1>2 DEF FirstObjection
  <2>8. ~Quiet(s) BY <1>2 DEF Quiet
  <2> QED BY <2>6, <2>7, <2>8
<1> QED BY <1>1, <1>2

(* A concatenation is quiet when both parts are.                           *)
LEMMA QuietConcat ==
    ASSUME NEW s \in Seq(AStage), NEW t \in Seq(AStage)
    PROVE  s \o t \in Seq(AStage) /\ (Quiet(s \o t) <=> Quiet(s) /\ Quiet(t))
<1>1. s \o t \in Seq(AStage) /\ Len(s \o t) = Len(s) + Len(t) BY ConcatProperties
<1>2. \A i \in 1..Len(s) : i \in 1..Len(s \o t) /\ (s \o t)[i] = s[i] BY <1>1, ConcatProperties
<1>3. \A i \in 1..Len(t) : Len(s) + i \in 1..Len(s \o t) /\ (s \o t)[Len(s) + i] = t[i]
  BY <1>1, ConcatProperties
<1>4. Quiet(s \o t) => Quiet(s) /\ Quiet(t) BY <1>2, <1>3 DEF Quiet
<1>5. ASSUME Quiet(s), Quiet(t), NEW i \in 1..Len(s \o t) PROVE ~(s \o t)[i].objects
  <2>1. CASE i \in 1..Len(s) BY <1>2, <1>5, <2>1 DEF Quiet
  <2>2. CASE i \notin 1..Len(s)
    <3>1. i - Len(s) \in 1..Len(t) /\ i = Len(s) + (i - Len(s)) BY <1>1, <2>2
    <3>2. (s \o t)[i] = t[i - Len(s)] BY <1>3, <3>1
    <3> QED BY <3>1, <3>2, <1>5 DEF Quiet
  <2> QED BY <2>1, <2>2
<1> QED BY <1>1, <1>4, <1>5 DEF Quiet

(* The inputs of the policy: an operation, its surroundings, an approval.  *)
AnApproval == [wellFormed : BOOLEAN, class : Classes, exact : BOOLEAN,
               issuedAt : Nat, expiresAt : Nat, consumed : BOOLEAN]
PolicyInput ==
    [class : Classes,
     actor : {"ok", "unauthenticated", "exceeds", "invalid"},
     form : {"ok", "no_key", "no_reason", "malformed"},
     scope : {"none", "plain", "sensitive"},
     capability : {"unneeded", "present", "absent", "invalid"},
     now : Nat, deadline : Nat, writable : BOOLEAN,
     rollback : [available : BOOLEAN, verified : BOOLEAN, ref : {"none", "valid", "invalid"}],
     onMissing : {"escalate", "deny", "unknown"}, approval : AnApproval \cup {NoneGiven}]

(* The stages of admission are quiet for an operation that is in order.    *)
LEMMA AdmissionQuiet ==
    ASSUME NEW e \in PolicyInput
    PROVE  /\ AdmissionStages(e) \in Seq(AStage)
           /\ Quiet(AdmissionStages(e)) <=>
                e.now < e.deadline /\ e.actor = "ok" /\ e.form = "ok"
<1> DEFINE s == AdmissionStages(e)
<1>1. s \in Seq(AStage) BY DEF PolicyInput, AdmissionStages, Stage, AStage, Reasons
<1>2. Len(s) = 8 BY DEF AdmissionStages
<1>3. /\ s[1].objects <=> e.deadline = 0
      /\ s[2].objects <=> e.now >= e.deadline
      /\ s[3].objects <=> e.actor = "unauthenticated"
      /\ s[4].objects <=> e.actor = "exceeds"
      /\ s[5].objects <=> e.actor = "invalid"
      /\ s[6].objects <=> e.form = "no_key"
      /\ s[7].objects <=> e.form = "no_reason"
      /\ s[8].objects <=> e.form = "malformed"
  BY DEF AdmissionStages, Stage
<1> HIDE DEF s
<1>4. Quiet(s) <=> \A i \in {1, 2, 3, 4, 5, 6, 7, 8} : ~s[i].objects
  BY <1>2 DEF Quiet
<1>5. Quiet(s) <=>
        /\ e.deadline # 0 /\ ~(e.now >= e.deadline)
        /\ e.actor \notin {"unauthenticated", "exceeds", "invalid"}
        /\ e.form \notin {"no_key", "no_reason", "malformed"}
  BY <1>3, <1>4
<1>6. Quiet(s) <=> e.now < e.deadline /\ e.actor = "ok" /\ e.form = "ok"
  BY <1>5 DEF PolicyInput
<1> QED BY <1>1, <1>6 DEF s

(* The stages of authority are quiet when no scope and no capability lack. *)
LEMMA AuthorityQuiet ==
    ASSUME NEW e \in PolicyInput
    PROVE  /\ AuthorityStages(e) \in Seq(AStage)
           /\ Quiet(AuthorityStages(e)) <=>
                e.scope = "none" /\ e.capability \in {"unneeded", "present"}
<1> DEFINE s == AuthorityStages(e)
<1>1. s \in Seq(AStage) BY DEF PolicyInput, AuthorityStages, Stage, AStage, Reasons
<1>2. Len(s) = 4 BY DEF AuthorityStages
<1>3. /\ s[1].objects <=> e.capability = "invalid"
      /\ s[2].objects <=> e.capability = "absent"
      /\ s[3].objects <=> e.scope = "sensitive"
      /\ s[4].objects <=> e.scope = "plain"
  BY DEF AuthorityStages, Stage
<1> HIDE DEF s
<1>4. Quiet(s) <=> \A i \in {1, 2, 3, 4} : ~s[i].objects BY <1>2 DEF Quiet
<1>5. Quiet(s) <=> /\ e.capability \notin {"invalid", "absent"}
                   /\ e.scope \notin {"sensitive", "plain"}
  BY <1>3, <1>4
<1>6. Quiet(s) <=> e.scope = "none" /\ e.capability \in {"unneeded", "present"}
  BY <1>5 DEF PolicyInput
<1> QED BY <1>1, <1>6 DEF s

(* The stages of the rollback point.                                       *)
LEMMA RollbackQuiet ==
    ASSUME NEW e \in PolicyInput
    PROVE  /\ RollbackStages(e) \in Seq(AStage)
           /\ Quiet(RollbackStages(e)) <=>
                /\ e.onMissing \in {"escalate", "deny"}
                /\ e.rollback.verified => e.rollback.available
                /\ ~e.rollback.available => e.rollback.ref = "none"
                /\ Reversible(e) => e.rollback.ref = "valid"
                /\ ~Reversible(e) => e.onMissing = "escalate"
<1> DEFINE s == RollbackStages(e)
<1>0. Reversible(e) \in BOOLEAN /\ e.rollback.verified \in BOOLEAN /\ e.rollback.available \in BOOLEAN
  BY DEF Reversible, PolicyInput
<1>1. s \in Seq(AStage) BY <1>0 DEF RollbackStages, Stage, AStage, Reasons
<1>2. Len(s) = 5 BY DEF RollbackStages
<1>3. /\ s[1].objects <=> e.onMissing \notin {"escalate", "deny"}
      /\ s[2].objects <=> e.rollback.verified /\ ~e.rollback.available
      /\ s[3].objects <=> ~e.rollback.available /\ e.rollback.ref # "none"
      /\ s[4].objects <=> Reversible(e) /\ e.rollback.ref # "valid"
      /\ s[5].objects <=> ~Reversible(e) /\ e.onMissing = "deny"
  BY DEF RollbackStages, Stage
<1> HIDE DEF s
<1>4. Quiet(s) <=> \A i \in {1, 2, 3, 4, 5} : ~s[i].objects BY <1>2 DEF Quiet
<1>5. Quiet(s) <=>
        /\ e.onMissing \in {"escalate", "deny"}
        /\ ~(e.rollback.verified /\ ~e.rollback.available)
        /\ ~(~e.rollback.available /\ e.rollback.ref # "none")
        /\ ~(Reversible(e) /\ e.rollback.ref # "valid")
        /\ ~(~Reversible(e) /\ e.onMissing = "deny")
  BY <1>3, <1>4
<1> QED BY <1>0, <1>1, <1>5 DEF s

(* The stages of an approval are quiet for an exact and active one.        *)
LEMMA ApprovalQuiet ==
    ASSUME NEW e \in PolicyInput
    PROVE  /\ ApprovalStages(e) \in Seq(AStage)
           /\ Quiet(ApprovalStages(e)) <=>
                /\ e.approval # NoneGiven
                /\ e.approval.wellFormed /\ e.approval.exact
                /\ e.approval.class = EffectiveClass(e) /\ Active(e.approval, e.now)
<1>1. CASE e.approval = NoneGiven
  <2> DEFINE s == << Stage(TRUE, "approval_required") >>
  <2>1. ApprovalStages(e) = s BY <1>1 DEF ApprovalStages
  <2>2. s \in Seq(AStage) /\ Len(s) = 1 /\ s[1].objects BY DEF Stage, AStage, Reasons
  <2> HIDE DEF s
  <2>3. ~Quiet(s) BY <2>2 DEF Quiet
  <2> QED BY <1>1, <2>1, <2>2, <2>3
<1>2. CASE e.approval # NoneGiven
  <2> DEFINE a == e.approval
             s == << Stage(~a.wellFormed, "approval_record_mismatch"),
                     Stage(a.class # EffectiveClass(e), "approval_record_mismatch"),
                     Stage(~a.exact, "approval_record_mismatch") >>
             t == ActivityStages(a, e.now)
  <2>0. a \in AnApproval /\ e.now \in Nat BY <1>2 DEF PolicyInput
  <2>a. /\ a.wellFormed \in BOOLEAN /\ a.exact \in BOOLEAN /\ a.consumed \in BOOLEAN
        /\ a.issuedAt \in Nat /\ a.expiresAt \in Nat
    BY <2>0 DEF AnApproval
  <2> HIDE DEF a
  <2>1. ApprovalStages(e) = s \o t BY <1>2 DEF ApprovalStages, a
  <2>2. s \in Seq(AStage) BY <2>a DEF Stage, AStage, Reasons
  <2>3. t \in Seq(AStage) BY <2>a DEF ActivityStages, Stage, AStage, Reasons
  <2>4. Len(s) = 3 /\ Len(t) = 3 BY DEF ActivityStages
  <2>5. /\ s[1].objects <=> ~a.wellFormed
        /\ s[2].objects <=> a.class # EffectiveClass(e)
        /\ s[3].objects <=> ~a.exact
    BY <2>a DEF Stage
  <2>6. /\ t[1].objects <=> a.consumed
        /\ t[2].objects <=> e.now < a.issuedAt
        /\ t[3].objects <=> e.now >= a.expiresAt
    BY <2>a DEF ActivityStages, Stage
  <2> HIDE DEF s, t
  <2>7. Quiet(s) <=> \A i \in {1, 2, 3} : ~s[i].objects BY <2>4 DEF Quiet
  <2>8. Quiet(t) <=> \A i \in {1, 2, 3} : ~t[i].objects BY <2>4 DEF Quiet
  <2>9. Quiet(s) <=> a.wellFormed /\ a.exact /\ a.class = EffectiveClass(e)
    BY <2>5, <2>7, <2>a
  <2>10. Quiet(t) <=> ~a.consumed /\ ~(e.now < a.issuedAt) /\ ~(e.now >= a.expiresAt)
    BY <2>6, <2>8, <2>a
  <2>11. Quiet(t) <=> Active(a, e.now) BY <2>10, <2>a, <2>0 DEF Active
  <2>12. s \o t \in Seq(AStage) /\ (Quiet(s \o t) <=> Quiet(s) /\ Quiet(t))
    BY <2>2, <2>3, QuietConcat
  <2> QED BY <1>2, <2>1, <2>9, <2>11, <2>12 DEF a
<1> QED BY <1>1, <1>2

(* internal/policy: for every operation, surroundings and approval         *)
(* Evaluate admits exactly what the policy promises, in whatever order its *)
(* stages come.                                                            *)
THEOREM PolicyExact ==
    \A e \in PolicyInput : Evaluate(e) = "none" <=> InOrder(e) /\ Sanctioned(e)
<1> SUFFICES ASSUME NEW e \in PolicyInput
             PROVE  Evaluate(e) = "none" <=> InOrder(e) /\ Sanctioned(e)
  OBVIOUS
<1> DEFINE h == << Stage(e.now = 0, "invalid_operation_structure"),
                   Stage(e.class = "forbidden", "forbidden_operation") >>
           w == << Stage(~e.writable, "audit_storage_unwritable") >>
           r == IF e.class = "reversible" THEN RollbackStages(e) ELSE << >>
           p == IF Reversible(e) THEN << >> ELSE ApprovalStages(e)
           m == IF e.class = "observe" THEN << >> ELSE w \o r \o p
<1>0. /\ e.writable \in BOOLEAN /\ e.now \in Nat /\ e.deadline \in Nat /\ e.class \in Classes
      /\ e.rollback \in [available : BOOLEAN, verified : BOOLEAN, ref : {"none", "valid", "invalid"}]
  BY DEF PolicyInput
<1>1. h \in Seq(AStage) /\ w \in Seq(AStage) BY <1>0 DEF Stage, AStage, Reasons
<1>2. Quiet(h) <=> e.now # 0 /\ e.class # "forbidden"
  <2>1. Len(h) = 2 /\ (h[1].objects <=> e.now = 0) /\ (h[2].objects <=> e.class = "forbidden")
    BY DEF Stage
  <2> HIDE DEF h
  <2>2. Quiet(h) <=> \A i \in {1, 2} : ~h[i].objects BY <2>1 DEF Quiet
  <2> QED BY <2>1, <2>2
<1>3. Quiet(w) <=> e.writable
  <2>1. Len(w) = 1 /\ (w[1].objects <=> ~e.writable) BY <1>0 DEF Stage
  <2> HIDE DEF w
  <2>2. Quiet(w) <=> \A i \in {1} : ~w[i].objects BY <2>1 DEF Quiet
  <2> QED BY <2>1, <2>2, <1>0
<1>4. << >> \in Seq(AStage) /\ Quiet(<< >>) BY DEF Quiet
<1>5. r \in Seq(AStage) /\ (Quiet(r) <=> (e.class = "reversible" => Quiet(RollbackStages(e))))
  BY <1>4, RollbackQuiet
<1>6. p \in Seq(AStage) /\ (Quiet(p) <=> Reversible(e) \/ Quiet(ApprovalStages(e)))
  BY <1>4, ApprovalQuiet
<1> HIDE DEF h, w, r, p
<1>7. w \o r \in Seq(AStage) /\ (Quiet(w \o r) <=> Quiet(w) /\ Quiet(r))
  BY <1>1, <1>5, QuietConcat
<1>8. w \o r \o p \in Seq(AStage) /\ (Quiet(w \o r \o p) <=> Quiet(w) /\ Quiet(r) /\ Quiet(p))
  BY <1>7, <1>6, QuietConcat
<1>9. m \in Seq(AStage) /\ (Quiet(m) <=> e.class = "observe" \/ (Quiet(w) /\ Quiet(r) /\ Quiet(p)))
  BY <1>8, <1>4
<1> HIDE DEF m
<1>10. Stages(e) = h \o AdmissionStages(e) \o AuthorityStages(e) \o m
  BY DEF Stages, h, w, r, p, m
<1>11. /\ h \o AdmissionStages(e) \in Seq(AStage)
       /\ Quiet(h \o AdmissionStages(e)) <=> Quiet(h) /\ Quiet(AdmissionStages(e))
  BY <1>1, AdmissionQuiet, QuietConcat
<1>12. /\ h \o AdmissionStages(e) \o AuthorityStages(e) \in Seq(AStage)
       /\ Quiet(h \o AdmissionStages(e) \o AuthorityStages(e)) <=>
            Quiet(h) /\ Quiet(AdmissionStages(e)) /\ Quiet(AuthorityStages(e))
  BY <1>11, AuthorityQuiet, QuietConcat
<1>13. /\ Stages(e) \in Seq(AStage)
       /\ Quiet(Stages(e)) <=> /\ Quiet(h) /\ Quiet(AdmissionStages(e))
                               /\ Quiet(AuthorityStages(e)) /\ Quiet(m)
  BY <1>9, <1>10, <1>12, QuietConcat
<1>14. Evaluate(e) = "none" <=> Quiet(Stages(e)) BY <1>13, FirstNone DEF Evaluate
<1>15. Quiet(h) /\ Quiet(AdmissionStages(e)) /\ Quiet(AuthorityStages(e))
         <=> InOrder(e) /\ e.class # "forbidden"
  BY <1>0, <1>2, AdmissionQuiet, AuthorityQuiet DEF InOrder
<1>16. Quiet(m) /\ e.class # "forbidden" <=> Sanctioned(e)
  <2>1. CASE e.class = "observe" BY <1>9, <2>1 DEF Sanctioned
  <2>2. CASE e.class = "forbidden" BY <2>2 DEF Sanctioned
  <2>3. CASE e.class = "destructive"
    <3>1. ~Reversible(e) /\ EffectiveClass(e) = "destructive"
      BY <2>3 DEF Reversible, EffectiveClass
    <3>2. Quiet(m) <=> e.writable /\ Quiet(ApprovalStages(e))
      BY <2>3, <3>1, <1>3, <1>5, <1>6, <1>9
    <3> QED BY <2>3, <3>1, <3>2, ApprovalQuiet DEF Sanctioned
  <2>4. CASE e.class = "reversible" /\ Reversible(e)
    <3>1. e.rollback.available /\ e.rollback.verified BY <2>4 DEF Reversible
    <3>2. Quiet(m) <=> /\ e.writable /\ e.onMissing \in {"escalate", "deny"}
                       /\ e.rollback.ref = "valid"
      BY <2>4, <3>1, <1>3, <1>5, <1>6, <1>9, RollbackQuiet
    <3>3. e.rollback.ref = "valid" <=>
            e.rollback = [available |-> TRUE, verified |-> TRUE, ref |-> "valid"]
      <4>1. /\ e.rollback.available = TRUE /\ e.rollback.verified = TRUE
            /\ e.rollback = [available |-> e.rollback.available, verified |-> e.rollback.verified,
                              ref |-> e.rollback.ref]
        BY <3>1, <1>0
      <4>2. e.rollback = [available |-> TRUE, verified |-> TRUE, ref |-> e.rollback.ref]
        BY <4>1, Zenon
      <4>3. [available |-> TRUE, verified |-> TRUE, ref |-> "valid"].ref = "valid"
        OBVIOUS
      <4> QED BY <4>2, <4>3, Zenon
    <3> QED BY <2>4, <3>1, <3>2, <3>3 DEF Sanctioned
  <2>5. CASE e.class = "reversible" /\ ~Reversible(e)
    <3>1. EffectiveClass(e) = "destructive" /\ ~(e.rollback.available /\ e.rollback.verified)
      BY <2>5 DEF Reversible, EffectiveClass
    <3>2. Quiet(m) <=> /\ e.writable /\ e.onMissing = "escalate"
                       /\ e.rollback.verified => e.rollback.available
                       /\ ~e.rollback.available => e.rollback.ref = "none"
                       /\ Quiet(ApprovalStages(e))
      BY <2>5, <3>1, <1>3, <1>5, <1>6, <1>9, RollbackQuiet
    <3>3. e.rollback # [available |-> TRUE, verified |-> TRUE, ref |-> "valid"]
      BY <3>1
    <3>4. e.rollback.verified \in BOOLEAN /\ e.rollback.available \in BOOLEAN BY <1>0
    <3> QED BY <2>5, <3>1, <3>2, <3>3, <3>4, ApprovalQuiet DEF Sanctioned
  <2> QED BY <1>0, <2>1, <2>2, <2>3, <2>4, <2>5 DEF Classes
<1> QED BY <1>13, <1>14, <1>15, <1>16

-----------------------------------------------------------------------------
(* The life of an approval.                                                *)

Operation == [params : Params, class : {"reversible", "destructive"}, deadline : Nat]
Effect == [user : User, op : Operation, authority : Authority \cup {NoneGiven}]

(* ApprovalsTypeOK, and what the variables it leaves out can hold.         *)
ApprovalsTyped ==
    /\ ApprovalsTypeOK
    /\ kind \in {"operation", "session"} /\ base \in {"reversible", "destructive"}
    /\ receipt \in Authority \cup {Absent} /\ intent \in BOOLEAN /\ line \in BOOLEAN
    /\ asked \in [Issuer -> Params] /\ prepared \in [Issuer -> Authority \cup {Absent}]
    /\ op \in [User -> Operation \cup {Absent}] /\ shown \in [User -> Authority \cup {NoneGiven}]
    /\ effects \in SUBSET Effect

(* A request under issueMu, past its preparation.                          *)
Issuing(i) == at[i] \in {"intent", "create", "write", "receipt", "line"}

(* issueMu admits one request; it knows how far the record on disk is, and *)
(* a record exists only after its audit intent.                            *)
Requests ==
    /\ \A i, j \in Issuer : Issuing(i) /\ Issuing(j) => i = j
    /\ \A i \in Issuer :
         /\ Issuing(i) => prepared[i] \in Authority
         /\ at[i] \in {"intent", "create"} => issued = Absent
         /\ at[i] = "write" => issued = Torn
         /\ at[i] \in {"receipt", "line"} => issued = prepared[i]
         /\ at[i] = "line" => receipt = prepared[i]
         /\ at[i] \in {"create", "write"} => intent
    /\ issued # Absent => intent

(* An execution whose consumed record is on disk, whole or torn.           *)
Spending(u) == step[u] = "write" \/ (step[u] = "admitted" /\ shown[u] # NoneGiven)

(* What an execution carries from its admission to its effect.             *)
Uses ==
    \A u \in User :
        /\ step[u] \in {"loaded", "create", "write", "admitted"} => op[u] \in Operation
        /\ step[u] = "create" \/ Spending(u) =>
             shown[u] \in Authority /\ Exact(shown[u], op[u])
        /\ step[u] = "admitted" /\ ~Spending(u) => op[u].class = "reversible"
        /\ Spending(u) => issued = shown[u] /\ used = IF step[u] = "write" THEN Torn ELSE shown[u]

(* O_EXCL on the consumed record: one execution at a time has it, and none *)
(* after an effect under it.                                               *)
SoleSpender ==
    /\ \A u, v \in User : Spending(u) /\ Spending(v) => u = v
    /\ \A u \in User : Spending(u) => \A f \in effects : f.authority = NoneGiven

ApprovalsInv == /\ ApprovalsTyped /\ Requests /\ Uses /\ SoleSpender
                /\ GrantsAgree /\ GrantIsEvidenced /\ EffectIsAuthorized

(* An evaluation the model builds is an input of the policy.               *)
LEMMA EvaluationTyped ==
    ASSUME ApprovalsTyped, NEW o \in Operation, NEW a \in Authority \cup {NoneGiven}
    PROVE  Evaluation(o, a) \in PolicyInput
<1>1. clock \in Nat BY DEF ApprovalsTyped, ApprovalsTypeOK
<1>2. Rollback(o.class) \in [available : BOOLEAN, verified : BOOLEAN,
                             ref : {"none", "valid", "invalid"}]
  <2> DEFINE has == IF kind = "session" THEN ValidChain(Pinned)
                    ELSE o.class = "reversible" /\ DOMAIN parent # {}
  <2>1. has \in BOOLEAN BY DEF ValidChain
  <2>2. Rollback(o.class) = [available |-> has, verified |-> has,
                             ref |-> IF has THEN "valid" ELSE "none"]
    BY DEF Rollback
  <2> HIDE DEF has
  <2> QED BY <2>1, <2>2
<1>3. o.class \in Classes /\ o.deadline \in Nat BY DEF Operation, Classes
<1> DEFINE q == IF a = NoneGiven THEN NoneGiven
                ELSE [wellFormed |-> TRUE, class |-> "destructive", exact |-> Exact(a, o),
                      issuedAt |-> a.issuedAt, expiresAt |-> a.expiresAt, consumed |-> FALSE]
<1>4. q \in AnApproval \cup {NoneGiven}
  <2>1. CASE a = NoneGiven BY <2>1
  <2>2. CASE a # NoneGiven
    <3>1. a \in Authority BY <2>2
    <3>2. a.issuedAt \in Nat /\ a.expiresAt \in Nat
      BY <3>1, ApprovalConstants DEF Authority
    <3>3. Exact(a, o) \in BOOLEAN BY DEF Exact
    <3> HIDE DEF q
    <3>4. q = [wellFormed |-> TRUE, class |-> "destructive", exact |-> Exact(a, o),
               issuedAt |-> a.issuedAt, expiresAt |-> a.expiresAt, consumed |-> FALSE]
      BY <2>2 DEF q
    <3> QED BY <3>2, <3>3, <3>4 DEF AnApproval, Classes
  <2> QED BY <2>1, <2>2
<1>5. Evaluation(o, a) =
        [class |-> o.class, actor |-> "ok", form |-> "ok", scope |-> "none",
         capability |-> "present", now |-> clock, deadline |-> o.deadline,
         writable |-> TRUE, rollback |-> Rollback(o.class), onMissing |-> "escalate",
         approval |-> q]
  BY DEF Evaluation
<1> HIDE DEF q
<1> QED BY <1>1, <1>2, <1>3, <1>4, <1>5 DEF PolicyInput

(* What the policy admits as destructive shows an exact approval, and what *)
(* it admits otherwise was built reversible.                               *)
LEMMA AdmittedIsExact ==
    ASSUME ApprovalsTyped, NEW o \in Operation, NEW a \in Authority \cup {NoneGiven},
           Evaluate(Evaluation(o, a)) = "none"
    PROVE  IF EffectiveClass(Evaluation(o, a)) = "destructive"
           THEN a \in Authority /\ Exact(a, o)
           ELSE o.class = "reversible"
<1> DEFINE e == Evaluation(o, a)
<1>1. Sanctioned(e) BY EvaluationTyped, PolicyExact
<1>2. e.class = o.class /\ o.class \in {"reversible", "destructive"}
  BY DEF Evaluation, Operation
<1>3. a = NoneGiven => e.approval = NoneGiven BY DEF Evaluation
<1>4. a # NoneGiven => e.approval.exact = Exact(a, o) BY DEF Evaluation
<1> HIDE DEF e
<1>5. CASE EffectiveClass(e) = "destructive"
  <2>1. ~Reversible(e) BY <1>2, <1>5 DEF EffectiveClass, Reversible
  <2>2. e.class # "observe" BY <1>2
  <2>3. ~(/\ e.class = "reversible"
          /\ e.rollback = [available |-> TRUE, verified |-> TRUE, ref |-> "valid"])
    BY <2>1 DEF Reversible
  <2>4. e.approval # NoneGiven /\ e.approval.exact BY <1>1, <2>2, <2>3 DEF Sanctioned
  <2>5. a # NoneGiven BY <1>3, <2>4
  <2>6. Exact(a, o) BY <1>4, <2>4, <2>5
  <2> QED BY <1>5, <2>5, <2>6 DEF e
<1>6. CASE EffectiveClass(e) # "destructive"
  <2>1. o.class = "reversible" BY <1>2, <1>6 DEF EffectiveClass
  <2> QED BY <1>6, <2>1 DEF e
<1> QED BY <1>5, <1>6

(* A retry and a first request alike stand for an approval.                *)
LEMMA BuiltTyped ==
    ASSUME ApprovalsTyped
    PROVE  /\ BuiltClass \in {"reversible", "destructive"}
           /\ \A i \in Issuer : Built(i) \in Authority
<1>1. BuiltClass \in {"reversible", "destructive"}
  BY DEF BuiltClass, SafetyClass, ApprovalsTyped
<1>2. ASSUME NEW i \in Issuer PROVE Built(i) \in Authority
  <2>1. CASE Readable(issued)
    <3>1. issued \in Authority BY <2>1 DEF Readable, ApprovalsTyped, ApprovalsTypeOK
    <3> QED BY <1>1, <2>1, <3>1 DEF Built, Authority, ApprovalsTyped
  <2>2. CASE ~Readable(issued)
    <3>1. clock \in 1..MaxClock /\ clock + ValidFor \in 1..MaxClock + ValidFor
      BY ApprovalConstants DEF ApprovalsTyped, ApprovalsTypeOK
    <3> QED BY <1>1, <2>2, <3>1 DEF Built, Authority, ApprovalsTyped
  <2> QED BY <2>1, <2>2
<1> QED BY <1>1, <1>2

IssuerStep(i) == \/ TurnAway(i) \/ TurnAwaySession(i) \/ Prepare(i) \/ RecordIssueIntent(i)
                 \/ CreateIssued(i) \/ WriteIssued(i) \/ EnsureReceipt(i) \/ EnsureLine(i)
UserStep(u) == \/ Present(u) \/ Admit(u) \/ CreateSpent(u) \/ WriteSpent(u)
               \/ TakeEffect(u) \/ Abort(u)

(* What the executions rely on: a readable record on disk stays as it is,  *)
(* and an announced approval stays announced.                              *)
Steady == /\ issued \in Authority => issued' = issued
          /\ intent => intent'
          /\ UNCHANGED <<step, op, shown, effects, used>>

(* Executions keep their invariant while the records they rely on stay.    *)
LEMMA SteadyUses ==
    ASSUME ApprovalsInv, Steady PROVE (Uses /\ SoleSpender /\ EffectIsAuthorized)'
<1> USE DEF ApprovalsInv, Steady
<1>1. Uses' BY DEF Uses, Spending, Exact
<1>2. SoleSpender' BY DEF SoleSpender, Spending
<1>3. EffectIsAuthorized'
  <2>1. \A f \in effects : f.authority \in Authority \cup {NoneGiven}
    BY DEF ApprovalsTyped, Effect
  <2>2. ASSUME NEW f \in effects, issued = f.authority PROVE issued' = f.authority
    BY <2>1, <2>2, ApprovalConstants DEF ApprovalsTyped, ApprovalsTypeOK
  <2> QED BY <2>2 DEF EffectIsAuthorized, Exact
<1> QED BY <1>1, <1>2, <1>3

(* What a request leaves as it is.                                         *)
LEMMA IssuerSteady ==
    ASSUME ApprovalsInv, NEW i \in Issuer, IssuerStep(i)
    PROVE  Steady /\ UNCHANGED <<kind, base, clock, asked>>
<1> USE ApprovalConstants DEF ApprovalsInv, Requests, Issuing, Steady, store, evidence, users,
        world, Go, Stay, Conclude
<1>1. CASE TurnAway(i) \/ TurnAwaySession(i) BY <1>1 DEF TurnAway, TurnAwaySession
<1>2. CASE Prepare(i) BY <1>2 DEF Prepare
<1>3. CASE RecordIssueIntent(i) BY <1>3 DEF RecordIssueIntent
<1>4. CASE CreateIssued(i) BY <1>4 DEF CreateIssued
<1>5. CASE WriteIssued(i) BY <1>5 DEF WriteIssued
<1>6. CASE EnsureReceipt(i) BY <1>6 DEF EnsureReceipt
<1>7. CASE EnsureLine(i) BY <1>7 DEF EnsureLine
<1> QED BY <1>1, <1>2, <1>3, <1>4, <1>5, <1>6, <1>7 DEF IssuerStep

(* A step of a request keeps the types, what requests know of the record,  *)
(* and what the operator was told.                                         *)
LEMMA IssuerInv ==
    ASSUME ApprovalsInv, NEW i \in Issuer, IssuerStep(i) PROVE ApprovalsInv'
<1>0. Steady /\ UNCHANGED <<kind, base, clock, asked>> BY IssuerSteady
<1>b. (Uses /\ SoleSpender /\ EffectIsAuthorized)' BY <1>0, SteadyUses
<1>a. \A j \in Issuer : Built(j) \in Authority BY BuiltTyped DEF ApprovalsInv
<1> USE ApprovalConstants, <1>0, <1>a DEF ApprovalsInv, Steady, ApprovalsTyped, ApprovalsTypeOK,
        Requests, Issuing, GrantsAgree, GrantIsEvidenced, store, evidence, Go, Stay, Conclude
<1>1. CASE TurnAway(i) \/ TurnAwaySession(i)
  <2>1. ApprovalsTyped' BY <1>1 DEF TurnAway, TurnAwaySession
  <2>2. Requests' BY <1>1 DEF TurnAway, TurnAwaySession
  <2>3. (GrantsAgree /\ GrantIsEvidenced)' BY <1>1 DEF TurnAway, TurnAwaySession
  <2> QED BY <1>b, <2>1, <2>2, <2>3
<1>2. CASE Prepare(i)
  <2>1. ApprovalsTyped' BY <1>2 DEF Prepare, FirstStep
  <2>2. Requests' BY <1>2 DEF Prepare, FirstStep, Unlocked, AsWritten
  <2>3. (GrantsAgree /\ GrantIsEvidenced)' BY <1>2 DEF Prepare
  <2> QED BY <1>b, <2>1, <2>2, <2>3
<1>3. CASE RecordIssueIntent(i)
  <2>1. ApprovalsTyped' BY <1>3 DEF RecordIssueIntent
  <2>2. Requests' BY <1>3 DEF RecordIssueIntent
  <2>3. (GrantsAgree /\ GrantIsEvidenced)' BY <1>3 DEF RecordIssueIntent
  <2> QED BY <1>b, <2>1, <2>2, <2>3
<1>4. CASE CreateIssued(i)
  <2>1. ApprovalsTyped' BY <1>4 DEF CreateIssued
  <2>2. Requests' BY <1>4 DEF CreateIssued
  <2>3. (GrantsAgree /\ GrantIsEvidenced)' BY <1>4 DEF CreateIssued
  <2> QED BY <1>b, <2>1, <2>2, <2>3
<1>5. CASE WriteIssued(i)
  <2>1. ApprovalsTyped' BY <1>5 DEF WriteIssued
  <2>2. Requests' BY <1>5 DEF WriteIssued
  <2>3. (GrantsAgree /\ GrantIsEvidenced)' BY <1>5 DEF WriteIssued
  <2> QED BY <1>b, <2>1, <2>2, <2>3
<1>6. CASE EnsureReceipt(i)
  <2>1. ApprovalsTyped' BY <1>6 DEF EnsureReceipt
  <2>2. Requests' BY <1>6 DEF EnsureReceipt
  <2>3. (GrantsAgree /\ GrantIsEvidenced)' BY <1>6 DEF EnsureReceipt
  <2> QED BY <1>b, <2>1, <2>2, <2>3
<1>7. CASE EnsureLine(i)
  <2>1. ApprovalsTyped' BY <1>7 DEF EnsureLine
  <2>2. Requests' BY <1>7 DEF EnsureLine
  <2>3. (GrantsAgree /\ GrantIsEvidenced)' BY <1>7 DEF EnsureLine
  <2> QED BY <1>b, <2>1, <2>2, <2>3
<1> QED BY <1>1, <1>2, <1>3, <1>4, <1>5, <1>6, <1>7 DEF IssuerStep

(* An operation under the class it is admitted with is an operation.       *)
LEMMA Reclassed ==
    ASSUME NEW o \in Operation, NEW c \in {"reversible", "destructive"}
    PROVE  [o EXCEPT !.class = c] \in Operation
BY DEF Operation

(* A step of an execution leaves issuance alone and keeps what executions  *)
(* carry, who spends, and the authority of every effect.                   *)
LEMMA UserInv ==
    ASSUME ApprovalsInv, NEW u \in User, UserStep(u) PROVE ApprovalsInv'
<1>0. UNCHANGED <<kind, base, issued, intent, receipt, line, at, asked, prepared, granted, clock>>
  BY DEF UserStep, Present, Admit, CreateSpent, WriteSpent, TakeEffect, Abort, store, evidence,
         requests, world
<1>a. (Requests /\ GrantsAgree /\ GrantIsEvidenced)'
  BY <1>0 DEF ApprovalsInv, Requests, Issuing, GrantsAgree, GrantIsEvidenced
<1>b. BuiltClass \in {"reversible", "destructive"} BY BuiltTyped DEF ApprovalsInv
<1>c. clock \in Nat BY DEF ApprovalsInv, ApprovalsTyped, ApprovalsTypeOK
<1> USE ApprovalConstants, <1>0, <1>a DEF ApprovalsInv, ApprovalsTyped, ApprovalsTypeOK,
        store, Do, Over, Keep
<1>1. CASE Present(u)
  <2>0. UNCHANGED <<used, effects>> BY <1>1 DEF Present
  <2>1. CASE Over(u, "refused")
    <3>1. ApprovalsTyped' BY <2>0, <2>1
    <3>2. Uses' BY <2>0, <2>1 DEF Uses, Spending, Exact
    <3>3. SoleSpender' BY <2>0, <2>1 DEF SoleSpender, Spending
    <3>4. EffectIsAuthorized' BY <2>0 DEF EffectIsAuthorized, Exact
    <3> QED BY <3>1, <3>2, <3>3, <3>4
  <2>2. CASE ~Over(u, "refused")
    <3>1. PICK p \in Params, d \in (clock + 1)..(MaxClock + ValidFor), refers \in BOOLEAN :
             LET o == [params |-> p, class |-> BuiltClass, deadline |-> d] IN
             /\ refers => Loads(o)
             /\ Do(u, "loaded") /\ op' = [op EXCEPT ![u] = o]
             /\ shown' = [shown EXCEPT ![u] = IF refers THEN issued ELSE NoneGiven]
      BY <1>1, <2>2 DEF Present
    <3> DEFINE o == [params |-> p, class |-> BuiltClass, deadline |-> d]
               g == IF refers THEN issued ELSE NoneGiven
    <3>2. o \in Operation BY <1>b, <1>c DEF Operation
    <3>3. g \in Authority \cup {NoneGiven} BY <3>1 DEF Loads, Readable
    <3>4. step' = [step EXCEPT ![u] = "loaded"] /\ op' = [op EXCEPT ![u] = o]
          /\ shown' = [shown EXCEPT ![u] = g]
      BY <3>1
    <3> HIDE DEF o, g
    <3>5. ApprovalsTyped' BY <2>0, <3>2, <3>3, <3>4
    <3>6. Uses' BY <2>0, <3>2, <3>4 DEF Uses, Spending, Exact
    <3>7. SoleSpender' BY <2>0, <3>4 DEF SoleSpender, Spending
    <3>8. EffectIsAuthorized' BY <2>0 DEF EffectIsAuthorized, Exact
    <3> QED BY <3>5, <3>6, <3>7, <3>8
  <2> QED BY <2>1, <2>2
<1>2. CASE Admit(u)
  <2>0. UNCHANGED <<used, effects>> /\ step[u] = "loaded" BY <1>2 DEF Admit, store
  <2>1. CASE Over(u, "refused")
    <3>1. ApprovalsTyped' BY <2>0, <2>1
    <3>2. Uses' BY <2>0, <2>1 DEF Uses, Spending, Exact
    <3>3. SoleSpender' BY <2>0, <2>1 DEF SoleSpender, Spending
    <3>4. EffectIsAuthorized' BY <2>0 DEF EffectIsAuthorized, Exact
    <3> QED BY <3>1, <3>2, <3>3, <3>4
  <2>2. CASE ~Over(u, "refused")
    <3> DEFINE o == [op[u] EXCEPT !.class = BuiltClass]
               e == Evaluation(o, shown[u])
    <3>1. /\ Evaluate(e) = "none"
          /\ step' = [step EXCEPT ![u] = IF EffectiveClass(e) = "destructive" THEN "create"
                                         ELSE "admitted"]
          /\ op' = [op EXCEPT ![u] = o]
          /\ shown' = [shown EXCEPT ![u] = IF EffectiveClass(e) = "destructive" THEN shown[u]
                                           ELSE NoneGiven]
      BY <1>2, <2>2 DEF Admit
    <3>2. o \in Operation BY <2>0, <1>b, Reclassed DEF Uses
    <3>3. IF EffectiveClass(e) = "destructive" THEN shown[u] \in Authority /\ Exact(shown[u], o)
          ELSE o.class = "reversible"
      BY <3>1, <3>2, AdmittedIsExact
    <3> HIDE DEF o, e
    <3>5. ApprovalsTyped' BY <2>0, <3>1, <3>2, <3>3
    <3>6. Uses' BY <2>0, <3>1, <3>2, <3>3 DEF Uses, Spending, Exact
    <3>7. SoleSpender' BY <2>0, <3>1 DEF SoleSpender, Spending
    <3>8. EffectIsAuthorized' BY <2>0 DEF EffectIsAuthorized, Exact
    <3> QED BY <3>5, <3>6, <3>7, <3>8
  <2> QED BY <2>1, <2>2
<1>3. CASE CreateSpent(u)
  <2>1. ApprovalsTyped' BY <1>3 DEF CreateSpent
  <2>2. Uses' BY <1>3 DEF CreateSpent, Free, Uses, Spending, Exact
  <2>3. SoleSpender' BY <1>3 DEF CreateSpent, Free, Uses, SoleSpender, Spending, EffectIsAuthorized
  <2>4. EffectIsAuthorized' BY <1>3 DEF CreateSpent, EffectIsAuthorized, Exact
  <2> QED BY <2>1, <2>2, <2>3, <2>4
<1>4. CASE WriteSpent(u)
  <2>1. ApprovalsTyped' BY <1>4 DEF WriteSpent, Uses, Spending
  <2>2. Uses' BY <1>4 DEF WriteSpent, Uses, SoleSpender, Spending, Exact
  <2>3. SoleSpender' BY <1>4 DEF WriteSpent, SoleSpender, Spending
  <2>4. EffectIsAuthorized' BY <1>4 DEF WriteSpent, SoleSpender, Spending, EffectIsAuthorized, Exact
  <2> QED BY <2>1, <2>2, <2>3, <2>4
<1>5. CASE TakeEffect(u)
  <2> DEFINE f == [user |-> u, op |-> op[u], authority |-> shown[u]]
  <2>1. /\ step[u] = "admitted" /\ effects' = effects \cup {f} /\ UNCHANGED used
        /\ f.authority = shown[u] /\ f.op = op[u]
    BY <1>5 DEF TakeEffect
  <2>2. f \in Effect BY <2>1 DEF Uses, Effect
  <2> HIDE DEF f
  <2>3. ApprovalsTyped' BY <1>5, <2>1, <2>2 DEF TakeEffect
  <2>4. Uses' BY <1>5, <2>1 DEF TakeEffect, Uses, Spending, Exact
  <2>5. SoleSpender' BY <1>5, <2>1 DEF TakeEffect, SoleSpender, Spending
  <2>6. EffectIsAuthorized'
    <3>1. CASE shown[u] = NoneGiven
      <4>1. f.op.class = "reversible" BY <2>1, <3>1 DEF Uses, Spending
      <4> QED BY <2>1, <3>1, <4>1 DEF EffectIsAuthorized, Exact
    <3>2. CASE shown[u] # NoneGiven
      <4>1. Exact(f.authority, f.op) /\ issued = f.authority /\ used = f.authority
        BY <2>1, <3>2 DEF Uses, Spending
      <4>2. issued # Absent /\ used # Absent /\ intent
        BY <2>1, <3>2, <4>1 DEF Uses, Spending, Requests
      <4>3. \A g \in effects : g.authority = NoneGiven BY <2>1, <3>2 DEF SoleSpender, Spending
      <4> QED BY <2>1, <3>2, <4>1, <4>2, <4>3 DEF EffectIsAuthorized, Exact
    <3> QED BY <3>1, <3>2
  <2> QED BY <2>3, <2>4, <2>5, <2>6
<1>6. CASE Abort(u)
  <2>1. ApprovalsTyped' BY <1>6 DEF Abort
  <2>2. Uses' BY <1>6 DEF Abort, Uses, SoleSpender, Spending, Exact
  <2>3. SoleSpender' BY <1>6 DEF Abort, SoleSpender, Spending
  <2>4. EffectIsAuthorized' BY <1>6 DEF Abort, SoleSpender, Spending, EffectIsAuthorized, Exact
  <2> QED BY <2>1, <2>2, <2>3, <2>4
<1> QED BY <1>1, <1>2, <1>3, <1>4, <1>5, <1>6 DEF UserStep

(* The daemon's death, time and the machine's checkpoints.                 *)
LEMMA WorldInv ==
    ASSUME ApprovalsInv, Crash \/ Tick \/ Drift \/ UNCHANGED avars PROVE ApprovalsInv'
<1> USE ApprovalConstants DEF ApprovalsInv, store, evidence, requests, users, world, avars
<1>0. UNCHANGED <<kind, base, issued, used, intent, receipt, line, asked, granted, effects>>
  BY DEF Crash, Tick, Drift
<1>1. (GrantsAgree /\ GrantIsEvidenced /\ EffectIsAuthorized)'
  BY <1>0 DEF GrantsAgree, GrantIsEvidenced, EffectIsAuthorized, Exact
<1>2. CASE Crash
  <2>1. ApprovalsTyped' BY <1>0, <1>2 DEF Crash, ApprovalsTyped, ApprovalsTypeOK
  <2>2. Requests' BY <1>0, <1>2 DEF Crash, Requests, Issuing, ApprovalsTyped, ApprovalsTypeOK
  <2>3. (Uses /\ SoleSpender)'
    BY <1>0, <1>2 DEF Crash, Uses, SoleSpender, Spending, ApprovalsTyped, ApprovalsTypeOK
  <2> QED BY <1>1, <2>1, <2>2, <2>3
<1>3. CASE Tick \/ Drift \/ UNCHANGED avars
  <2>1. UNCHANGED <<at, prepared, step, op, shown>> /\ clock' \in 1..MaxClock
    BY <1>3 DEF Tick, Drift, ApprovalsTyped, ApprovalsTypeOK
  <2>2. ApprovalsTyped' BY <1>0, <2>1 DEF ApprovalsTyped, ApprovalsTypeOK
  <2>3. Requests' BY <1>0, <2>1 DEF Requests, Issuing
  <2>4. (Uses /\ SoleSpender)' BY <1>0, <2>1 DEF Uses, SoleSpender, Spending, Exact
  <2> QED BY <1>1, <2>2, <2>3, <2>4
<1> QED BY <1>2, <1>3

(* No record, no request and no execution: the invariant holds.            *)
LEMMA InitApprovals == ApprovalsInit => ApprovalsInv
<1> SUFFICES ASSUME ApprovalsInit PROVE ApprovalsInv
  OBVIOUS
<1> USE ApprovalConstants DEF ApprovalsInit
<1>1. ApprovalsTyped
  <2>1. ApprovalsTypeOK BY DEF ApprovalsTypeOK
  <2>2. intent \in BOOLEAN /\ line \in BOOLEAN BY Zenon
  <2> QED BY <2>1, <2>2 DEF ApprovalsTyped
<1>2. Requests /\ Uses /\ SoleSpender BY DEF Requests, Issuing, Uses, SoleSpender, Spending
<1>3. GrantsAgree /\ GrantIsEvidenced /\ EffectIsAuthorized
  BY DEF GrantsAgree, GrantIsEvidenced, EffectIsAuthorized
<1> QED BY <1>1, <1>2, <1>3 DEF ApprovalsInv

(* internal/approval, internal/app: for any requests, executions, faults   *)
(* and crashes, a grant answered is the one on disk and is evidenced, and  *)
(* an effect that cannot be rolled back had an approval of its own, exact, *)
(* announced and consumed once.                                            *)
THEOREM ApprovalsCorrect == ApprovalsSpec => []ApprovalsHold
<1>1. ApprovalsInv /\ [ApprovalsNext]_avars => ApprovalsInv'
  <2> SUFFICES ASSUME ApprovalsInv, [ApprovalsNext]_avars PROVE ApprovalsInv'
    OBVIOUS
  <2>1. ASSUME NEW i \in Issuer, IssuerStep(i) PROVE ApprovalsInv' BY <2>1, IssuerInv
  <2>2. ASSUME NEW u \in User, UserStep(u) PROVE ApprovalsInv' BY <2>2, UserInv
  <2>3. CASE Crash \/ Tick \/ Drift \/ UNCHANGED avars BY <2>3, WorldInv
  <2> QED BY <2>1, <2>2, <2>3 DEF ApprovalsNext, IssuerStep, UserStep
<1>2. ApprovalsInv => ApprovalsHold BY DEF ApprovalsInv, ApprovalsTyped, ApprovalsHold
<1> QED BY <1>1, <1>2, InitApprovals, PTL DEF ApprovalsSpec

(* Every probe of the policy is one of the inputs PolicyExact speaks of:   *)
(* what TLC checks of the probes holds of every input.                     *)
THEOREM PolicyProbesAreSound == MCSpec => []PolicyIsSound
<1> DEFINE Probing == probe \in Inputs \cup {Absent}
<1>1. MCInit => Probing BY DEF MCInit, ProbeInit
<1>2. Probing /\ [MCNext]_<<avars, probe>> => Probing' BY DEF MCNext
<1>3. Probing => PolicyIsSound
  <2>1. ASSUME NEW e \in Inputs PROVE e \in PolicyInput
    BY DEF Inputs, Probes, Presented, PolicyInput, AnApproval, Classes
  <2> QED BY <2>1, PolicyExact DEF PolicyIsSound
<1> QED BY <1>1, <1>2, <1>3, PTL DEF MCSpec
=============================================================================
