--------------------------- MODULE MutationProofs ---------------------------
(***************************************************************************)
(* Proofs about Mutation for any runs, keys, targets, approvals and        *)
(* processes, with and without faults, and about Evidence, the audit log   *)
(* and receipts behind it, for any commands, deaths and faults.            *)
(***************************************************************************)
EXTENDS Mutation, Evidence, TLAPS

Live(r) == alive[ProcOf[r]]

(* A living run has the lease from its acquisition until it gives it back. *)
Holds == \A r \in Run :
    (Live(r) /\ \/ pc[r] \in {"intent", "consume", "hooks", "execute",
                              "provider", "compensate", "free"}
                \/ pc[r] \in {"receipt", "audit"} /\ r \in dispatched)
    => lease[TargetOf[r]] = r

(* Where a run is tells what it has done.                                  *)
Progress == \A r \in Run :
    /\ r \in dispatched => pc[r] \in {"provider", "receipt", "audit", "free", "done"}
    /\ pc[r] = "provider" => r \in dispatched
    /\ pc[r] \in {"consume", "hooks", "execute"} \/ r \in dispatched => r \in intents
    /\ (pc[r] \in {"hooks", "execute"} \/ r \in dispatched) /\ r \in needs => r \in spent
    /\ r \in spent => pc[r] \notin {"idle", "lookup", "authorize", "lease", "intent", "consume"}
    /\ r \in needs => ApprovalOf[r] \in Approval
    /\ r \in spent => r \in needs

(* The runs that own the consumption of their approval: they may still     *)
(* dispatch, or have.  The record on disk is theirs.                       *)
Owner(r) == r \in spent /\ (pc[r] \in {"hooks", "execute", "compensate"} \/ r \in dispatched)
Owned == \A r \in Run : Owner(r) => consumer[ApprovalOf[r]] = r

Inv == TypeOK /\ Holds /\ Progress /\ Owned

(* Empty stores and runs not begun: the invariant holds.                   *)
LEMMA InitInv == Init => Inv
<1> SUFFICES ASSUME Init PROVE Inv
  OBVIOUS
<1> USE MutationAssumption DEF Init
<1>1. TypeOK BY DEF TypeOK, PCs, Outcomes
<1>2. Holds /\ Progress /\ Owned BY DEF Holds, Progress, Owned, Owner
<1> QED BY <1>1, <1>2 DEF Inv

(* Every step keeps the types.                                             *)
LEMMA NextType == TypeOK /\ Progress /\ [Next]_vars => TypeOK'
<1> SUFFICES ASSUME TypeOK, Progress, [Next]_vars PROVE TypeOK'
  OBVIOUS
<1> USE MutationAssumption DEF TypeOK, PCs, Outcomes, stores, locals, Goto, Decide, End,
        PreProviderFailure, FreeThenFail, At, AfterPersist
<1>1. ASSUME NEW r \in Run, Begin(r) \/ Cancel(r) PROVE TypeOK'
  BY <1>1 DEF Begin, Cancel
<1>2. ASSUME NEW r \in Run, Step(r) PROVE TypeOK'
  <2>1. CASE CheckPreconditions(r) BY <2>1 DEF CheckPreconditions
  <2>2. CASE Authorize(r)
    <3>1. needs' \subseteq Run BY <2>2 DEF Authorize
    <3> QED BY <2>2, <3>1 DEF Authorize
  <2>3. CASE AcquireLease(r) BY <2>3 DEF AcquireLease, Keeps
  <2>4. CASE RecordIntent(r) BY <2>4 DEF RecordIntent
  <2>5. CASE Consume(r) BY <2>5 DEF Consume, ConsumedBy, consumed, Keeps, Progress
  <2>6. CASE RunHooks(r) BY <2>6 DEF RunHooks
  <2>7. CASE Dispatch(r) BY <2>7 DEF Dispatch
  <2>8. CASE NotDispatched(r) BY <2>8 DEF NotDispatched
  <2>9. CASE ProviderReturns(r) BY <2>9 DEF ProviderReturns
  <2>10. CASE PersistReceipt(r) BY <2>10 DEF PersistReceipt, Ensured
  <2>11. CASE PersistAudit(r) BY <2>11 DEF PersistAudit
  <2>12. CASE Compensate(r) BY <2>12 DEF Compensate, ReleaseUnexecuted, MayEnd, Keeps
  <2>13. CASE FreeLease(r) BY <2>13 DEF FreeLease, MayEnd, Keeps
  <2> QED BY <1>2, <2>1, <2>2, <2>3, <2>4, <2>5, <2>6, <2>7, <2>8, <2>9,
             <2>10, <2>11, <2>12, <2>13 DEF Step
<1>3. ASSUME NEW p \in Proc, Exit(p) PROVE TypeOK'
  BY <1>3 DEF Exit
<1>4. CASE UNCHANGED vars
  BY <1>4 DEF vars
<1> QED BY <1>1, <1>2, <1>3, <1>4 DEF Next

(* Every step of executeMutation, its compensation and a death preserves   *)
(* the invariant.                                                          *)
LEMMA NextInv == Inv /\ [Next]_vars => Inv'
<1> SUFFICES ASSUME Inv, [Next]_vars PROVE Inv'
  OBVIOUS
<1>0. TypeOK /\ TypeOK'
  BY NextType DEF Inv
<1> DEFINE Rest == Holds /\ Progress /\ Owned
<1> USE MutationAssumption, <1>0 DEF Inv, TypeOK, stores, locals, Goto, Decide, End,
        PreProviderFailure, FreeThenFail, At, AfterPersist, Live,
        Holds, Progress, Owned, Owner
<1>1. ASSUME NEW r \in Run, Begin(r) \/ Cancel(r) PROVE Rest'
  BY <1>1 DEF Begin, Cancel
<1>2. ASSUME NEW r \in Run, Step(r) PROVE Rest'
  <2>1. CASE CheckPreconditions(r) BY <2>1 DEF CheckPreconditions
  <2>2. CASE Authorize(r)
    <3>1. needs' = needs \/ (needs' = needs \cup {r} /\ ApprovalOf[r] # None)
      BY <2>2 DEF Authorize, RequiresApproval, ApprovalUsable
    <3>2. pc[r] = "authorize" /\ \E l \in {"receipt", "done", "lease"} : pc' = [pc EXCEPT ![r] = l]
      BY <2>2 DEF Authorize, RequiresApproval, ApprovalUsable
    <3> QED BY <2>2, <3>1, <3>2 DEF Authorize, RequiresApproval, ApprovalUsable
  <2>3. CASE AcquireLease(r) BY <2>3 DEF AcquireLease, Keeps
  <2>4. CASE RecordIntent(r)
    <3>1. intents \subseteq intents' BY <2>4 DEF RecordIntent
    <3>2. \/ pc' = [pc EXCEPT ![r] = "free"]
          \/ pc' = [pc EXCEPT ![r] = "consume"] /\ r \in intents'
      BY <2>4 DEF RecordIntent
    <3>3. pc[r] = "intent" /\ UNCHANGED <<receipts, consumer, lease, needs, spent, dispatched, alive>>
      BY <2>4 DEF RecordIntent
    <3>4. Holds' BY <3>2, <3>3
    <3>5. Progress' BY <3>1, <3>2, <3>3
    <3>6. Owned' BY <3>2, <3>3
    <3> QED BY <3>4, <3>5, <3>6
  <2>5. CASE Consume(r) BY <2>5 DEF Consume, ConsumedBy, consumed, Keeps
  <2>6. CASE RunHooks(r) BY <2>6 DEF RunHooks
  <2>7. CASE Dispatch(r) BY <2>7 DEF Dispatch
  <2>8. CASE NotDispatched(r) BY <2>8 DEF NotDispatched
  <2>9. CASE ProviderReturns(r) BY <2>9 DEF ProviderReturns
  <2>10. CASE PersistReceipt(r) BY <2>10 DEF PersistReceipt, Ensured
  <2>11. CASE PersistAudit(r) BY <2>11 DEF PersistAudit
  <2>12. CASE Compensate(r) BY <2>12 DEF Compensate, ReleaseUnexecuted, MayEnd, Keeps
  <2>13. CASE FreeLease(r) BY <2>13 DEF FreeLease, MayEnd, Keeps
  <2> QED BY <1>2, <2>1, <2>2, <2>3, <2>4, <2>5, <2>6, <2>7, <2>8, <2>9,
             <2>10, <2>11, <2>12, <2>13 DEF Step
<1>3. ASSUME NEW p \in Proc, Exit(p) PROVE Rest'
  BY <1>3 DEF Exit
<1>4. ASSUME UNCHANGED vars PROVE Rest'
  BY <1>4 DEF vars
<1>5. Rest'
  BY <1>1, <1>2, <1>3, <1>4 DEF Next
<1> QED BY <1>0, <1>5

(* recovery_mutation.go:99-184: what every reachable state satisfies; the  *)
(* theorems below are its consequences.                                    *)
THEOREM MutationInvariant == Spec => []Inv
  BY InitInv, NextInv, PTL DEF Spec

(* recovery_mutation.go:99-184: the stores and the runs stay well formed.  *)
THEOREM MutationTypeCorrect == Spec => []TypeOK
<1>1. Inv => TypeOK BY DEF Inv
<1> QED BY <1>1, MutationInvariant, PTL

(* recovery_mutation.go:144-181: the lease covers the provider call, so no *)
(* machine is driven by two living runs at once.                           *)
THEOREM MutationExclusiveDispatch == Spec => []ExclusiveDispatch
<1>1. Inv => ExclusiveDispatch
  BY DEF Inv, Holds, Live, ExclusiveDispatch
<1> QED BY <1>1, MutationInvariant, PTL

(* recovery_mutation.go:236-255 before 166: a dispatch has its intent and  *)
(* its consumed approval on disk, for ever.                                *)
THEOREM MutationDispatchIsBacked == Spec => []DispatchIsBacked
<1>1. Inv => DispatchIsBacked
  BY DEF Inv, TypeOK, Progress, Owned, Owner, DispatchIsBacked
<1> QED BY <1>1, MutationInvariant, PTL

(* approval/store.go:190-243, 247-276: one approval, one dispatch, with    *)
(* any number of concurrent runs, compensations and crashes.               *)
THEOREM MutationApprovalSpentOnce == Spec => []ApprovalSpentOnce
<1>1. Inv => ApprovalSpentOnce
  BY DEF Inv, TypeOK, Progress, Owned, Owner, ApprovalSpentOnce
<1> QED BY <1>1, MutationInvariant, PTL

----------------------------------------------------------------------------
(* What a run leaves behind when it returns.                               *)

(* A caller that keeps the runs of a key apart has one of them under way;  *)
(* and a run that may still write a receipt has found none and is the only *)
(* one to write, but for those whose lookup failed, which only ever write  *)
(* that they were aborted.                                                 *)
OneBusy == apart => \A r, q \in Run : Busy(r) /\ Busy(q) /\ KeyOf[r] = KeyOf[q] => r = q
Writing(r) == /\ Busy(r) /\ r \notin blind
              /\ pc[r] \notin {"lookup", "audit"}
              /\ pc[r] = "free" => r \notin dispatched
FirstWriter == apart => \A r \in Run : Writing(r) =>
    \A x \in receipts : x.by \notin blind => KeyOf[x.by] # KeyOf[r]
Unlooked == /\ \A r \in blind : /\ pc[r] \in {"receipt", "audit", "done"}
                                /\ pc[r] = "receipt" => outcome[r] = "aborted"
                                /\ r \notin dispatched
            /\ \A x \in receipts : /\ x.by \in blind => x.status = "aborted"
                                   /\ pc[x.by] \notin {"idle", "lookup"}

(* The lease names only runs that have still to give it back or could not, *)
(* and a consumed approval only those that may still dispatch or           *)
(* compensate.                                                             *)
HeldOnlyWithin == \A r \in Run : lease[TargetOf[r]] = r =>
    \/ pc[r] \in {"intent", "consume", "hooks", "execute", "provider", "compensate", "free"}
    \/ pc[r] \in {"receipt", "audit"} /\ r \in dispatched
    \/ "lease" \in left[r]
GivenBack == \A r \in Run : \A a \in Approval : consumer[a] = r =>
    /\ a = ApprovalOf[r]
    /\ \/ r \in spent /\ pc[r] \in {"hooks", "execute", "compensate"}
       \/ r \in dispatched
       \/ "approval" \in left[r]

Leaves == OneBusy /\ FirstWriter /\ Unlooked /\ OneReceiptPerKey /\ HeldOnlyWithin /\ GivenBack

(* Every step of executeMutation, its compensation and a death keeps what  *)
(* the runs leave behind.                                                  *)
LEMMA NextLeaves == Inv /\ Inv' /\ Leaves /\ [Next]_vars => Leaves'
<1> SUFFICES ASSUME Inv, Inv', Leaves, [Next]_vars PROVE Leaves'
  OBVIOUS
<1>0. TypeOK /\ TypeOK' /\ Progress /\ Progress'
  BY DEF Inv
<1> DEFINE Keys == OneBusy /\ FirstWriter /\ Unlooked /\ OneReceiptPerKey
           Back == HeldOnlyWithin /\ GivenBack
<1> USE MutationAssumption, <1>0 DEF TypeOK, stores, locals, Goto, Decide, End,
        PreProviderFailure, FreeThenFail, At, AfterPersist, Leaves
<1>1. ASSUME NEW r \in Run, Begin(r) \/ Cancel(r) PROVE Keys' /\ Back'
  <2> USE DEF Busy, OneBusy, Writing, FirstWriter, Unlooked, OneReceiptPerKey
  <2>1. Keys'
    <3>1. CASE Begin(r) BY <3>1 DEF Begin
    <3>2. CASE Cancel(r) BY <3>2 DEF Cancel
    <3> QED BY <1>1, <3>1, <3>2
  <2>2. Back' BY <1>1 DEF Begin, Cancel, HeldOnlyWithin, GivenBack, Progress
  <2> QED BY <2>1, <2>2
<1>2. ASSUME NEW r \in Run, Step(r) PROVE Keys'
  <2> USE DEF Busy, OneBusy, Writing, FirstWriter, Unlooked, OneReceiptPerKey, Progress
  <2>1. CASE CheckPreconditions(r) BY <2>1 DEF CheckPreconditions, Cached
  <2>2. CASE Authorize(r)
    <3>1. /\ pc[r] = "authorize" /\ alive[ProcOf[r]]
          /\ \E l \in {"receipt", "lease", "done"} : pc' = [pc EXCEPT ![r] = l]
      BY <2>2 DEF Authorize
    <3>2. UNCHANGED <<receipts, consumer, lease, spent, dispatched, blind, left, alive, apart>>
      BY <2>2 DEF Authorize
    <3>3. \A q \in Run : q # r => outcome'[q] = outcome[q]
      BY <2>2 DEF Authorize
    <3> QED BY <3>1, <3>2, <3>3
  <2>3. CASE AcquireLease(r) BY <2>3 DEF AcquireLease, Keeps
  <2>4. CASE RecordIntent(r)
    <3>1. /\ pc[r] = "intent" /\ alive[ProcOf[r]]
          /\ \E l \in {"free", "consume"} : pc' = [pc EXCEPT ![r] = l]
      BY <2>4 DEF RecordIntent
    <3>2. UNCHANGED <<receipts, consumer, lease, spent, dispatched, blind, left, alive, apart>>
      BY <2>4 DEF RecordIntent
    <3>3. \A q \in Run : q # r => outcome'[q] = outcome[q]
      BY <2>4 DEF RecordIntent
    <3> QED BY <3>1, <3>2, <3>3
  <2>5. CASE Consume(r) BY <2>5 DEF Consume, ConsumedBy, consumed, Keeps
  <2>6. CASE RunHooks(r) BY <2>6 DEF RunHooks
  <2>7. CASE Dispatch(r) BY <2>7 DEF Dispatch
  <2>8. CASE NotDispatched(r) BY <2>8 DEF NotDispatched
  <2>9. CASE ProviderReturns(r) BY <2>9 DEF ProviderReturns
  <2>10. CASE PersistReceipt(r) BY <2>10 DEF PersistReceipt, Ensured
  <2>11. CASE PersistAudit(r) BY <2>11 DEF PersistAudit
  <2>12. CASE Compensate(r) BY <2>12 DEF Compensate, ReleaseUnexecuted, MayEnd, Keeps
  <2>13. CASE FreeLease(r) BY <2>13 DEF FreeLease, MayEnd, Keeps
  <2> QED BY <1>2, <2>1, <2>2, <2>3, <2>4, <2>5, <2>6, <2>7, <2>8, <2>9,
             <2>10, <2>11, <2>12, <2>13 DEF Step
<1>3. ASSUME NEW r \in Run, Step(r) PROVE Back'
  <2> USE DEF HeldOnlyWithin, GivenBack, Progress
  <2>1. CASE CheckPreconditions(r) BY <2>1 DEF CheckPreconditions, Cached
  <2>2. CASE Authorize(r)
    <3>1. /\ pc[r] = "authorize" /\ alive[ProcOf[r]]
          /\ \E l \in {"receipt", "lease", "done"} : pc' = [pc EXCEPT ![r] = l]
      BY <2>2 DEF Authorize
    <3>2. UNCHANGED <<receipts, consumer, lease, spent, dispatched, blind, left, alive, apart>>
      BY <2>2 DEF Authorize
    <3> QED BY <3>1, <3>2
  <2>3. CASE AcquireLease(r) BY <2>3 DEF AcquireLease, Keeps
  <2>4. CASE RecordIntent(r)
    <3>1. /\ pc[r] = "intent" /\ alive[ProcOf[r]]
          /\ \E l \in {"free", "consume"} : pc' = [pc EXCEPT ![r] = l]
      BY <2>4 DEF RecordIntent
    <3>2. UNCHANGED <<receipts, consumer, lease, spent, dispatched, blind, left, alive, apart>>
      BY <2>4 DEF RecordIntent
    <3> QED BY <3>1, <3>2
  <2>5. CASE Consume(r) BY <2>5 DEF Consume, ConsumedBy, consumed, Keeps
  <2>6. CASE RunHooks(r) BY <2>6 DEF RunHooks
  <2>7. CASE Dispatch(r) BY <2>7 DEF Dispatch
  <2>8. CASE NotDispatched(r) BY <2>8 DEF NotDispatched
  <2>9. CASE ProviderReturns(r) BY <2>9 DEF ProviderReturns
  <2>10. CASE PersistReceipt(r) BY <2>10 DEF PersistReceipt, Ensured
  <2>11. CASE PersistAudit(r) BY <2>11 DEF PersistAudit
  <2>12. CASE Compensate(r) BY <2>12 DEF Compensate, ReleaseUnexecuted, MayEnd, Keeps
  <2>13. CASE FreeLease(r) BY <2>13 DEF FreeLease, MayEnd, Keeps
  <2> QED BY <1>3, <2>1, <2>2, <2>3, <2>4, <2>5, <2>6, <2>7, <2>8, <2>9,
             <2>10, <2>11, <2>12, <2>13 DEF Step
<1>4. ASSUME NEW p \in Proc, Exit(p) PROVE Keys' /\ Back'
  BY <1>4 DEF Exit, Busy, OneBusy, Writing, FirstWriter, Unlooked, OneReceiptPerKey, HeldOnlyWithin, GivenBack
<1>5. ASSUME UNCHANGED vars PROVE Keys' /\ Back'
  BY <1>5 DEF vars, Busy, OneBusy, Writing, FirstWriter, Unlooked, OneReceiptPerKey, HeldOnlyWithin, GivenBack
<1> QED BY <1>1, <1>2, <1>3, <1>4, <1>5 DEF Next

(* recovery_mutation.go:99-184: the invariant of what the runs leave.      *)
LEMMA MutationLeaves == Spec => []Leaves
<1>1. Init => Leaves
  BY MutationAssumption DEF Init, Leaves, Busy, OneBusy, Writing, FirstWriter, Unlooked, OneReceiptPerKey,
     HeldOnlyWithin, GivenBack
<1> QED BY <1>1, NextLeaves, MutationInvariant, PTL DEF Spec

(* recovery_mutation.go:120-127, 186-208, recovery_deadline.go:28-55:      *)
(* under a caller that keeps the runs of a key apart, as                   *)
(* operations.Manager does, the runs whose lookup worked leave one receipt *)
(* of a key, and those whose lookup failed or timed out leave at most that *)
(* they were aborted, and have not dispatched.                             *)
THEOREM MutationOneReceipt == Spec => []OneReceiptPerKey
<1>1. Leaves => OneReceiptPerKey BY DEF Leaves
<1> QED BY <1>1, MutationLeaves, PTL

(* recovery_mutation.go:144-173, 210-274: whatever step is cancelled or    *)
(* fails, the return leaves neither a consumption of its own nor its       *)
(* lease, unless the store it is kept in failed the run.                   *)
THEOREM MutationRestores == Spec => []EarlyReturnRestores
<1>1. Inv /\ Leaves => EarlyReturnRestores
  BY DEF Inv, TypeOK, Leaves, HeldOnlyWithin, GivenBack, EarlyReturnRestores
<1> QED BY <1>1, MutationInvariant, MutationLeaves, PTL

----------------------------------------------------------------------------
(* The audit log and the receipts.                                         *)

(* The points of withLockContext at which the lock directory is had.       *)
Owning == {"made", "held", "read", "written", "leaving"}

(* A process is at the lock for the log; the dead are not, and whoever is  *)
(* to be reclaimed is dead.                                                *)
AtLock == \A p \in Command :
    /\ lock[p] \in {"made", "stale", "cleared", "held", "read"} => Needs(p)
    /\ lock[p] \in {"written", "leaving"} => Needs(p) \/ phase[p] = "failed"
    /\ lock[p] = "read" => phase[p] = "audit"
    /\ lock[p] = "stale" => stale[p] \in Command /\ phase[stale[p]] = "dead"

(* Until a reclaim removes a lock it had not read, one process has it, and *)
(* the directory says so.                                                  *)
Mutex == ~displaced =>
    /\ \A p, q \in Command : lock[p] \in Owning /\ lock[q] \in Owning => p = q
    /\ \A p \in Command : lock[p] \in {"held", "read", "written"} => holder = p
    /\ \A p \in Command : lock[p] \in {"made", "leaving"} => holder = Bare

(* What is ensured is saved, and no line is written for anything else.     *)
Saved == /\ \A p \in Command : todo[p] \subseteq saved
         /\ \A r \in Command : terminal[r] > 0 => r \in saved
         /\ \A p \in Command : phase[p] \in {"audit", "verify", "done"} => todo[p] # {}

(* What the snapshot of the log's reader says is so until it has written:  *)
(* nobody else writes.                                                     *)
Snapshot == ~displaced =>
    /\ \A r \in Command : terminal[r] <= 1
    /\ \A p \in Command : lock[p] = "read" =>
           /\ garbled = "no"
           /\ \A r \in todo[p] : terminal[r] = IF r \in found[p] THEN 1 ELSE 0
    /\ \A p \in Command :
           (phase[p] = "audit" /\ lock[p] \in {"written", "leaving"}) \/ phase[p] = "done"
           => \A r \in todo[p] : terminal[r] = 1

EvidenceInv == EvidenceTypeOK /\ AtLock /\ Mutex /\ Saved /\ Snapshot

(* An empty log and no receipts: the invariant holds.                      *)
LEMMA InitEvidence == EvidenceInit => EvidenceInv
<1> SUFFICES ASSUME EvidenceInit PROVE EvidenceInv
  OBVIOUS
<1> USE EvidenceAssumption DEF EvidenceInit
<1>1. EvidenceTypeOK BY DEF EvidenceTypeOK, Phases, LockPoints
<1>2. AtLock /\ Mutex BY DEF AtLock, Mutex, Owning, Needs
<1>3. Saved /\ Snapshot BY DEF Saved, Snapshot
<1> QED BY <1>1, <1>2, <1>3 DEF EvidenceInv

(* withLockContext, the appends and the receipt store: every step keeps    *)
(* the invariant.                                                          *)
LEMMA NextEvidence == EvidenceInv /\ [EvidenceNext]_evars => EvidenceInv'
<1> SUFFICES ASSUME EvidenceInv, [EvidenceNext]_evars PROVE EvidenceInv'
  OBVIOUS
<1> USE EvidenceAssumption DEF EvidenceInv, Move, ToPhase, Works, Fails, Needs, book
<1>1. ASSUME NEW p \in Command, Mkdir(p) PROVE EvidenceInv'
  <2>1. EvidenceTypeOK' BY <1>1 DEF Mkdir, EvidenceTypeOK, Phases, LockPoints
  <2>2. AtLock' BY <1>1 DEF Mkdir, AtLock, EvidenceTypeOK
  <2>3. Mutex' BY <1>1 DEF Mkdir, Mutex, Owning, AtLock, EvidenceTypeOK
  <2>4. Saved' BY <1>1 DEF Mkdir, Saved, EvidenceTypeOK, AtLock
  <2>5. Snapshot' BY <1>1 DEF Mkdir, Snapshot, Mutex, Owning, AtLock, Saved, EvidenceTypeOK
  <2> QED BY <2>1, <2>2, <2>3, <2>4, <2>5
<1>2. ASSUME NEW p \in Command, RecordOwner(p) PROVE EvidenceInv'
  <2>1. EvidenceTypeOK' BY <1>2 DEF RecordOwner, Disown, EvidenceTypeOK, Phases, LockPoints
  <2>2. AtLock' BY <1>2 DEF RecordOwner, Disown, AtLock, EvidenceTypeOK
  <2>3. Mutex' BY <1>2 DEF RecordOwner, Disown, Mutex, Owning, AtLock, EvidenceTypeOK
  <2>4. Saved' BY <1>2 DEF RecordOwner, Disown, Saved, EvidenceTypeOK, AtLock
  <2>5. Snapshot' BY <1>2 DEF RecordOwner, Disown, Snapshot, Mutex, Owning, AtLock, Saved,
                      EvidenceTypeOK
  <2> QED BY <2>1, <2>2, <2>3, <2>4, <2>5
<1>3. ASSUME NEW p \in Command, ReadDeadOwner(p) PROVE EvidenceInv'
  <2>1. EvidenceTypeOK' BY <1>3 DEF ReadDeadOwner, Reclaimable, EvidenceTypeOK, Phases, LockPoints
  <2>2. AtLock' BY <1>3 DEF ReadDeadOwner, Reclaimable, AtLock, EvidenceTypeOK
  <2>3. Mutex' BY <1>3 DEF ReadDeadOwner, Reclaimable, Mutex, Owning, AtLock, EvidenceTypeOK
  <2>4. Saved' BY <1>3 DEF ReadDeadOwner, Reclaimable, Saved, EvidenceTypeOK, AtLock
  <2>5. Snapshot' BY <1>3 DEF ReadDeadOwner, Reclaimable, Snapshot, Mutex, Owning, AtLock,
                      Saved, EvidenceTypeOK
  <2> QED BY <2>1, <2>2, <2>3, <2>4, <2>5
<1>4. ASSUME NEW p \in Command, RemoveDeadOwner(p) PROVE EvidenceInv'
  <2>1. EvidenceTypeOK' BY <1>4 DEF RemoveDeadOwner, EvidenceTypeOK, Phases, LockPoints
  <2>2. AtLock' BY <1>4 DEF RemoveDeadOwner, AtLock, EvidenceTypeOK
  <2>3. Mutex' BY <1>4 DEF RemoveDeadOwner, Mutex, Owning, AtLock, EvidenceTypeOK
  <2>4. Saved' BY <1>4 DEF RemoveDeadOwner, Saved, EvidenceTypeOK, AtLock
  <2>5. Snapshot' BY <1>4 DEF RemoveDeadOwner, Snapshot, Mutex, Owning, AtLock, Saved,
                      EvidenceTypeOK
  <2> QED BY <2>1, <2>2, <2>3, <2>4, <2>5
<1>5. ASSUME NEW p \in Command, RemoveDir(p) PROVE EvidenceInv'
  <2>1. EvidenceTypeOK' BY <1>5 DEF RemoveDir, EvidenceTypeOK, Phases, LockPoints
  <2>2. AtLock' BY <1>5 DEF RemoveDir, AtLock, EvidenceTypeOK
  <2>3. Mutex' BY <1>5 DEF RemoveDir, Mutex, Owning, AtLock, EvidenceTypeOK
  <2>4. Saved' BY <1>5 DEF RemoveDir, Saved, EvidenceTypeOK, AtLock
  <2>5. Snapshot' BY <1>5 DEF RemoveDir, Snapshot, Mutex, Owning, AtLock, Saved, EvidenceTypeOK
  <2> QED BY <2>1, <2>2, <2>3, <2>4, <2>5
<1>6. ASSUME NEW p \in Command, LockTimeout(p) PROVE EvidenceInv'
  <2>1. EvidenceTypeOK' BY <1>6 DEF LockTimeout, EvidenceTypeOK, Phases, LockPoints
  <2>2. AtLock' BY <1>6 DEF LockTimeout, AtLock, EvidenceTypeOK
  <2>3. Mutex' BY <1>6 DEF LockTimeout, Mutex, Owning, AtLock, EvidenceTypeOK
  <2>4. Saved' BY <1>6 DEF LockTimeout, Saved, EvidenceTypeOK, AtLock
  <2>5. Snapshot' BY <1>6 DEF LockTimeout, Snapshot, Mutex, Owning, AtLock, Saved, EvidenceTypeOK
  <2> QED BY <2>1, <2>2, <2>3, <2>4, <2>5
<1>7. ASSUME NEW p \in Command, Release(p) PROVE EvidenceInv'
  <2>1. EvidenceTypeOK' BY <1>7 DEF Release, EvidenceTypeOK, Phases, LockPoints
  <2>2. AtLock' BY <1>7 DEF Release, AtLock, EvidenceTypeOK
  <2>3. Mutex' BY <1>7 DEF Release, Mutex, Owning, AtLock, EvidenceTypeOK
  <2>4. Saved' BY <1>7 DEF Release, Saved, EvidenceTypeOK, AtLock
  <2>5. Snapshot' BY <1>7 DEF Release, Snapshot, Mutex, Owning, AtLock, Saved, EvidenceTypeOK
  <2> QED BY <2>1, <2>2, <2>3, <2>4, <2>5
<1>8. ASSUME NEW p \in Command, ReleaseDir(p) PROVE EvidenceInv'
  <2>1. EvidenceTypeOK' BY <1>8 DEF ReleaseDir, After, EvidenceTypeOK, Phases, LockPoints
  <2>2. AtLock' BY <1>8 DEF ReleaseDir, After, AtLock, EvidenceTypeOK
  <2>3. Mutex' BY <1>8 DEF ReleaseDir, After, Mutex, Owning, AtLock, EvidenceTypeOK
  <2>4. Saved' BY <1>8 DEF ReleaseDir, After, Saved, EvidenceTypeOK, AtLock
  <2>5. Snapshot' BY <1>8 DEF ReleaseDir, After, Snapshot, Mutex, Owning, AtLock, Saved,
                      EvidenceTypeOK
  <2> QED BY <2>1, <2>2, <2>3, <2>4, <2>5
<1>9. ASSUME NEW p \in Command, AppendIntent(p) PROVE EvidenceInv'
  <2>1. EvidenceTypeOK' BY <1>9 DEF AppendIntent, Line, Whole, EvidenceTypeOK, Phases, LockPoints
  <2>2. AtLock' BY <1>9 DEF AppendIntent, Line, Whole, AtLock, EvidenceTypeOK
  <2>3. Mutex' BY <1>9 DEF AppendIntent, Line, Whole, Mutex, Owning, AtLock, EvidenceTypeOK
  <2>4. Saved' BY <1>9 DEF AppendIntent, Line, Whole, Saved, EvidenceTypeOK, AtLock
  <2>5. Snapshot' BY <1>9 DEF AppendIntent, Line, Whole, Snapshot, Mutex, Owning, AtLock, Saved,
                      EvidenceTypeOK
  <2> QED BY <2>1, <2>2, <2>3, <2>4, <2>5
<1>10. ASSUME NEW p \in Command, ReadLog(p) PROVE EvidenceInv'
  <2>1. EvidenceTypeOK' BY <1>10 DEF ReadLog, Readable, Found, EvidenceTypeOK, Phases, LockPoints
  <2>2. AtLock' BY <1>10 DEF ReadLog, Readable, Found, AtLock, EvidenceTypeOK
  <2>3. Mutex' BY <1>10 DEF ReadLog, Readable, Found, Mutex, Owning, AtLock, EvidenceTypeOK
  <2>4. Saved' BY <1>10 DEF ReadLog, Readable, Found, Saved, EvidenceTypeOK, AtLock
  <2>5. Snapshot' BY <1>10 DEF ReadLog, Readable, Found, Snapshot, Mutex, Owning, AtLock, Saved,
                      EvidenceTypeOK
  <2> QED BY <2>1, <2>2, <2>3, <2>4, <2>5
<1>11. ASSUME NEW p \in Command, AppendTerminal(p) PROVE EvidenceInv'
  <2>1. EvidenceTypeOK' BY <1>11 DEF AppendTerminal, Line, Whole, EvidenceTypeOK, Phases, LockPoints
  <2>2. AtLock' BY <1>11 DEF AppendTerminal, Line, Whole, AtLock, EvidenceTypeOK
  <2>3. Mutex' BY <1>11 DEF AppendTerminal, Line, Whole, Mutex, Owning, AtLock, EvidenceTypeOK
  <2>4. Saved' BY <1>11 DEF AppendTerminal, Line, Whole, Saved, EvidenceTypeOK, AtLock
  <2>5. Snapshot' BY <1>11 DEF AppendTerminal, Line, Whole, Snapshot, Mutex, Owning, AtLock,
                      Saved, EvidenceTypeOK
  <2> QED BY <2>1, <2>2, <2>3, <2>4, <2>5
<1>12. ASSUME NEW p \in Command, LineEnsured(p) PROVE EvidenceInv'
  <2>1. EvidenceTypeOK' BY <1>12 DEF LineEnsured, EvidenceTypeOK, Phases, LockPoints
  <2>2. AtLock' BY <1>12 DEF LineEnsured, AtLock, EvidenceTypeOK
  <2>3. Mutex' BY <1>12 DEF LineEnsured, Mutex, Owning, AtLock, EvidenceTypeOK
  <2>4. Saved' BY <1>12 DEF LineEnsured, Saved, EvidenceTypeOK, AtLock
  <2>5. Snapshot' BY <1>12 DEF LineEnsured, Snapshot, Mutex, Owning, AtLock, Saved, EvidenceTypeOK
  <2> QED BY <2>1, <2>2, <2>3, <2>4, <2>5
<1>13. ASSUME NEW p \in Command, Verify(p) PROVE EvidenceInv'
  <2>1. EvidenceTypeOK' BY <1>13 DEF Verify, Readable, EvidenceTypeOK, Phases, LockPoints
  <2>2. AtLock' BY <1>13 DEF Verify, Readable, AtLock, EvidenceTypeOK
  <2>3. Mutex' BY <1>13 DEF Verify, Readable, Mutex, Owning, AtLock, EvidenceTypeOK
  <2>4. Saved' BY <1>13 DEF Verify, Readable, Saved, EvidenceTypeOK, AtLock
  <2>5. Snapshot' BY <1>13 DEF Verify, Readable, Snapshot, Mutex, Owning, AtLock, Saved,
                      EvidenceTypeOK
  <2> QED BY <2>1, <2>2, <2>3, <2>4, <2>5
<1>14. ASSUME NEW p \in Command, Lookup(p) PROVE EvidenceInv'
  <2>1. EvidenceTypeOK' BY <1>14 DEF Lookup, Prior, EvidenceTypeOK, Phases, LockPoints
  <2>2. AtLock' BY <1>14 DEF Lookup, Prior, AtLock, EvidenceTypeOK
  <2>3. Mutex' BY <1>14 DEF Lookup, Prior, Mutex, Owning, AtLock, EvidenceTypeOK
  <2>4. Saved' BY <1>14 DEF Lookup, Prior, Saved, EvidenceTypeOK, AtLock
  <2>5. Snapshot' BY <1>14 DEF Lookup, Prior, Snapshot, Mutex, Owning, AtLock, Saved, EvidenceTypeOK
  <2> QED BY <2>1, <2>2, <2>3, <2>4, <2>5
<1>15. ASSUME NEW p \in Command, Reconcile(p) PROVE EvidenceInv'
  <2>1. EvidenceTypeOK' BY <1>15 DEF Reconcile, EvidenceTypeOK, Phases, LockPoints
  <2>2. AtLock' BY <1>15 DEF Reconcile, AtLock, EvidenceTypeOK
  <2>3. Mutex' BY <1>15 DEF Reconcile, Mutex, Owning, AtLock, EvidenceTypeOK
  <2>4. Saved' BY <1>15 DEF Reconcile, Saved, EvidenceTypeOK, AtLock
  <2>5. Snapshot' BY <1>15 DEF Reconcile, Snapshot, Mutex, Owning, AtLock, Saved, EvidenceTypeOK
  <2> QED BY <2>1, <2>2, <2>3, <2>4, <2>5
<1>16. ASSUME NEW p \in Command, Effect(p) PROVE EvidenceInv'
  <2>1. EvidenceTypeOK' BY <1>16 DEF Effect, EvidenceTypeOK, Phases, LockPoints
  <2>2. AtLock' BY <1>16 DEF Effect, AtLock, EvidenceTypeOK
  <2>3. Mutex' BY <1>16 DEF Effect, Mutex, Owning, AtLock, EvidenceTypeOK
  <2>4. Saved' BY <1>16 DEF Effect, Saved, EvidenceTypeOK, AtLock
  <2>5. Snapshot' BY <1>16 DEF Effect, Snapshot, Mutex, Owning, AtLock, Saved, EvidenceTypeOK
  <2> QED BY <2>1, <2>2, <2>3, <2>4, <2>5
<1>17. ASSUME NEW p \in Command, SaveReceipt(p) PROVE EvidenceInv'
  <2>1. EvidenceTypeOK' BY <1>17 DEF SaveReceipt, EvidenceTypeOK, Phases, LockPoints
  <2>2. AtLock' BY <1>17 DEF SaveReceipt, AtLock, EvidenceTypeOK
  <2>3. Mutex' BY <1>17 DEF SaveReceipt, Mutex, Owning, AtLock, EvidenceTypeOK
  <2>4. Saved' BY <1>17 DEF SaveReceipt, Saved, EvidenceTypeOK, AtLock
  <2>5. Snapshot' BY <1>17 DEF SaveReceipt, Snapshot, Mutex, Owning, AtLock, Saved, EvidenceTypeOK
  <2> QED BY <2>1, <2>2, <2>3, <2>4, <2>5
<1>18. ASSUME NEW p \in Command, Die(p) PROVE EvidenceInv'
  <2>1. EvidenceTypeOK' BY <1>18 DEF Die, EvidenceTypeOK, Phases, LockPoints
  <2>2. AtLock' BY <1>18 DEF Die, AtLock, EvidenceTypeOK
  <2>3. Mutex' BY <1>18 DEF Die, Mutex, Owning, AtLock, EvidenceTypeOK
  <2>4. Saved' BY <1>18 DEF Die, Saved, EvidenceTypeOK, AtLock
  <2>5. Snapshot' BY <1>18 DEF Die, Snapshot, Mutex, Owning, AtLock, Saved, EvidenceTypeOK
  <2> QED BY <2>1, <2>2, <2>3, <2>4, <2>5
<1>19. CASE UNCHANGED evars
  BY <1>19 DEF evars, EvidenceTypeOK, AtLock, Mutex, Saved, Snapshot
<1> QED BY <1>1, <1>2, <1>3, <1>4, <1>5, <1>6, <1>7, <1>8, <1>9,
           <1>10, <1>11, <1>12, <1>13, <1>14, <1>15, <1>16, <1>17, <1>18, <1>19 DEF EvidenceNext

(* audit/lock.go:34-183, audit.go:204-312, receipt/store.go:227-332: for   *)
(* any number of commands, deaths and failing writes, the log has one      *)
(* terminal line per receipt and only for saved ones, behind an exclusive  *)
(* lock, unless a reclaim has removed a lock it had not read.              *)
THEOREM EvidenceCorrect == EvidenceSpec => []EvidenceHolds
<1>1. EvidenceInv => EvidenceHolds
  BY DEF EvidenceInv, Mutex, Owning, Saved, Snapshot, EvidenceTypeOK, EvidenceHolds,
      LockIsExclusive,
         OneTerminalLine, EvidenceIsBacked
<1> QED BY <1>1, InitEvidence, NextEvidence, PTL DEF EvidenceSpec
=============================================================================
