------------------------------ MODULE Mutation ------------------------------
(***************************************************************************)
(* executeMutation, the one path by which this program changes a machine:  *)
(* internal/app/recovery_mutation.go, recovery_admission.go and            *)
(* recovery_deadline.go, with the receipt store (internal/receipt), the    *)
(* approval store (internal/approval) and the audit log it works on.       *)
(*                                                                         *)
(* A run is one invocation of executeMutation, by the daemon or by         *)
(* `amc --direct`; processes share the stores on disk and nothing else.    *)
(* The host lease is the one module Lease provides: its holder keeps it    *)
(* while it lives, a dead holder's lease can be taken.                     *)
(*                                                                         *)
(* Steps are the calls that touch shared state.  A run's context may be    *)
(* cancelled at any time (caller, deadline, shutdown); each step reads it  *)
(* where the code does.  Any I/O operation may fail, before it has taken   *)
(* effect or after (a directory sync that fails), and the error may be a   *)
(* deadline's: lookup, compensation and release have five seconds of their *)
(* own, the backend a timeout.                                             *)
(***************************************************************************)
EXTENDS Naturals, FiniteSets

CONSTANTS Run,          \* invocations of executeMutation
          Proc,         \* processes: daemon incarnations, direct CLIs
          Key,          \* idempotency keys
          Target,       \* provider targets (machines)
          Approval,     \* issued approvals
          ProcOf, KeyOf, TargetOf,
          ApprovalOf,   \* the approval a run presents, or None
          Destructive,  \* runs whose operation is destructive as requested
          Native,       \* desktop.action and console.input runs
          Callers,      \* do callers keep the runs of a key apart, or not, or both?
          Exits,        \* processes that may die
          None

ASSUME MutationAssumption ==
    /\ ProcOf \in [Run -> Proc]
    /\ KeyOf \in [Run -> Key]
    /\ TargetOf \in [Run -> Target]
    /\ ApprovalOf \in [Run -> Approval \cup {None}]
    /\ None \notin Run \cup Approval
    /\ Destructive \subseteq Run /\ Native \subseteq Run
    /\ Exits \subseteq Proc
    /\ Callers \subseteq BOOLEAN

VARIABLES receipts,   \* durable receipts: [by |-> run, status |-> outcome]
          consumer,   \* the run whose consumed record of an approval is on disk, or None
          lease,      \* the run holding each target's lease, or None
          intents,    \* runs whose admission intent is in the audit log
          pc, ctx,    \* where a run is; is its context "live" or "done"?
          needs,      \* runs whose effective class requires approval
          spent,      \* runs for which MarkConsumed returned success
          outcome,    \* the outcome a run has come to
          dispatched, \* history: runs that reached the provider
          blind,      \* history: runs whose idempotency lookup failed
          left,       \* history: what a run could not give back, the store failing
          alive,
          apart       \* does the caller keep the runs of a key apart?

vars == <<receipts, consumer, lease, intents, pc, ctx, needs,
          spent, outcome, dispatched, blind, left, alive, apart>>
stores == <<receipts, consumer, lease, intents>>
locals == <<needs, spent, dispatched, blind, left>>

PCs == {"idle", "lookup", "authorize", "lease", "intent", "consume", "hooks",
        "execute", "provider", "receipt", "audit", "compensate", "free", "done"}
Outcomes == {"none", "success", "failed", "aborted", "denied", "error", "cached"}

TypeOK == /\ receipts \subseteq [by : Run, status : Outcomes]
          /\ consumer \in [Approval -> Run \cup {None}]
          /\ lease \in [Target -> Run \cup {None}]
          /\ intents \subseteq Run
          /\ pc \in [Run -> PCs]
          /\ ctx \in [Run -> {"live", "done"}]
          /\ needs \subseteq Run /\ spent \subseteq Run
          /\ outcome \in [Run -> Outcomes]
          /\ dispatched \subseteq Run /\ blind \subseteq Run
          /\ left \in [Run -> SUBSET {"lease", "approval"}]
          /\ alive \in [Proc -> BOOLEAN]
          /\ apart \in BOOLEAN

Init == /\ receipts = {} /\ intents = {}
        /\ consumer = [a \in Approval |-> None]
        /\ lease = [t \in Target |-> None]
        /\ pc = [r \in Run |-> "idle"]
        /\ ctx = [r \in Run |-> "live"]
        /\ needs = {} /\ spent = {} /\ dispatched = {} /\ blind = {}
        /\ left = [r \in Run |-> {}]
        /\ outcome = [r \in Run |-> "none"]
        /\ alive = [p \in Proc |-> TRUE]
        /\ apart \in Callers

----------------------------------------------------------------------------
At(r, l) == pc[r] = l /\ alive[ProcOf[r]]
Cancelled(r) == ctx[r] = "done"

(* A run at its next step; on its return its context ends (the deferred    *)
(* cancelExecution).                                                       *)
Goto(r, l) == /\ pc' = [pc EXCEPT ![r] = l]
              /\ ctx' = IF l = "done" THEN [ctx EXCEPT ![r] = "done"] ELSE ctx

Decide(r, o) == outcome' = [outcome EXCEPT ![r] = o]
End(r, o) == Goto(r, "done") /\ Decide(r, o)
Keeps(r, what) == left' = [left EXCEPT ![r] = @ \cup {what}]

(* The approvals with a consumed record on disk.                           *)
consumed == {a \in Approval : consumer[a] # None}

(* Mutant: only a success is an answer to a retry.                         *)
CachedSuccess(r) == {x \in receipts : KeyOf[x.by] = KeyOf[r] /\ x.status = "success"}

(* LookupIdempotency's matches, in whatever order the directory lists them. *)
Cached(r) == {x \in receipts : KeyOf[x.by] = KeyOf[r]}

(* preProviderFailure: only an error that is a cancellation or a deadline  *)
(* leaves an (aborted) receipt, and never for the native input kinds.      *)
PreProviderFailure(r, ended) ==
    IF ended /\ r \notin Native
      THEN Goto(r, "receipt") /\ Decide(r, "aborted")
      ELSE End(r, "error")

(* The same, for a run that still has its lease to give back.              *)
FreeThenFail(r, ended) ==
    /\ Goto(r, "free")
    /\ Decide(r, IF ended THEN "aborted" ELSE "error")

Busy(r) == pc[r] \notin {"idle", "done"} /\ alive[ProcOf[r]]

(* A caller starts a run.  operations.Manager admits one run per key.      *)
Begin(r) ==
    /\ At(r, "idle")
    /\ apart => \A q \in Run : KeyOf[q] = KeyOf[r] => ~Busy(q)
    /\ Goto(r, "lookup")
    /\ UNCHANGED <<stores, locals, outcome, alive, apart>>

(* checkPreconditions: a durable receipt wins, even over a cancellation;   *)
(* then the context and the audit log's writability.  The lookup's own     *)
(* error, its deadline too, is handled like any other before the provider. *)
CheckPreconditions(r) ==
    /\ At(r, "lookup")
    /\ \/ /\ \/ Cached(r) # {} /\ End(r, "cached")
             \/ Cached(r) = {} /\ ~Cancelled(r) /\ Goto(r, "authorize") /\ UNCHANGED outcome
             \/ Cached(r) = {} /\ \E ended \in BOOLEAN : PreProviderFailure(r, ended)
          /\ UNCHANGED blind
       \/ /\ \E ended \in BOOLEAN : PreProviderFailure(r, ended)
          /\ blind' = blind \cup {r}
    /\ UNCHANGED <<stores, needs, spent, dispatched, left, alive, apart>>

(* Does the effective class require approval?  A reversible operation for  *)
(* which discoverRollback finds no verified checkpoint escalates.          *)
RequiresApproval(r) == IF r \in Destructive THEN {TRUE} ELSE BOOLEAN

(* verifyApprovalUnconsumed.  An approval that was issued on the server is *)
(* also looked up before, whatever the class: one more reason to be denied. *)
ApprovalUsable(r, required) ==
    required => ApprovalOf[r] # None /\ ApprovalOf[r] \notin consumed

(* prepareAndAuthorizeMutation.  `ended` says of a failing step, here and  *)
(* below, whether its error is the end of a context: the run's, or a       *)
(* deadline of the step's own.  An unusable approval or any other policy   *)
(* denial is final, and leaves a receipt.                                  *)
Authorize(r) ==
    /\ At(r, "authorize")
    /\ \/ /\ \E ended \in BOOLEAN : PreProviderFailure(r, ended)
          /\ UNCHANGED needs
       \/ /\ ~Cancelled(r)
          /\ Goto(r, "receipt") /\ Decide(r, "denied")
          /\ UNCHANGED needs
       \/ /\ ~Cancelled(r)
          /\ \E required \in RequiresApproval(r) :
               /\ ApprovalUsable(r, required)
               /\ needs' = IF required THEN needs \cup {r} ELSE needs
          /\ Goto(r, "lease")
          /\ UNCHANGED outcome
    /\ UNCHANGED <<stores, spent, dispatched, blind, left, alive, apart>>

(* acquireMutationLease: a conflict is an error without a receipt; a       *)
(* cancellation seen after the acquisition gives the lease back.  Acquire  *)
(* may fail behind the lease file, which nobody then removes.              *)
AcquireLease(r) ==
    LET t == TargetOf[r]
        free == lease[t] # None => ~alive[ProcOf[lease[t]]]
        taken == [lease EXCEPT ![t] = r] IN
    /\ At(r, "lease")
    /\ \/ /\ ~free
          /\ End(r, "error")
          /\ UNCHANGED <<lease, left>>
       \/ /\ \E ended \in BOOLEAN : PreProviderFailure(r, ended)
          /\ \/ UNCHANGED <<lease, left>>
             \/ free /\ lease' = taken /\ Keeps(r, "lease")
       \/ /\ free
          /\ lease' = taken
          /\ IF Cancelled(r) THEN FreeThenFail(r, TRUE)
             ELSE Goto(r, "intent") /\ UNCHANGED outcome
          /\ UNCHANGED left
    /\ UNCHANGED <<receipts, consumer, intents, needs, spent, dispatched, blind, alive, apart>>

(* Mutant: an intent that cannot be written is ignored.                    *)
RecordIntentLax(r) ==
    /\ At(r, "intent")
    /\ \/ /\ Cancelled(r)
          /\ FreeThenFail(r, TRUE)
          /\ UNCHANGED intents
       \/ /\ ~Cancelled(r)
          /\ \/ intents' = intents \cup {r}
             \/ UNCHANGED intents
          /\ Goto(r, "consume")
          /\ UNCHANGED outcome
    /\ UNCHANGED <<receipts, consumer, lease, locals, alive, apart>>

(* recordAdmissionAndConsume, first the audit intent ...                   *)
RecordIntent(r) ==
    /\ At(r, "intent")
    /\ \/ /\ \E ended \in BOOLEAN : FreeThenFail(r, ended)
          /\ intents' \in {intents, intents \cup {r}}
       \/ /\ ~Cancelled(r)
          /\ intents' = intents \cup {r}
          /\ Goto(r, "consume")
          /\ UNCHANGED outcome
    /\ UNCHANGED <<receipts, consumer, lease, locals, alive, apart>>

(* The consumed record of r's approval, created with O_EXCL.               *)
ConsumedBy(r) == [consumer EXCEPT ![ApprovalOf[r]] = r]

(* Mutant: the consumed record is created without O_EXCL.                  *)
ConsumeShared(r) ==
    /\ At(r, "consume")
    /\ consumer' = IF r \in needs THEN ConsumedBy(r) ELSE consumer
    /\ spent' = IF r \in needs THEN spent \cup {r} ELSE spent
    /\ Goto(r, "hooks")
    /\ UNCHANGED <<receipts, lease, intents, needs, outcome, dispatched, blind, left, alive,
                   apart>>

(* ... then MarkConsumed, which admits one consumer.  An error from it is  *)
(* never compensated, not even that of the directory sync behind the       *)
(* record.                                                                 *)
Consume(r) ==
    /\ At(r, "consume")
    /\ \/ /\ r \notin needs
          /\ Goto(r, "hooks")
          /\ UNCHANGED <<consumer, spent, outcome, left>>
       \/ /\ r \in needs
          /\ \E ended \in BOOLEAN : FreeThenFail(r, ended)
          /\ \/ UNCHANGED <<consumer, left>>
             \/ ApprovalOf[r] \notin consumed /\ consumer' = ConsumedBy(r) /\ Keeps(r, "approval")
          /\ UNCHANGED spent
       \/ /\ r \in needs /\ ~Cancelled(r) /\ ApprovalOf[r] \notin consumed
          /\ consumer' = ConsumedBy(r)
          /\ spent' = spent \cup {r}
          /\ Goto(r, "hooks")
          /\ UNCHANGED <<outcome, left>>
    /\ UNCHANGED <<receipts, lease, intents, needs, dispatched, blind, alive, apart>>

(* Mutant: a failing hook, or a cancellation, only frees the lease.        *)
RunHooksKeeps(r) ==
    /\ At(r, "hooks")
    /\ \/ \E ended \in BOOLEAN : FreeThenFail(r, ended)
       \/ /\ ~Cancelled(r)
          /\ Goto(r, "execute")
          /\ UNCHANGED outcome
    /\ UNCHANGED <<stores, locals, alive, apart>>

(* runLifecycleHooks (OnAdmitted, OnRunning) and the last context check.   *)
RunHooks(r) ==
    /\ At(r, "hooks")
    /\ \/ /\ Goto(r, "compensate")
          /\ \E ended \in BOOLEAN : Decide(r, IF ended THEN "aborted" ELSE "error")
       \/ /\ ~Cancelled(r)
          /\ Goto(r, "execute")
          /\ UNCHANGED outcome
    /\ UNCHANGED <<stores, locals, alive, apart>>

(* execFn.  A native closure may return without having dispatched.         *)
Dispatch(r) ==
    /\ At(r, "execute")
    /\ Goto(r, "provider")
    /\ dispatched' = dispatched \cup {r}
    /\ UNCHANGED <<stores, needs, spent, outcome, blind, left, alive, apart>>

NotDispatched(r) ==
    /\ At(r, "execute")
    /\ r \in Native
    /\ Goto(r, "compensate") /\ Decide(r, "error")
    /\ UNCHANGED <<stores, locals, alive, apart>>

ProviderReturns(r) ==
    /\ At(r, "provider")
    /\ Goto(r, "receipt")
    /\ \E o \in {"failed", "aborted"} \cup (IF Cancelled(r) THEN {} ELSE {"success"}) :
         Decide(r, o)
    /\ UNCHANGED <<stores, locals, alive, apart>>

(* persistOutcome: the receipt, then (if it was saved) the terminal audit  *)
(* entry, which nothing reads back and whose failure changes nothing but   *)
(* the error returned.  After a dispatch the lease is released last; a     *)
(* denied or aborted run has none any more.                                *)
AfterPersist(r) == IF r \in dispatched THEN "free" ELSE "done"

(* The store after EnsureContext has written the receipt of a run.         *)
Ensured(r) == receipts \cup {[by |-> r, status |-> outcome[r]]}

PersistReceipt(r) ==
    /\ At(r, "receipt")
    /\ \/ receipts' = Ensured(r) /\ Goto(r, "audit")
       \/ /\ receipts' \in {receipts, Ensured(r)}
          /\ Goto(r, AfterPersist(r))
    /\ UNCHANGED <<consumer, lease, intents, locals, outcome, alive, apart>>

PersistAudit(r) ==
    /\ At(r, "audit")
    /\ Goto(r, AfterPersist(r))
    /\ UNCHANGED <<stores, locals, outcome, alive, apart>>

(* ReleaseUnexecuted removes the consumed record by the approval's name.   *)
ReleaseUnexecuted(r) == consumer' = [consumer EXCEPT ![ApprovalOf[r]] = None]

(* The error returned may have become a deadline's, joined to the first.   *)
MayEnd(r) == \E o \in {outcome[r], "aborted"} : Decide(r, o)

(* compensatePreProviderAbort: give the approval back, then the lease.     *)
Compensate(r) ==
    /\ At(r, "compensate")
    /\ \/ r \in spent /\ ReleaseUnexecuted(r) /\ UNCHANGED <<left, outcome>>
       \/ r \notin spent /\ UNCHANGED <<consumer, left, outcome>>
       \/ r \in spent /\ Keeps(r, "approval") /\ UNCHANGED consumer /\ MayEnd(r)
    /\ Goto(r, "free")
    /\ UNCHANGED <<receipts, lease, intents, needs, spent, dispatched, blind, alive, apart>>

(* releaseLease.  A cancelled run that never reached the provider still    *)
(* has its aborted receipt to write.                                       *)
FreeLease(r) ==
    /\ At(r, "free")
    /\ \/ lease' = [lease EXCEPT ![TargetOf[r]] = None] /\ UNCHANGED <<left, outcome>>
       \/ UNCHANGED lease /\ Keeps(r, "lease") /\ MayEnd(r)
    /\ Goto(r, IF outcome'[r] = "aborted" /\ r \notin dispatched \cup Native
                  THEN "receipt" ELSE "done")
    /\ UNCHANGED <<receipts, consumer, intents, needs, spent, dispatched, blind, alive, apart>>

----------------------------------------------------------------------------
Cancel(r) == /\ ctx[r] = "live" /\ Busy(r)
             /\ ctx' = [ctx EXCEPT ![r] = "done"]
             /\ UNCHANGED <<stores, pc, locals, outcome, alive, apart>>

Exit(p) == /\ p \in Exits /\ alive[p]
           /\ alive' = [alive EXCEPT ![p] = FALSE]
           /\ UNCHANGED <<stores, pc, ctx, locals, outcome, apart>>

Step(r) == \/ CheckPreconditions(r) \/ Authorize(r) \/ AcquireLease(r)
           \/ RecordIntent(r) \/ Consume(r) \/ RunHooks(r) \/ Dispatch(r)
           \/ NotDispatched(r) \/ ProviderReturns(r) \/ PersistReceipt(r)
           \/ PersistAudit(r) \/ Compensate(r) \/ FreeLease(r)

Next == \/ \E r \in Run : Begin(r) \/ Step(r) \/ Cancel(r)
        \/ \E p \in Proc : Exit(p)

Spec == Init /\ [][Next]_vars

----------------------------------------------------------------------------
(* Properties.                                                             *)

(* Two living runs never drive the same machine at once, in one process or *)
(* in two: the lease is held from before the dispatch until the outcome is *)
(* recorded.                                                               *)
ExclusiveDispatch ==
    \A r, q \in Run :
        (/\ pc[r] = "provider" /\ alive[ProcOf[r]]
         /\ pc[q] = "provider" /\ alive[ProcOf[q]]
         /\ TargetOf[r] = TargetOf[q]) => r = q

(* Nothing reaches the provider without its audit intent on disk and,      *)
(* where the effective class requires approval, without having consumed    *)
(* one; that consumption stays on disk for ever, whatever crashes, fails   *)
(* or is compensated afterwards.                                           *)
DispatchIsBacked ==
    \A r \in dispatched :
        /\ r \in intents
        /\ r \in needs => consumer[ApprovalOf[r]] = r

(* One approval is good for one dispatch, although runs check it before    *)
(* they consume it, and abandoned runs give it back.                       *)
ApprovalSpentOnce ==
    \A r, q \in dispatched \cap needs : ApprovalOf[r] = ApprovalOf[q] => r = q

(* Whatever step of executeMutation fails or is cancelled, failing hooks   *)
(* too: a run that returns without having reached the provider leaves no   *)
(* consumption of its own behind, and no return leaves its lease.  The one *)
(* exception is that the store concerned failed the run: the release or    *)
(* the compensation itself, or an error from Acquire or MarkConsumed       *)
(* behind the file it had made.                                            *)
EarlyReturnRestores ==
    \A r \in Run : pc[r] = "done" =>
        /\ lease[TargetOf[r]] = r => "lease" \in left[r]
        /\ r \notin dispatched =>
               \A a \in Approval : consumer[a] = r => "approval" \in left[r]

(* When its caller keeps the runs of a key apart, the runs whose lookup    *)
(* worked leave one receipt of a key between them, so the answer to a      *)
(* retry does not depend on directory order.  A lookup that fails may add  *)
(* to it, but never more than the receipt of an abort before the provider: *)
(* a run that could not look never dispatches.                             *)
OneReceiptPerKey ==
    apart => /\ \A x, y \in {z \in receipts : z.by \notin blind} :
                    KeyOf[x.by] = KeyOf[y.by] => x = y
             /\ \A z \in receipts : z.by \in blind =>
                    z.status = "aborted" /\ z.by \notin dispatched

=============================================================================
