------------------------------- MODULE Targets ------------------------------
(***************************************************************************)
(* The default target: one protected document that says which machine the  *)
(* word "default" means, changed only by journaled, approved mutations.    *)
(* internal/app/target_coordinator.go, target_approval.go, target.go and   *)
(* internal/target (store.go, durability.go, mutation_journal.go,          *)
(* mutation_journal_effect.go).                                            *)
(*                                                                         *)
(* Mutate holds the coordinator's mutex, so at most one request is at work *)
(* in the daemon; approvals are issued meanwhile.  A request is named by   *)
(* its idempotency key and wants one state of the document, None for a     *)
(* clear.  An operation is bound to the state it starts from: its          *)
(* fingerprint, its approval and its record hold prior and desired.        *)
(* The process may die between any two steps; what it renamed stays.  A    *)
(* read or write fails only at the points FaultPoints names.               *)
(***************************************************************************)
EXTENDS Naturals

CONSTANTS Key, Machine, Want,   \* the state a request wants
          FaultPoints,          \* where a read or write may fail
          MaxTries, MaxCrashes, MaxFaults,
          None

Points == {"reserve", "cancel", "hash", "intent", "consume", "commit", "sync",
           "effect", "receipt", "audit", "mark", "release"}

State == Machine \cup {None}
Transition == [prior : State, desired : State]
Record == [prior : State, desired : State, durable : BOOLEAN,
           state : {"pending", "finalizing", "finalized"}]

ASSUME TargetsAssumption ==
    /\ None \notin Key \cup Machine \cup Transition \cup Record
    /\ Want \in [Key -> Machine \cup {None}]
    /\ FaultPoints \subseteq Points
    /\ MaxTries \in Nat /\ MaxCrashes \in Nat /\ MaxFaults \in Nat

VARIABLES cur,      \* the document on disk
          pending,  \* does the store remember a rename it has not synced?
          journal,  \* per key: None or a record
          receipts, audited,   \* keys with a receipt, with a terminal audit
          issued,   \* per key: None or the approval's transition
          consumed, expired,   \* keys whose approval is consumed, is too old
          act, pc,  \* the key Mutate works on, and where it is
          plan,     \* its transition
          retry,    \* did Mutate find a record of the key?
          spent,    \* did this Mutate consume the approval?
          durable,  \* was its publication durable?
          applied,  \* history: <<key, try>> that changed the document
          left,     \* history: keys whose record was once left to itself
          tries, boot, todo, crashes, faults

evidence == <<receipts, audited>>
approvals == <<issued, consumed, expired>>
work == <<act, pc, plan, retry, spent, durable>>
life == <<boot, todo, crashes>>
vars == <<cur, pending, journal, evidence, approvals, work, applied, left,
          tries, life, faults>>

TypeOK ==
    /\ cur \in State /\ pending \in BOOLEAN
    /\ journal \in [Key -> Record \cup {None}]
    /\ receipts \subseteq Key /\ audited \subseteq Key
    /\ issued \in [Key -> Transition \cup {None}]
    /\ consumed \subseteq Key /\ expired \subseteq Key
    /\ act \in Key \cup {None}
    /\ pc \in {"idle", "reserve", "authorize", "check", "consume", "commit",
               "effect", "receipt", "audit", "mark"}
    /\ plan \in Transition
    /\ retry \in BOOLEAN /\ spent \in BOOLEAN /\ durable \in BOOLEAN
    /\ applied \subseteq Key \X (1 .. MaxTries) /\ left \subseteq Key
    /\ tries \in 0 .. MaxTries
    /\ boot \in {"off", "scan", "up"} /\ todo \subseteq Key
    /\ crashes \in 0 .. MaxCrashes /\ faults \in 0 .. MaxFaults

Init ==
    /\ cur \in State /\ pending = FALSE
    /\ journal = [k \in Key |-> None]
    /\ receipts = {} /\ audited = {}
    /\ issued = [k \in Key |-> None]
    /\ consumed = {} /\ expired = {}
    /\ act = None /\ pc = "idle"
    /\ plan = [prior |-> None, desired |-> None]
    /\ retry = FALSE /\ spent = FALSE /\ durable = FALSE
    /\ applied = {} /\ left = {} /\ tries = 0
    /\ boot = "up" /\ todo = {}
    /\ crashes = 0 /\ faults = 0

Fault(p) == p \in FaultPoints /\ faults < MaxFaults /\ faults' = faults + 1
NoFault == faults' = faults

(* Load reports only what it has synced: it repairs a pending publication  *)
(* or fails (repairPending, loadDurably).                                  *)
Load == pending' = FALSE /\ NoFault
LoadFails == Fault("sync") /\ UNCHANGED pending

Goto(where) == pc' = where /\ UNCHANGED act
Leave == pc' = "idle" /\ act' = None
At(where) == boot = "up" /\ pc = where

-----------------------------------------------------------------------------
(* IssueApproval: the approval names the transition from the state of now. *)
(* Issued again it must be the same.                                       *)
IssueApproval(k) ==
    /\ boot = "up"
    /\ Want[k] # None \/ cur # None
    /\ issued[k] = None
    /\ issued' = [issued EXCEPT ![k] = [prior |-> cur, desired |-> Want[k]]]
    /\ Load
    /\ UNCHANGED <<cur, journal, evidence, consumed, expired, work, applied,
                   tries, life>>

(* The deadline of an approval, and of the operation it names, passes.     *)
Expire(k) ==
    /\ issued[k] # None /\ k \notin expired
    /\ expired' = expired \cup {k}
    /\ UNCHANGED <<cur, pending, journal, evidence, issued, consumed, work,
                   applied, tries, life, faults>>

(* Mutate, up to the cached receipt: the plan is made from the document,   *)
(* or from the record of the key.  A clear needs a document, or a record.  *)
PriorOf(k) == IF journal[k] = None THEN cur ELSE journal[k].prior
Mutate(k) ==
    /\ At("idle") /\ tries < MaxTries
    /\ tries' = tries + 1
    /\ \/ LoadFails /\ UNCHANGED work
       \/ /\ Load
          /\ \/ /\ k \in receipts \/ (Want[k] = None /\ cur = None /\ journal[k] = None)
                /\ UNCHANGED work
             \/ /\ k \notin receipts
                /\ Want[k] # None \/ cur # None \/ journal[k] # None
                /\ act' = k /\ pc' = "reserve"
                /\ plan' = [prior |-> PriorOf(k), desired |-> Want[k]]
                /\ retry' = (journal[k] # None)
                /\ spent' = FALSE /\ durable' = FALSE
    /\ UNCHANGED <<cur, journal, evidence, approvals, applied, life>>

(* A record of the journal is created exclusively (a creation that fails   *)
(* removes its file) and replaced by a rename.                             *)
NewRecord == [prior |-> plan.prior, desired |-> plan.desired,
              state |-> "pending", durable |-> FALSE]
WriteExclusive(k, r) ==
    \/ journal' = [journal EXCEPT ![k] = r] /\ Goto("authorize") /\ NoFault
    \/ Fault("reserve") /\ Leave /\ UNCHANGED journal
Replaced(k, s, d) == [journal EXCEPT ![k].state = s, ![k].durable = d]

(* ReserveContext: the exact record of before, or a new one.               *)
Reserve ==
    /\ At("reserve")
    /\ \/ journal[act] # None /\ Goto("authorize") /\ NoFault /\ UNCHANGED journal
       \/ journal[act] = None /\ WriteExclusive(act, NewRecord)
    /\ UNCHANGED <<cur, pending, evidence, approvals, plan, retry, spent,
                   durable, applied, tries, life>>

(* CancelContext: only a pending record is removed.                        *)
Removable(k) == journal[k] # None /\ journal[k].state = "pending"
Cancelled(k) == IF Removable(k) THEN [journal EXCEPT ![k] = None] ELSE journal

(* Mutant: an approval nobody has issued is accepted.                      *)
AuthorizedUnissued(k) == k \notin expired /\ (k \in consumed => retry)

(* loadAndAuthorizeMutation.  A request that found no record of its own    *)
(* withdraws the one it made.                                              *)
Authorized(k) ==
    /\ issued[k] = plan /\ k \notin expired
    /\ k \in consumed => retry
Authorize ==
    /\ At("authorize")
    /\ \/ Authorized(act) /\ Goto("check") /\ NoFault /\ UNCHANGED journal
       \/ /\ ~Authorized(act) /\ Leave
          /\ \/ journal' = (IF retry THEN journal ELSE Cancelled(act)) /\ NoFault
             \/ ~retry /\ Fault("cancel") /\ UNCHANGED journal
    /\ UNCHANGED <<cur, pending, evidence, approvals, plan, retry, spent,
                   durable, applied, tries, life>>

(* applyTargetPlan starts with the document as it is now.  A document that *)
(* cannot be read, or is neither prior nor desired (ErrMutationDrift),     *)
(* ends the request, and its record stays.                                 *)
Check ==
    /\ At("check")
    /\ \/ Load /\ cur \in {plan.prior, plan.desired} /\ Goto("consume")
       \/ Load /\ cur \notin {plan.prior, plan.desired} /\ Leave
       \/ Fault("hash") /\ Leave /\ UNCHANGED pending
    /\ UNCHANGED <<cur, journal, evidence, approvals, plan, retry, spent,
                   durable, applied, tries, life>>

(* cancelUnexecuted: the record goes, and from the approvals consumed by   *)
(* now the request's own; what cannot be taken back stays.                 *)
Withdraw(now, mine) ==
    /\ Leave
    /\ \/ journal' = Cancelled(act)
       \/ "cancel" \in FaultPoints /\ UNCHANGED journal
    /\ \/ consumed' = IF mine THEN now \ {act} ELSE now
       \/ "release" \in FaultPoints /\ consumed' = now

(* The audit intent, then the approval, whose consumption may be on disk   *)
(* although MarkConsumed reports an error.                                 *)
Consume ==
    /\ At("consume")
    /\ \/ /\ consumed' = consumed \cup {act}
          /\ spent' = (act \notin consumed)
          /\ Goto("commit") /\ NoFault /\ UNCHANGED journal
       \/ Fault("intent") /\ Withdraw(consumed, FALSE) /\ UNCHANGED spent
       \/ /\ act \notin consumed /\ Fault("consume") /\ UNCHANGED spent
          /\ \E now \in {consumed, consumed \cup {act}} : Withdraw(now, FALSE)
    /\ UNCHANGED <<cur, pending, evidence, issued, expired, plan, retry,
                   durable, applied, tries, life>>

(* The publication (CommitTargetPlan, repairPublication, Store.Save and    *)
(* Clear).  The document is replaced by a rename; a failed sync after it   *)
(* leaves it committed and not durable.  A document that is as desired     *)
(* already is synced again.                                                *)
Apply ==
    /\ cur' = plan.desired
    /\ applied' = IF cur = plan.desired THEN applied ELSE applied \cup {<<act, tries>>}
(* A file that cannot be prepared changes nothing.                         *)
Unpublished ==
    /\ Fault("commit") /\ Withdraw(consumed, spent)
    /\ UNCHANGED <<cur, pending, applied, durable>>
Commit ==
    /\ At("commit")
    /\ \/ /\ Apply /\ Goto("effect")
          /\ \/ durable' = TRUE /\ pending' = FALSE /\ NoFault
             \/ /\ cur # plan.desired
                /\ durable' = FALSE /\ pending' = TRUE /\ Fault("sync")
          /\ UNCHANGED <<journal, consumed>>
       \/ Unpublished
    /\ UNCHANGED <<evidence, issued, expired, plan, retry, spent, tries, life>>

(* RecordEffectContext: a record that has its effect takes the same truth  *)
(* only.                                                                   *)
RecordEffect ==
    /\ At("effect")
    /\ LET r == journal[act] IN
         \/ /\ r # None /\ r.state = "pending"
            /\ journal' = Replaced(act, "finalizing", durable)
            /\ Goto("receipt") /\ NoFault
         \/ /\ r # None /\ r.state # "pending" /\ r.durable = durable
            /\ Goto("receipt") /\ NoFault /\ UNCHANGED journal
         \/ /\ r = None \/ (r.state # "pending" /\ r.durable # durable)
            /\ Leave /\ NoFault /\ UNCHANGED journal
         \/ /\ r # None /\ Fault("effect") /\ Leave
            /\ \/ UNCHANGED journal
               \/ r.state = "pending" /\ journal' = Replaced(act, "finalizing", durable)
    /\ UNCHANGED <<cur, pending, evidence, approvals, plan, retry, spent,
                   durable, applied, tries, life>>

(* finalizeTargetEffect: receipt, terminal audit, mark.                    *)
EnsureReceipt ==
    /\ At("receipt")
    /\ \/ receipts' = receipts \cup {act} /\ Goto("audit") /\ NoFault
       \/ Fault("receipt") /\ Leave /\ UNCHANGED receipts
    /\ UNCHANGED <<cur, pending, journal, audited, approvals, plan, retry,
                   spent, durable, applied, tries, life>>

(* The terminal audit of finalizeTargetEffect.                             *)
EnsureAudit ==
    /\ At("audit")
    /\ \/ audited' = audited \cup {act} /\ Goto("mark") /\ NoFault
       \/ Fault("audit") /\ Leave /\ UNCHANGED audited
    /\ UNCHANGED <<cur, pending, journal, receipts, approvals, plan, retry,
                   spent, durable, applied, tries, life>>

MarkFinalized ==
    /\ At("mark") /\ Leave
    /\ LET marked == Replaced(act, "finalized", journal[act].durable) IN
         \/ journal' = marked /\ NoFault
         \/ Fault("mark") /\ journal' \in {journal, marked}
    /\ UNCHANGED <<cur, pending, evidence, approvals, plan, retry, spent,
                   durable, applied, tries, life>>

-----------------------------------------------------------------------------
Crash ==
    /\ crashes < MaxCrashes /\ crashes' = crashes + 1
    /\ boot' = "off" /\ todo' = {}
    /\ Leave /\ pending' = FALSE
    /\ UNCHANGED <<cur, journal, evidence, approvals, plan, retry, spent,
                   durable, applied, tries, faults>>

(* ReconcileStartup, one record at a time; an error refuses the start.     *)
BootStart ==
    /\ boot = "off"
    /\ boot' = "scan"
    /\ todo' = {k \in Key : journal[k] # None}
    /\ UNCHANGED <<cur, pending, journal, evidence, approvals, work, applied,
                   tries, crashes, faults>>

BootRefused == boot' = "off" /\ todo' = {}
BootNext(k) == todo' = todo \ {k} /\ UNCHANGED boot

(* Mutant: only the document is looked at, not the recorded effect.        *)
UntouchedNow(r) == cur = r.prior

(* cancelNoEffectTargetRecord: the document is as it was before, and no    *)
(* effect is recorded: the approval is released and the record removed.    *)
Untouched(r) == cur = r.prior /\ r.state = "pending"
BootCancel(k) ==
    /\ boot = "scan" /\ k \in todo
    /\ journal[k].state # "finalized" /\ Untouched(journal[k])
    /\ \/ /\ consumed' = consumed \ {k}
          /\ journal' = [journal EXCEPT ![k] = None]
          /\ BootNext(k) /\ NoFault
       \/ /\ Fault("release") \/ Fault("cancel")
          /\ consumed' \in {consumed, consumed \ {k}}
          /\ BootRefused /\ UNCHANGED journal
    /\ UNCHANGED <<cur, pending, evidence, issued, expired, work, applied,
                   tries, crashes>>

BootDrift(k) ==
    /\ boot = "scan" /\ k \in todo
    /\ journal[k].state # "finalized"
    /\ ~Untouched(journal[k]) /\ cur # journal[k].desired
    /\ BootRefused
    /\ UNCHANGED <<cur, pending, journal, evidence, approvals, work, applied,
                   tries, crashes, faults>>

(* finalizeAppliedTargetRecord: the effect is recorded, then its evidence, *)
(* then the mark; each step may be the last before a failure.              *)
BootFinalize(k) ==
    /\ boot = "scan" /\ k \in todo
    /\ journal[k].state # "finalized"
    /\ ~Untouched(journal[k]) /\ cur = journal[k].desired
    /\ LET recorded == Replaced(k, "finalizing", TRUE) IN
         \/ /\ journal' = Replaced(k, "finalized", TRUE)
            /\ receipts' = receipts \cup {k} /\ audited' = audited \cup {k}
            /\ BootNext(k) /\ NoFault
         \/ /\ Fault("mark") /\ BootRefused
            /\ journal' = recorded
            /\ receipts' = receipts \cup {k} /\ audited' = audited \cup {k}
         \/ /\ Fault("audit") /\ BootRefused
            /\ journal' = recorded
            /\ receipts' = receipts \cup {k} /\ UNCHANGED audited
         \/ /\ Fault("receipt") /\ BootRefused
            /\ journal' = recorded /\ UNCHANGED evidence
         \/ /\ Fault("effect") \/ Fault("sync")
            /\ BootRefused /\ UNCHANGED <<journal, evidence>>
    /\ UNCHANGED <<cur, pending, approvals, work, applied, tries, crashes>>

BootSkip(k) ==
    /\ boot = "scan" /\ k \in todo /\ journal[k].state = "finalized"
    /\ BootNext(k)
    /\ UNCHANGED <<cur, pending, journal, evidence, approvals, work, applied,
                   tries, crashes, faults>>

BootServe ==
    /\ boot = "scan" /\ todo = {}
    /\ boot' = "up"
    /\ UNCHANGED <<cur, pending, journal, evidence, approvals, work, applied,
                   tries, todo, crashes, faults>>

Step ==
    \/ Reserve \/ Authorize \/ Check \/ Consume \/ Commit
    \/ RecordEffect \/ EnsureReceipt \/ EnsureAudit \/ MarkFinalized
    \/ Crash \/ BootStart \/ BootServe
    \/ \E k \in Key :
         \/ IssueApproval(k) \/ Expire(k) \/ Mutate(k)
         \/ BootCancel(k) \/ BootDrift(k) \/ BootFinalize(k) \/ BootSkip(k)

(* A record that no request works on, which is pending or has no receipt:  *)
(* a retry of its key will act on it.                                      *)
Orphan(k) ==
    /\ boot = "up" /\ act # k /\ journal[k] # None
    /\ journal[k].state = "pending" \/ k \notin receipts

Next == Step /\ left' = left \cup {k \in Key : Orphan(k)'}

Spec == Init /\ [][Next]_vars

-----------------------------------------------------------------------------
(* The target journal keeps the promise of JournaledMutation until a       *)
(* request leaves its record to itself: a request changes the document at  *)
(* most once over all its retries and restarts, its record is cancelled    *)
(* only if it never did, and finalized as a change only if it made it      *)
(* (Mutate, reconcileTargetRecord).  An unreadable document, a withdrawal, *)
(* an effect or a receipt that cannot be written leave such a record: then *)
(* a retry may publish again, and a restart may finalize what another      *)
(* request changed.                                                        *)
Journal ==
    INSTANCE JournaledMutation WITH
        Agent <- 1 .. MaxTries,
        phase <- [k \in Key |-> IF journal[k] = None THEN "free"
                                ELSE IF journal[k].state = "pending" THEN "reserved"
                                ELSE "decided"],
        applied <- [k \in Key |-> {n \in 1 .. MaxTries : <<k, n>> \in applied}],
        outcome <- [k \in Key |-> IF journal[k] = None \/ journal[k].state = "pending"
                                    THEN "open"
                                ELSE IF journal[k].prior = journal[k].desired THEN "none"
                                ELSE "applied"]
TargetJournalRefined == Journal!Init /\ [][left' = {} => Journal!Next]_(Journal!vars)

(* A request that changed the document has its own approval, for exactly   *)
(* that transition, and it stays consumed (cancelUnexecuted and the        *)
(* startup release approvals; neither may release this one).               *)
ChangeIsApproved ==
    \A k \in Key : (\E n \in 1 .. MaxTries : <<k, n>> \in applied) =>
        k \in consumed /\ issued[k] # None /\ issued[k].desired = Want[k]

(* A finalized record has its receipt and its terminal audit.              *)
FinalizedTargetHasEvidence ==
    \A k \in Key : journal[k] # None /\ journal[k].state = "finalized" =>
        k \in receipts \cap audited

(* A changed target was approved, and is evidenced once it is final.       *)
ChangeIsRecorded == TypeOK /\ ChangeIsApproved /\ FinalizedTargetHasEvidence

(* "removes an exact startup reservation proven to have no Store effect"   *)
(* (mutation_journal_effect.go): a record that is removed belongs to a     *)
(* request that has not changed the document.                              *)
CancelledHadNoEffect ==
    [][\A k \in Key : journal[k] # None /\ journal'[k] = None =>
           \A n \in 1 .. MaxTries : <<k, n>> \notin applied]_vars
=============================================================================
