----------------------------- MODULE Operations -----------------------------
(***************************************************************************)
(* The daemon's operation manager: internal/operations (manager.go,        *)
(* manager_exec.go, manager_cached.go, reconcile.go, store.go) over the    *)
(* operation records and receipts on disk, across daemon crashes.          *)
(*                                                                         *)
(* An operation is named after the submission that creates it.  Submit is  *)
(* one step after its unlocked closing check, because it holds m.mu        *)
(* throughout.  The goroutine executeOperation, Cancel, Shutdown and the   *)
(* startup reconciliation interleave step by step.  executeMutation is     *)
(* module Mutation; here it contributes its hooks, the dispatch and the    *)
(* receipt.                                                                *)
(***************************************************************************)
EXTENDS Naturals, FiniteSets, Sequences

CONSTANTS Op,          \* submissions, and the operations they create
          Key,         \* idempotency keys
          KeyOf,
          Canceller,   \* calls of Manager.Cancel
          CancelOf,    \* the operation each one cancels
          Capacity,    \* cap(m.capacity): 100 in the code
          ListLimit,   \* newest records ListRecords returns to Submit: 50
          ScanLimit,   \* newest records the reconciliation reads: 1000
          MaxCrashes,  \* bound on daemon crashes
          FaultModes,  \* with or without failing writes, or both
          None

ASSUME OperationsAssumption ==
    /\ KeyOf \in [Op -> Key]
    /\ CancelOf \in [Canceller -> Op]
    /\ Capacity \in Nat /\ ListLimit \in Nat /\ ScanLimit \in Nat
    /\ MaxCrashes \in Nat
    /\ FaultModes \subseteq BOOLEAN
    /\ None \notin Op
    /\ None \notin Op \X {"none", "real", "synthetic"}

VARIABLES disk,      \* the record of each operation: its state, or "none"
          born,      \* the records on disk in the order of their CreatedAt
          link,      \* the receipt a record names: "none", "real", "synthetic"
          real,      \* the receipt executeMutation wrote: its status, or "none"
          synth,     \* operations with a synthetic (aborted) receipt on disk
          inFlight,  \* m.inFlight: the operation executing under each key
          cancels,   \* m.liveCancels
          used,      \* slots taken in m.capacity
          pc,        \* where each submission, then its goroutine, is
          ctx,       \* the execution context: "live", "cancelled", "late"
          result,    \* what dispatchBackend returned: "none" yet, "ok", "error",
                     \* or "bare": an error without the identity of a receipt
          answer,    \* what Submit returned: an operation and the receipt it names
          finErrs,   \* m.finalizationErrors
          cpc,       \* where each Cancel is
          scan,      \* the record the reconciliation has in hand, or None
          daemon,    \* "serving", "closing", "swept", "drained", "down", "starting"
          crashes,
          faulty,    \* may SaveRecord, Publish or a receipt write fail here?
          dispatched \* history: operations that reached the provider

vars == <<disk, born, link, real, synth, inFlight, cancels, used, pc, ctx,
          result, answer, finErrs, cpc, scan, daemon, crashes, faulty, dispatched>>

Terminal == {"completed", "failed", "cancelled"}
States == {"pending", "admitted", "running"} \cup Terminal

(* Where an operation's goroutine is, from its launch to its last defer.   *)
Executing == {"start", "admitted", "running", "provider", "returned",
              "saved", "published"}
Live == Executing \cup {"leaving"}
PCs == {"new", "submitting", "done", "gone"} \cup Live

Links == {"none", "real", "synthetic"}

TypeOK == /\ disk \in [Op -> States \cup {"none"}]
          /\ born \in Seq(Op \X {"own", "real", "synthetic"})
          /\ link \in [Op -> Links]
          /\ real \in [Op -> {"none", "success", "failed", "aborted", "denied"}]
          /\ synth \subseteq Op
          /\ inFlight \in [Key -> Op \cup {None}]
          /\ cancels \subseteq Op
          /\ used \in 0 .. Capacity
          /\ pc \in [Op -> PCs]
          /\ ctx \in [Op -> {"live", "cancelled", "late"}]
          /\ result \in [Op -> {"none", "ok", "error", "bare"}]
          /\ answer \in [Op -> (Op \X Links) \cup {None}]
          /\ scan \in Op \cup {None}
          /\ finErrs \subseteq Op
          /\ cpc \in [Canceller -> {"new", "read", "receipt", "save", "done"}]
          /\ daemon \in {"serving", "closing", "swept", "drained", "down", "starting"}
          /\ crashes \in 0 .. MaxCrashes
          /\ faulty \in BOOLEAN
          /\ dispatched \subseteq Op

Init == /\ disk = [o \in Op |-> "none"]
        /\ born = <<>>
        /\ link = [o \in Op |-> "none"]
        /\ real = [o \in Op |-> "none"]
        /\ synth = {} /\ cancels = {} /\ finErrs = {} /\ dispatched = {}
        /\ inFlight = [k \in Key |-> None]
        /\ used = 0
        /\ pc = [o \in Op |-> "new"]
        /\ ctx = [o \in Op |-> "live"]
        /\ result = [o \in Op |-> "none"]
        /\ answer = [o \in Op |-> None]
        /\ cpc = [c \in Canceller |-> "new"]
        /\ scan = None
        /\ daemon = "serving"
        /\ crashes = 0
        /\ faulty \in FaultModes

----------------------------------------------------------------------------
Up == daemon \in {"serving", "closing", "swept", "drained"}
At(o, l) == Up /\ pc[o] = l
Goto(o, l) == pc' = [pc EXCEPT ![o] = l]

memory == <<inFlight, cancels, used, finErrs>>
others == <<cpc, scan, daemon, crashes, faulty>>

(* SaveRecord writes a temporary file and renames it.                      *)
SaveRecord(o, state) == disk' = [disk EXCEPT ![o] = state]

(* ListRecords: the newest n records, as positions in born.                *)
Newest(n) == {i \in 1 .. Len(born) : i > Len(born) - n}

(* LookupIdempotency: the receipts under the key.                          *)
Receipted(k) == {<<o, "real">> : o \in {p \in Op : KeyOf[p] = k /\ real[p] # "none"}}
                \cup {<<o, "synthetic">> : o \in {p \in synth : KeyOf[p] = k}}

----------------------------------------------------------------------------
(* Submit.                                                                 *)

(* The closing check before the lock.                                      *)
SubmitEnter(o) ==
    /\ At(o, "new")
    /\ Goto(o, IF daemon = "serving" THEN "submitting" ELSE "done")
    /\ UNCHANGED <<disk, born, link, real, synth, memory, ctx, result, answer, others, dispatched>>

(* checkInFlightAndDisk: the record of the operation in flight, else the   *)
(* newest one of the window, under this key.                               *)
Known(o) ==
    LET same == {i \in Newest(ListLimit) : KeyOf[born[i][1]] = KeyOf[o]}
    IN  IF inFlight[KeyOf[o]] # None THEN {<<inFlight[KeyOf[o]], "own">>}
        ELSE {born[i] : i \in {j \in same : \A h \in same : h <= j}}

(* saveReconstructedRecord: the terminal record rebuilt of a receipt is    *)
(* named after it and written once.  It is dated when the receipt says the *)
(* execution started: for a synthetic one that is the CreatedAt of the     *)
(* operation, for a real one any time after it.                            *)
Rebuilt(r) ==
    LET own == CHOOSE i \in 1 .. Len(born) : born[i] = <<r[1], "own">>
        after == IF r[2] = "synthetic" THEN {own - 1, own} ELSE own .. Len(born)
    IN  IF \E i \in 1 .. Len(born) : born[i] = r THEN {born}
        ELSE {SubSeq(born, 1, i) \o <<r>> \o SubSeq(born, i + 1, Len(born)) : i \in after}

(* A retry is answered with the record it finds.  checkCachedReceipt       *)
(* answers from a receipt alone, whichever the directory lists first; when *)
(* the rebuilt record cannot be saved it returns an error.                 *)
Attach(o) ==
    /\ At(o, "submitting")
    /\ daemon = "serving"
    /\ \/ /\ \E r \in Known(o) :
               answer' = [answer EXCEPT ![o] = <<r[1], IF r[2] = "own" THEN link[r[1]] ELSE r[2]>>]
          /\ UNCHANGED born
       \/ /\ Known(o) = {}
          /\ \E r \in Receipted(KeyOf[o]) :
               /\ born' \in Rebuilt(r) \cup (IF faulty THEN {born} ELSE {})
               /\ answer' \in (IF born' \in Rebuilt(r) THEN {[answer EXCEPT ![o] = r]} ELSE {})
                             \cup (IF faulty THEN {answer} ELSE {})
    /\ Goto(o, "done")
    /\ UNCHANGED <<disk, link, real, synth, memory, ctx, result, others, dispatched>>

(* Mutant: the receipts are not searched.                                  *)
FreshRecords(o) == Known(o) = {}

(* Neither a record nor a receipt answers the submission.                  *)
Fresh(o) == Known(o) = {} /\ Receipted(KeyOf[o]) = {}

(* reserveCapacity: a slot of m.capacity is free.                          *)
CapacityLeft == used < Capacity

(* Rejected under the lock: closing meanwhile, no capacity, no approval,   *)
(* or no record.  A record whose directory sync fails stays on disk.       *)
Reject(o) ==
    /\ At(o, "submitting")
    /\ \/ daemon # "serving" /\ UNCHANGED <<disk, born>>
       \/ daemon = "serving" /\ Fresh(o) /\ ~CapacityLeft /\ UNCHANGED <<disk, born>>
       \/ /\ daemon = "serving" /\ Fresh(o) /\ CapacityLeft /\ faulty
          /\ \/ UNCHANGED <<disk, born>>
             \/ /\ SaveRecord(o, "pending")
                /\ born' = Append(born, <<o, "own">>)
    /\ Goto(o, "done")
    /\ UNCHANGED <<link, real, synth, memory, ctx, result, answer, others, dispatched>>

(* initializeNewRecord and the launch of the goroutine.                    *)
Admit(o) ==
    /\ At(o, "submitting")
    /\ daemon = "serving"
    /\ Fresh(o)
    /\ CapacityLeft
    /\ SaveRecord(o, "pending")
    /\ born' = Append(born, <<o, "own">>)
    /\ cancels' = cancels \cup {o}
    /\ inFlight' = [inFlight EXCEPT ![KeyOf[o]] = o]
    /\ used' = used + 1
    /\ answer' = [answer EXCEPT ![o] = <<o, "none">>]
    /\ Goto(o, "start")
    /\ UNCHANGED <<link, real, synth, finErrs, ctx, result, others, dispatched>>

----------------------------------------------------------------------------
(* executeOperation.                                                       *)

(* saveAndPublishState from the OnAdmitted and OnRunning hooks.  Neither   *)
(* the save nor the event looks at the context; a storage error, before or *)
(* after the rename, ends the execution without a receipt.                 *)
Hook(o, from, to) ==
    /\ At(o, from)
    /\ \/ /\ SaveRecord(o, to)
          /\ Goto(o, to)
          /\ UNCHANGED result
       \/ /\ faulty
          /\ UNCHANGED disk \/ SaveRecord(o, to)
          /\ Goto(o, "returned")
          /\ result' = [result EXCEPT ![o] = "bare"]
    /\ UNCHANGED <<born, link, real, synth, memory, ctx, answer, others, dispatched>>

(* executeMutation ends before the provider: a denial leaves a receipt, so *)
(* does an expired budget or a cancellation; a conflict or a storage error *)
(* leaves none.                                                            *)
FailEarly(o) ==
    /\ At(o, "start") \/ At(o, "running")
    /\ \/ /\ \E status \in {"denied", "aborted"} :
               /\ status = "denied" => pc[o] = "start"
               /\ real' = [real EXCEPT ![o] = status]
          /\ result' = [result EXCEPT ![o] = "error"]
       \/ /\ pc[o] = "start" \/ faulty
          /\ result' = [result EXCEPT ![o] = "bare"]
          /\ UNCHANGED real
    /\ Goto(o, "returned")
    /\ UNCHANGED <<disk, born, link, synth, memory, ctx, answer, others, dispatched>>

Dispatch(o) ==
    /\ At(o, "running")
    /\ ctx[o] = "live"
    /\ dispatched' = dispatched \cup {o}
    /\ Goto(o, "provider")
    /\ UNCHANGED <<disk, born, link, real, synth, memory, ctx, result, answer, others>>

(* The provider returns and persistOutcome writes the receipt.  A write    *)
(* that fails may have reached the disk; its identity is dropped.          *)
ProviderReturns(o) ==
    /\ At(o, "provider")
    /\ \E status \in {"success", "failed", "aborted"} :
         /\ status = "success" => ctx[o] = "live"
         /\ \/ /\ real' = [real EXCEPT ![o] = status]
               /\ result' = [result EXCEPT ![o] = IF status = "success" THEN "ok" ELSE "error"]
            \/ /\ faulty
               /\ real' \in {real, [real EXCEPT ![o] = status]}
               /\ result' = [result EXCEPT ![o] = "bare"]
            \/ /\ faulty
               /\ real' = [real EXCEPT ![o] = status]
               /\ result' = [result EXCEPT ![o] = "error"]
    /\ Goto(o, "returned")
    /\ UNCHANGED <<disk, born, link, synth, memory, ctx, answer, others, dispatched>>

(* finalizeOperationState: the context decides before the result does.     *)
FinalState(o) == IF ctx[o] = "cancelled" THEN "cancelled"
                 ELSE IF ctx[o] = "late" \/ result[o] # "ok" THEN "failed"
                 ELSE "completed"

(* Mutant: a terminal record that cannot be saved is not reported.         *)
SaveFinalSilent(o) ==
    LET saved == /\ SaveRecord(o, FinalState(o))
                 /\ link' = [link EXCEPT ![o] =
                        IF result[o] \in {"ok", "error"} THEN "real" ELSE "none"]
    IN
    /\ At(o, "returned")
    /\ saved \/ (faulty /\ UNCHANGED <<disk, link>>)
    /\ Goto(o, "saved")
    /\ UNCHANGED <<born, real, synth, inFlight, cancels, used, finErrs, ctx, result, answer, others, dispatched>>

SaveFinal(o) ==
    LET saved == /\ SaveRecord(o, FinalState(o))
                 /\ link' = [link EXCEPT ![o] =
                        IF result[o] \in {"ok", "error"} THEN "real" ELSE "none"]
    IN
    /\ At(o, "returned")
    /\ \/ saved /\ UNCHANGED finErrs
       \/ /\ faulty
          /\ saved \/ UNCHANGED <<disk, link>>
          /\ finErrs' = finErrs \cup {o}
    /\ Goto(o, "saved")
    /\ UNCHANGED <<born, real, synth, inFlight, cancels, used, ctx, result, answer, others, dispatched>>

PublishFinal(o) ==
    /\ At(o, "saved")
    /\ \/ UNCHANGED finErrs
       \/ faulty /\ finErrs' = finErrs \cup {o}
    /\ Goto(o, "published")
    /\ UNCHANGED <<disk, born, link, real, synth, inFlight, cancels, used, ctx, result, answer, others, dispatched>>

(* The deferred calls: unregister under the lock, then free the slot; with *)
(* the goroutine its context and its result are gone.                      *)
Unregister(o) ==
    /\ At(o, "published")
    /\ cancels' = cancels \ {o}
    /\ inFlight' = [inFlight EXCEPT ![KeyOf[o]] = None]
    /\ Goto(o, "leaving")
    /\ UNCHANGED <<disk, born, link, real, synth, used, finErrs, ctx, result, answer, others, dispatched>>

Leave(o) ==
    /\ At(o, "leaving")
    /\ used' = used - 1
    /\ Goto(o, "gone")
    /\ ctx' = [ctx EXCEPT ![o] = "live"]
    /\ result' = [result EXCEPT ![o] = "none"]
    /\ UNCHANGED <<disk, born, link, real, synth, inFlight, cancels, finErrs, answer, others, dispatched>>

(* The operation's own deadline passes.                                    *)
Deadline(o) ==
    /\ Up /\ pc[o] \in Live /\ ctx[o] = "live"
    /\ ctx' = [ctx EXCEPT ![o] = "late"]
    /\ UNCHANGED <<disk, born, link, real, synth, memory, pc, result, answer, others, dispatched>>

----------------------------------------------------------------------------
(* Cancel.  It reads the record, then looks for the live context; when     *)
(* there is none it takes the process for dead and overwrites the record   *)
(* it read.                                                                *)

CancelAt(c, l) == Up /\ cpc[c] = l
CancelGoto(c, l) == cpc' = [cpc EXCEPT ![c] = l]

CancelRead(c) ==
    /\ CancelAt(c, "new")
    /\ disk[CancelOf[c]] # "none"
    /\ CancelGoto(c, IF disk[CancelOf[c]] \in Terminal THEN "done" ELSE "read")
    /\ UNCHANGED <<disk, born, link, real, synth, memory, pc, ctx, result, answer, scan, daemon, crashes, faulty, dispatched>>

CancelLive(c) ==
    LET o == CancelOf[c] IN
    /\ CancelAt(c, "read")
    /\ IF o \in cancels
         THEN /\ ctx' = [ctx EXCEPT ![o] = IF @ = "live" THEN "cancelled" ELSE @]
              /\ CancelGoto(c, "done")
         ELSE UNCHANGED ctx /\ CancelGoto(c, "receipt")
    /\ UNCHANGED <<disk, born, link, real, synth, memory, pc, result, answer, scan, daemon, crashes, faulty, dispatched>>

CancelReceipt(c) ==
    /\ CancelAt(c, "receipt")
    /\ \/ synth' = synth \cup {CancelOf[c]} /\ CancelGoto(c, "save")
       \/ faulty /\ synth' \in {synth, synth \cup {CancelOf[c]}} /\ CancelGoto(c, "done")
    /\ UNCHANGED <<disk, born, link, real, memory, pc, ctx, result, answer, scan, daemon, crashes, faulty, dispatched>>

CancelSave(c) ==
    /\ CancelAt(c, "save")
    /\ \/ /\ SaveRecord(CancelOf[c], "cancelled")
          /\ link' = [link EXCEPT ![CancelOf[c]] = "synthetic"]
       \/ faulty /\ UNCHANGED <<disk, link>>
    /\ CancelGoto(c, "done")
    /\ UNCHANGED <<born, real, synth, memory, pc, ctx, result, answer, scan, daemon, crashes, faulty, dispatched>>

----------------------------------------------------------------------------
(* Shutdown: closing, then the sweep under the lock, then the drain.       *)

records == <<disk, born, link, real, synth>>

Close == /\ daemon = "serving"
         /\ daemon' = "closing"
         /\ UNCHANGED <<records, memory, pc, ctx, result, answer, cpc, scan, crashes, faulty, dispatched>>

Sweep == /\ daemon = "closing"
         /\ daemon' = "swept"
         /\ ctx' = [o \in Op |-> IF o \in cancels /\ ctx[o] = "live"
                                   THEN "cancelled" ELSE ctx[o]]
         /\ UNCHANGED <<records, memory, pc, result, answer, cpc, scan, crashes, faulty, dispatched>>

Drain == /\ daemon = "swept"
         /\ \A o \in Op : pc[o] \notin Live
         /\ daemon' = "drained"
         /\ UNCHANGED <<records, memory, pc, ctx, result, answer, cpc, scan, crashes, faulty, dispatched>>

----------------------------------------------------------------------------
(* Crash, restart and ReconcileCrashedOperations.                          *)

(* The process ends: a crash, an exit after Shutdown, or a startup that    *)
(* fails on an error of the reconciliation.                                *)
Crash == /\ daemon # "down"
         /\ crashes < MaxCrashes
         /\ crashes' = crashes + 1
         /\ daemon' = "down"
         /\ pc' = [o \in Op |-> IF pc[o] = "new" THEN "new" ELSE "gone"]
         /\ cpc' = [c \in Canceller |-> IF cpc[c] = "new" THEN "new" ELSE "done"]
         /\ inFlight' = [k \in Key |-> None]
         /\ cancels' = {} /\ used' = 0 /\ finErrs' = {} /\ scan' = None
         /\ ctx' = [o \in Op |-> "live"]
         /\ result' = [o \in Op |-> "none"]
         /\ UNCHANGED <<records, answer, faulty, dispatched>>

Restart == /\ daemon = "down"
           /\ daemon' = "starting"
           /\ UNCHANGED <<records, memory, pc, ctx, result, answer, cpc, scan, crashes, faulty, dispatched>>

(* The operations whose records the reconciliation reads; a rebuilt record *)
(* is terminal, and takes a place in the window.                           *)
Scanned == {o \in Op : \E i \in Newest(ScanLimit) : born[i] = <<o, "own">>}

(* Mutant: running records only.                                          *)
UnsettledRunning == {o \in Scanned : disk[o] = "running"}

(* The records a reconciliation has to settle.                             *)
Unsettled == {o \in Scanned : disk[o] \notin Terminal}

(* ensureSyntheticReceipt: it looks at the receipt the record names, and   *)
(* not for one under the key.                                              *)
ReconcileReceipt(o) ==
    /\ daemon = "starting" /\ scan = None
    /\ o \in Unsettled
    /\ synth' = synth \cup {o}
    /\ scan' = o
    /\ UNCHANGED <<disk, born, link, real, memory, pc, ctx, result, answer, cpc, daemon, crashes, faulty, dispatched>>

ReconcileSave(o) ==
    /\ daemon = "starting" /\ scan = o
    /\ SaveRecord(o, "cancelled")
    /\ link' = [link EXCEPT ![o] = "synthetic"]
    /\ scan' = None
    /\ UNCHANGED <<born, real, synth, memory, pc, ctx, result, answer, cpc, daemon, crashes, faulty, dispatched>>

Serve == /\ daemon = "starting"
         /\ scan = None /\ Unsettled = {}
         /\ daemon' = "serving"
         /\ UNCHANGED <<records, memory, pc, ctx, result, answer, cpc, scan, crashes, faulty, dispatched>>

----------------------------------------------------------------------------
Submit(o) == Attach(o) \/ Reject(o) \/ Admit(o)

Execute(o) == \/ Hook(o, "start", "admitted") \/ Hook(o, "admitted", "running")
              \/ FailEarly(o) \/ Dispatch(o)
              \/ SaveFinal(o) \/ PublishFinal(o) \/ Unregister(o) \/ Leave(o)

CancelStep(c) == CancelLive(c) \/ CancelReceipt(c) \/ CancelSave(c)

Recover == Restart \/ Serve \/ \E o \in Op : ReconcileReceipt(o) \/ ReconcileSave(o)

Next == \/ \E o \in Op : SubmitEnter(o) \/ Submit(o) \/ Execute(o)
                         \/ ProviderReturns(o) \/ Deadline(o)
        \/ \E c \in Canceller : CancelRead(c) \/ CancelStep(c)
        \/ Close \/ Sweep \/ Drain \/ Crash \/ Recover

Spec == Init /\ [][Next]_vars

----------------------------------------------------------------------------
(* Properties.                                                             *)

(* The bookkeeping in memory is exactly the goroutines that run: a key has *)
(* at most one, it is the one retries attach to and Cancel finds, and the  *)
(* slots taken are those of the goroutines.                                *)
InFlightIsLive ==
    Up => /\ \A o \in Op : o \in cancels <=> pc[o] \in Executing
          /\ \A o \in Op : pc[o] \in Executing <=> inFlight[KeyOf[o]] = o
          /\ used = Cardinality({o \in Op : pc[o] \in Live})

(* After the sweep of Shutdown no operation runs with a live context: none *)
(* slips in between the closing flag and the sweep.                        *)
SweepReachesAll ==
    daemon \in {"swept", "drained"} =>
        \A o \in Op : pc[o] \in Executing => ctx[o] # "live"

(* A drained shutdown leaves every admitted operation settled on disk, or  *)
(* with a finalization error that Shutdown reports.                        *)
DrainedIsSettled ==
    daemon = "drained" =>
        \A o \in Op : answer[o] = <<o, "none">> => disk[o] \in Terminal \/ o \in finErrs

(* types.go:20, ErrOperationTerminal: a completed operation cannot be      *)
(* cancelled.                                                              *)
CompletedIsFinal ==
    [][\A o \in Op : disk[o] = "completed" => disk'[o] = "completed"]_vars

(* threat-model.md, "Completed Operation": a retry is answered with the    *)
(* receipt of the prior execution, not with another one made up for it.    *)
RetryGetsReceipt ==
    \A o, q \in Op : answer[o] = <<q, "synthetic">> => real[q] # "success"

(* No key is executed twice, although Submit only looks at the newest      *)
(* records: an older one is found by its receipt.  What remains is an      *)
(* execution whose receipt could not be written, retried when its record   *)
(* has left the window (store.go:148): then nothing tells of it.           *)
OneDispatchPerKey ==
    \A i, j \in 1 .. Len(born) :
        LET o == born[i][1]
            q == born[j][1]
        IN  /\ i < j /\ o # q /\ born[i][2] = "own" /\ born[j][2] = "own"
            /\ KeyOf[o] = KeyOf[q]
            /\ o \in dispatched /\ q \in dispatched
            => faulty /\ real[o] = "none" /\ j - i > ListLimit

(* No unfinished record is forgotten: while the daemon is up it has the    *)
(* goroutine that will settle it, whatever crashed, was cancelled or raced *)
(* the shutdown; a new daemon serves only when it has settled the others.  *)
NobodyForgotten ==
    Up /\ ~faulty => \A o \in Op : disk[o] \in States \ Terminal => pc[o] \in Executing

(* What the manager keeps in memory and on disk of the operations it has   *)
(* admitted, also across Shutdown.                                         *)
OperationsHold == TypeOK /\ InFlightIsLive /\ SweepReachesAll /\ NobodyForgotten
=============================================================================
