# Verification of agent-machine-control

TLA+ models of the parts of this program that decide whether a machine is changed once, by one
actor at a time, with its approval and its evidence, and of what its callers are told; TLC runs on
small instances; TLAPS proofs for every instance. Paths below are relative to `src/internal/` unless
they begin with `docs/`.

## The system

`amc` (CLI), `amc-mcp` (MCP adapter) and `amcd` (daemon) let agents start, stop, checkpoint and
restore Hyper-V machines, open terminal sessions into guests, and look at and act on their consoles.
Any number of processes, in Windows and in WSL, share one state directory and nothing else. There is
no database: locks are directories, leases, receipts, approvals, journals and operation records are
files written by write-sync-rename or exclusive creation, and the audit and event logs are
append-only files.

| Component | State | Operations | Hard behaviour | What makes it correct |
|---|---|---|---|---|
| Transition lock (`lease/lock.go`; the same algorithm in `audit/lock.go`) | a directory, `owner.json` | acquire, reclaim of a dead owner, release | several processes, death at any step, cancellation, two-step removal | exclusion while nobody dies; an overlap is noticed; every call returns |
| Lease manager (`lease/manager.go`, `reclaim.go`) | lease file, generation file | Acquire, Release, ReclaimStaleLeases | expiry against liveness, two runtimes, two files written one after the other | a live holder keeps its lease; generations increase; the dead are cleared |
| Mutation pipeline (`app/recovery_*.go`) | none of its own; receipts, approvals, audit log, lease | executeMutation | ten steps on five stores, cancellation between any two, compensation, daemon and `--direct` CLI at once | a dispatch has its intent and its approval; early returns restore |
| Evidence: audit log and receipts (`audit/`, `receipt/`) | log behind its lock, receipt files | AppendIntent, EnsureTerminalOutcome, EnsureContext, startup reconciliation | torn lines, a failure after the rename, two reclaimers | one terminal line per receipt, no line without its receipt |
| Approvals (`approval/`, `app/*approval*.go`), policy (`policy/`) | issued and consumed record | Issue, reissue, resolve, Evaluate, MarkConsumed, ReleaseUnexecuted | torn records, crash between record and evidence, rollback points that change | the grant answered is the grant on disk; one effect, the one it names |
| Operation manager (`operations/`) | records on disk; in-flight keys, cancel functions, slots in memory | Submit, execute, Cancel, Shutdown, crash reconciliation | goroutines, TOCTOU, idempotent retries, crashes between two files | one dispatch per key; nobody escapes the sweep; nothing unfinished is forgotten |
| Session scrollback (`sessions/buffer.go`, `wait.go`), sanitizer (`guest/ssh/sanitize.go`, `terminal_filter.go`) | ring of chunks, change channels; held-back text | Append, ReadAfter, WaitRegex; Push, Flush | eviction between reads, lost wake-ups; secrets and escapes cut anywhere | no silent gap; the way the stream is cut cannot be seen in the output |
| Session manager (`sessions/manager.go`, `lifecycle.go`, `open_failure.go`, `shutdown.go`) | sessions, lanes, pending cleanups, session files | Open, Write, Control, Close, natural exit, Shutdown | close lanes against timeouts, cleanup against shutdown | every channel has someone who closes it; the file tells the end |
| Session coordination (`app/session_*.go`, `sessions/mutation_*.go`) | flights, reservation journal | admit, reserve, execute, finalize, retry, reconcile | crash between effect and finalization, calls that share a flight | one effect, one answer, no verdict that lies |
| Target coordinator (`app/target_*.go`, `target/`) | default target, journal | Mutate, ReconcileStartup, approvals | effect known only by comparing states | the same promise |
| Daemon (`daemon/`, `daemoncli/`) | singleton lock, endpoint, admission gate | Start, Shutdown, handlers | startup and shutdown order, reclaim across deaths | one owner; recovery beside nobody's work; a stop ends |
| Bootstrap (`bootstrap/`, `app/bootstrap_*.go`) | scheduled task, receipts | ensure, start, stop, remove | commands racing a daemon and each other | success means what was asked for |
| Event hub (`events/`) | streams, subscribers, event files | Publish, Subscribe, Close, compaction | overflow, replay, gaps, restart | no acknowledged event is missed unawares |
| Console (`app/console_*.go`), desktop (`app/desktop.go`, `guest/desktop/`) | lab grants, recordings | issue, execute, revoke; record, publish, read, prune; action | revocation against dispatch, readers without a lock, lost answers | what is answered is true and stays true |
| Trusted inventory (`app/trusted_*.go`) | host registry, machine index, aliases | RefreshAll, local refresh, ReplaceHosts, ResolveMachine | feeder, workers and collector against an ending context | every host one result; a reference resolves to what was listed |

How they meet: the daemon's handlers call the operation manager, the session service, the target
coordinator and the console services. The first calls the recovery service, whose `executeMutation`
takes the lease manager's lease, which is guarded by the transition lock; the manager's lifecycle
hooks run inside `executeMutation`. Sessions and targets have journals of their own and share the
approval, receipt and audit stores with the pipeline. `amc --direct` calls the recovery service in its
own process. At startup the daemon takes the singleton lock, reconciles journals, records and receipts,
and only then serves. `PROJECT.json` lists every component, the ones left out too, and every hazard at
its line.

## Modules

| Module | Models | Used by |
|---|---|---|
| `TransitionLock` | `lease/lock.go` | `MCTransitionLock`, `GuardProofs` |
| `Lease` | `lease/manager.go`, `lease/reclaim.go` | `MCLease`, `StreamsProofs` |
| `Mutation` | `app/recovery_mutation.go`, `recovery_admission.go`, `recovery_deadline.go` | `MCMutation`, `MutationProofs` |
| `Evidence` | `audit/`, `receipt/` | `MCMutation`, `MutationProofs` |
| `Operations` | `operations/` | `MCOperations`, `OperationsProofs` |
| `RingBuffer`, `EventHub`, `Sanitizer`, `Sessions` | `sessions/`, `events/`, `guest/ssh/` | `MCStreams`, `StreamsProofs` (without `Sanitizer`) |
| `JournaledMutation` | abstract: what a mutation journal promises | refined by `SessionMutation` and `Targets`; `TargetsProofs` |
| `SessionMutation` | `app/session_*.go`, `sessions/mutation_*.go` | `MCSessionMutation`, `SessionMutationProofs` |
| `Targets` | `app/target_*.go`, `target/` | `MCTargets`, `TargetsProofs` |
| `Daemon` | `daemon/`, `daemoncli/cli.go` | itself run, `DaemonProofs`, extended by `Bootstrap` |
| `Bootstrap` | `app/bootstrap_*.go`, `bootstrap/` over `Daemon` | `MCBootstrap`, `DaemonProofs` |
| `Policy` | `policy/` as functions | extended by `Approvals`; `GuardProofs` |
| `Approvals` | `app/operation_approval*.go`, `session_approval_issuance.go`, `approval/` over `Policy` | `MCApprovals`, `GuardProofs` |
| `LabGrants`, `Recorder`, `Inventory`, `GuestActions` | `app/console_*.go`, `app/trusted_*.go`, `guest/desktop/`, the desktop path through client and MCP | `MCConsole`, `ConsoleProofs` |

`MCMutation`, `MCStreams` and `MCConsole` put components side by side that share no state: a variable
`part` says in the initial state which of them a behaviour is about, and the others rest. That is one
TLC run for several independent state spaces, not a composition. The compositions are `Bootstrap` over
`Daemon` and `Approvals` over `Policy`.

Operators whose comment begins with "Mutant", or whose name is that of the operator below them with a
suffix (`ReclaimableUnchecked` above `Reclaimable`), are plausible mistakes in that operator; no
specification uses them. Each is substituted for its original to confirm that a property notices.

Failures: `faulty` (`mode` in `Sessions`) is chosen in the initial state and never changes, so behaviours
with and without failing I/O are both explored and a property that needs the absence of failures says
so; in `Mutation` any call of a store may fail, always; the other modules count failures and deaths up to
`MaxFaults`, `MaxDeaths` or `MaxCrashes`. A write that fails has, where the code syncs after it renames,
maybe taken effect. Processes die; power loss, which could undo a rename that was not synced, is not
modelled. Where the code itself makes an exception to what it promises, a history variable says when
(`blind`, `left` in `Mutation`, `stolen` in `SessionMutation`, `left` in `Targets`) and the property holds
of everything else.

**TransitionLock.** A call of `withLock` walks through `pc`; each step is one system call (mkdir,
open, write, unlink, rmdir) or one test of the context, because other processes run in between. `dir`,
`owner` and `full` are what is on disk: the directory, whose `owner.json` is in it, and whether it has
been written. `seen` is the record a reclaimer has read. `met` records which calls were in the section
together.

**Lease.** `lease` and `genFile` are the two files, `mutex` the transition lock, taken as exclusive.
`at` is the time read before the wait for the lock, which is the one that `verifyCanAcquire` compares.
The 64-bit generation is `0 .. MaxGen`, incremented modulo its size, so that a missing overflow check
would show.

**Mutation.** One step per call that touches a shared store. The lease is what module `Lease` proves
about it: held while its process lives. The policy's verdict is a choice: denied, allowed, or escalated
to a class that needs approval. `apart` says whether the caller keeps the runs of one key apart: the
operation manager does, two processes do not. The idempotency lookup, the compensation and the release
have time limits of their own, apart from the caller's context: a lookup that runs out of it makes its
run `blind`, and the run ends with an aborted receipt whatever the key has. A store may fail before or
behind its effect; `left` is what a run could not give back for that reason.

**Evidence.** Each process runs one command with the one key, or the startup reconciliation. The lock is
the transition lock's algorithm at a coarser grain; `displaced` records that a reclaimer removed a lock
other than the one it had read, at either of its two removals: the owner record, or the directory
that another process has made meanwhile. `garbled` is the tail of the log: complete, incomplete, or a malformed
line in the middle.

**Operations.** `Submit` holds the manager's mutex and is one step after its unlocked check of the
closing flag. `born` is the order in which `ListRecords` sees the records, rebuilt ones included.
`executeMutation` appears as its hooks, dispatch and receipt. The reconciliation writes a receipt and
then a record, and may crash in between.

**RingBuffer.** The log of chunk sizes never shrinks; `first` is the oldest chunk that has not been
evicted. A reader polls with its cursor; `got` and `told` are what it was given and told is lost.

**EventHub.** One stream. A publisher holds `Hub.mu` for reading from its first look at the stream until
it has served the global subscribers, `stream.mu` for the first half only; `Close` works between the
two. The file's lines, its compaction and a torn last line survive a restart, the rest does not. When a
subscriber's buffer is full it is sent `Overflow(e)`, the notice for event `e`, and closed; the notice
carries the next number as its id, which the client sends back when it reconnects (`Id`), so it resumes
behind the event that did not fit and the one after it.
`LaterThan` is the replay loop of `Subscribe`, written as a recursive function so that it can be reasoned
about.

**Sanitizer.** Bytes are named by what the code tells apart: the introducers and terminators of escape,
CSI and OSC sequences and of control strings (DCS, SOS, PM and APC, which the filter treats alike, are
`P` and `dcs8`), split runes, and what an assignment or a configured secret is made of. `Push` is the
terminal filter, the safe cut and the redaction of what is released; `Whole` is the reference: the whole
stream at once. `LooseEnds` and `AgreesWith` are the two ways in which the output may differ from it.

**Sessions.** A session is named after the `Open` that makes it. `lane` is the close lane's holder, `fpc`
how far its finalization is, `waiter` the goroutine that waits for the channel's end, `pend` and `sup`
the supervised cleanups of failed opens, `snap` what Shutdown has yet to visit.

**SessionMutation.** Calls of one flight share an execution; the journal is keyed by the idempotency key
alone. A call goes through approval, lease, policy, reservation, execution and the three finalization
steps; a crash is followed by the startup reconciliation, which decides what it cannot know as
`unknown`. The reservation is the lookup, the exclusive creation of the marker, its sync, and on an
error the removal of whatever is at the path, each a step of its own. The contexts of the calls in
`Impatient` may end at any time. `stolen` are the operations whose marker a call of another one removed.

**Targets.** `Mutate` holds the coordinator's mutex; approvals are issued and expire meanwhile. The
document is read again and compared (`Check`) before the approval is consumed; a read that fails returns
and leaves the pending record. The startup reconciliation compares the document with the prior and the
desired state of each record. `left` are the keys whose record no request is at work on while it is
pending or without its receipt (`Orphan`).

**JournaledMutation.** A key is free, reserved or decided. An agent brings the effect about at most once
and only under a reservation; a reservation without effect may be cancelled; the decision is the truth
or `unknown`. In both refinements the phase is read off the journal record, `applied` is the history of
effects, and the outcome is what the record says.

**Daemon.** A process is one incarnation. The guard is an operating-system lock that death frees; the
lock directory is `Free`, `Bare` (no owner record) or its owner's. A request is checked, admitted and
dispatched at a process, and becomes managed work there.

**Bootstrap.** Commands are processes that may be killed; a key that ran may run again. The scheduled
task is absent, exact or drifted and launches daemon processes of module `Daemon`. `Healthy` is four
steps (`probe`): lock and endpoint record are read together under the singleton guard, which is then
given back; the owner's liveness, the endpoint's discovery and the health request follow, and daemons may
end and start between them. `saw` is the daemon the record named, `held` the owner of the lock at that
moment.

**Approvals, Policy.** All requests of a behaviour derive the same approval id. Checkpoints come, go and
move (`Drift`), so the class of the operation may change between issue and use. `Policy` states each
stage of `Evaluate` in its order; `Sanctioned` says what it promises without the order.

**LabGrants.** A grant is three documents created under one lease. An executor derives an approval of
its own, is admitted, enters the enrolment fence, rechecks the grant and dispatches.

**Recorder.** A publication is marker, rename, directory sync, removal of the marker; readers list, read
and answer without a lock.

**Inventory.** Feeder, workers, collector and the two channels of a fleet refresh, beside local
refreshes and edits of the registry and the aliases. Before the queries the disabled hosts of the
snapshot are marked, one lock for each, and a host that has left the registry meanwhile ends the refresh
with an error (`ApplyDisabled`). A `Reference` is a locator, a GUID, a name or "the one local machine",
as in `ResolveMachine` and `ResolveSingleLocal`. Today's callers build the registry once;
`ReplaceHosts` and `SetMachineAliases` are modelled as the exported operations they are.

**GuestActions.** Exact retries of one desktop action, from the MCP tool to the guest and back. An error
is the set of causes that `errors.Is` finds in it, so the mapping through the error envelope can be
followed to what the caller is told, with or without a receipt; `run` is what the provider call alone
came to.

## Runs

Bounds are constants of the `.cfg` files. Deadlock is checked for the transition lock only; the other
systems stop when their sessions, runs, requests or chunks are used up.

| Run | Shows |
|---|---|
| `lock_faults` | three processes, one may die, with and without failing calls: exclusion until somebody dies; an overlap is reported to one side; every call returns |
| `lock_displaced` (violation) | `Exclusive` fails: the finding below |
| `lease_faults` | three sessions, two runtimes, a scan, two deaths, with and without failing writes: a live holder keeps its lease; generations increase; a scan clears the leases of the dead |
| `mutation_faults` | daemon and direct CLI, one crash, every store call may fail or run out of time: a dispatch is backed by intent and approval, an approval is spent once; an early return restores unless the store failed it; runs of a key that are kept apart leave one receipt, and a blind one at most that of an abort. Beside it three commands on audit log and receipts |
| `operations_faults` | three submissions of two keys at capacity one and a list window of one record, Cancel, Shutdown, a crash, failing writes (where writes fail, the third submission or the Cancel takes place, not both): the maps are those of the goroutines, the sweep reaches all, nothing unfinished is forgotten, what is drained is settled or reported, a key is dispatched once unless the first receipt was lost and its record has left the window |
| `streams` | a reader and a waiter on a three-byte scrollback; two publishers, a subscriber and a global one with buffers of one event, overflow notices included; every stream of four terminal controls, five bytes of control strings, six of assignments and secrets or seven of lines that overflow, in chunks of one or two; two opens of one key with a write, a close, a channel end and a Shutdown |
| `session_mutation` | three calls of two operations under one key, a fault, a crash, contexts that end: one answer, recorded effects, and the refinement of `JournaledMutation` until a marker is stolen |
| `targets_faults` | two enrolments of one machine and a clear, three tries, a fault at any point but `effect`, a crash: approved and recorded changes, and the refinement until a record is left to itself |
| `daemon_lifecycle` | three daemons, two requests, a death, a fault: one owner, recovery alone, a stop ends |
| `bootstrap_commands` | two commands, each run twice, over two daemon processes, with Healthy's reads apart: what a success means |
| `approvals` | two issuers, two users, one drift, a crash, a fault; and the policy over every input of `Inputs` |
| `console` | three recordings at a capacity of one; three hosts, of which two may be absent, disabled or enabled at first, two names and two workers, of which one can always run; lab grants with two issuers, an executor, a revoker and a plain caller; a guarded action and its retry |

Why the bounds are enough to be interesting: three calls are needed for the lock's displacement (the
dead holder, the reclaimer, the late reclaimer), and likewise three commands in `Evidence` and three
daemons; three sessions for a lease that changes hands while a third, in another runtime, watches; three
submissions for a key that has left the list window. `MaxGen` is reached, so the overflow check is
exercised; `TTL = 1` and `MaxTime = 1` let a lease expire under a living holder. In the ring, capacity 3,
limit 2 and chunks of 1 and 2 bytes make every comparison fall on either side of its boundary; in the
hub, one-event buffers overflow with the third event and the file is compacted; six bytes hold a whole
assignment or the secret with something on both sides, seven a line that overflows with text behind it,
five a control string with an escape inside it; `Limit = 2 * MaxFrames + 1` keeps the code's ratio
of 61 to 30. One crash and one fault each show what one failure does at any point; two at once are
beyond these runs, except where a module's bound says otherwise.

`PolicyIsSound` ranges over inputs with at most one thing wrong besides rollback point and approval,
because a second one would only be refused for the first.

`targets_faults` lets I/O fail at every point but `effect`, where `ChangeIsApproved` does not hold: an
effect that is not recorded may be taken for none at the next start, see `targets_cancel` below.

### Fairness

- `TransitionLock` (`EveryCallReturns`): a call's own steps, and its deadline. The wait loop sleeps 10 ms
  and its deadline is at most 5 s away (`lease/lock.go:38`).
- `Lease` (`ScanClearsDead`): a task's own steps. Ticks and deaths are never forced.
- `Daemon` (`StopCompletes`): a process that has begun keeps running, and its managed work ends. The
  second is what the managers' own shutdowns provide: they cancel every context, and a provider call
  returns once its context has ended.

The other specifications state no fairness; their properties are safety properties.

## Finding

`lease/lock.go:139` (run `lock_displaced`): two waiters that both saw the same dead owner. The first
reclaims and enters; the second removes the first one's owner record and directory and enters too.
`lease/exclusive.go:8` promises that "a living holder is never displaced by elapsed time". The displaced
call gets an error from its release, after its section has run (`OverlapIsReported`). The lease
properties take the lock as exclusive, so they hold up to this window.

## Further counterexamples

Configurations that are not among the runs; TLC finds each property violated. They document where a
sentence of the repository and its code part.

| Configuration (module) | Property | What happens |
|---|---|---|
| `operations_cancel_race` (`MCOperations`) | `CompletedIsFinal` | `operations/manager.go:391`: Cancel overwrites a record that completed after it was read |
| `operations_crash_receipt` (`MCOperations`) | `RetryGetsReceipt` | `operations/reconcile.go:91`: after a crash between receipt and record a retry is answered with a synthetic aborted receipt although the execution succeeded |
| `ring_missed_match` (`RingBuffer`) | `MatchIsFound` | `sessions/wait.go:82`: WaitRegex does not look past the first 64 KiB after its cursor |
| `audit_duplicate` (`Evidence`) | `EnsureIsIdempotent` | `audit/lock.go:129`: the displacement of the transition lock, in the audit lock; two terminal lines for one receipt |
| `session_stolen` (`MCSessionMutation`) | `EffectIsReserved` | `sessions/mutation_journal.go:280`: two operations under one key. One looks the key up and finds it free; the other creates its marker and goes on; then the first one's context ends, `createReservation` returns before it creates anything (`:303`), and the error path removes the file at the path, the other's reservation. Its effect reaches the guest without a record (docs/ssh-sessions.md:112: "Before a guest effect, a session-scoped durable reservation binds the safe operation identity") |
| `targets_cancel` (`MCTargets`) | `CancelledHadNoEffect` | `app/target_coordinator.go:224`: a failed RecordEffect, then a second request that puts the prior state back, then a restart: the record of a change is removed as one without effect |
| `bootstrap_stop` (`MCBootstrap`) | `StopMeansReleased` | `app/bootstrap_stop.go`: with the task absent, stop succeeds without a look at the daemon (docs/amcd-bootstrap.md: "Success requires endpoint, singleton, and process ownership to disappear") |
| `guest_retry` (`GuestActions`) | `RetryAgrees` | `app/recovery_mutation.go:136`: a retry that comes while the first attempt runs is denied for its consumed approval and leaves a second receipt |

## Observations

Behaviour met while modelling that no property of a run states.

- Mutation: the receipt lookup is not repeated under the lease, so two processes that share a key can
  dispatch twice if the second has an approval of its own or needs none. A lookup that runs out of its
  five seconds leaves an aborted receipt beside the one the key may have (`recovery_mutation.go:189`, `:127`,
  `recovery_deadline.go:42`). MarkConsumed failing behind its record (`approval/store.go:238`) burns the
  approval: the run is not counted as having consumed it and nobody gives it back. Acquire failing behind
  its lease file leaves the lease until it expires or its process ends.
- Scrollback: `sessions/buffer.go:101` reports a loss also to a reader whose cursor is the last evicted
  chunk, which it has. `sessions/buffer.go:120` counts the loss marker as a result, so behind a marker a
  chunk larger than the limit is not returned until it is evicted; `ReadProgress` is stated for answers
  without a marker.
- Operations: a crash after the terminal record and before the terminal event leaves subscribers without
  the end of the stream; only the 1000 newest records are reconciled at startup. An execution whose
  receipt could not be written is repeated when its key is submitted again after its record has left the
  list window (`operations/store.go:148`), where docs/threat-model.md:645 has a retry return "the prior
  execution result" and stale material "rejected rather than silently re-executed".
- Locks: a death between mkdir and the owner record leaves the transition, audit or singleton lock in a
  state nobody reclaims (`WedgedOnlyWhenTorn` shows that nothing else does, for the singleton lock).
- Targets: a retry in the same process repeats a publication under the consumed approval; one that was
  committed but not made durable meets a conflict until the restart; a leftover temporary file makes the
  listing of the journal fail, and with it the start of the daemon. A record left because the document
  could not be read (`app/target_coordinator.go:164`) is finalized as applied at the next start when
  another request has brought the desired state about, with its approval unconsumed; a request whose
  receipt could not be written may publish again when it is retried.
- Daemon and bootstrap: a synchronous handler may outlive the HTTP shutdown's timeout; a stale endpoint
  after a crash makes start and ensure fail with drift; a stop by the task leaves endpoint and owner, so
  the command waits for its deadline; the observation of the release is two reads.
- Event hub: a failed write leaves a gap in the numbers; a torn line makes later publications fail and
  the startup refuse; an ephemeral terminal event has id 0; global subscribers may see numbers out of
  order. An overflow notice has the next number as its id (`events/hub.go:39`, `events/event.go:23`), so a
  client that resumes behind it never gets the event the notice was about, nor the one after it.
- Sanitizer: the search for an unfinished assignment looks at the last word only and stops at a line
  break, so an assignment with its word again in the value, or with a line break in it, is redacted only
  as far as it arrives in one piece.
- Evidence: a torn audit line makes reads fail and swallows the next intent.
- Approvals: a torn issued record makes the key unusable, a torn consumed one counts as consumed; an
  approval whose issuance crashed before its receipt is usable.
- Lab grants: safety and expiry may change between the recheck and the dispatch; torn documents stay.
- Recorder: a failed publication, or a crash, leaves a recording that is never pruned; more than 64
  entries refuse an admission before anything is pruned.
- Guest actions: a write the guest confirmed is told as a failure, without a receipt, when the host could
  not save, audit or release behind it (`app/recovery_mutation.go:74`); a retry that comes before the
  lease is free is told that it is busy. `UncertainIsKept` states exactly this exception.
- Inventory: an older listing may be applied after a newer one; the last write wins.

## Proofs

All theorems hold for every value of the constants that satisfies the module's named assumption
(`LockAssumption`, `LeaseAssumption`, `MutationAssumption`, `EvidenceAssumption`, `OperationsAssumption`,
`DaemonAssumption`, `SessionMutationAssumption`, `NoneAssumption`, `SessionsAssumption`,
`RingBufferAssumption`, `EventHubAssumption`, `TargetsAssumption`, `BootstrapAssumption`, `ApprovalConstants`, `LabConstants`,
`RecorderConstants`, `InventoryConstants`). They state the types of the constants, that marks such as
`Free`, `Bare`, `Torn` and `None` are none of the things they mark the absence of, that requests of
different kinds differ, that capacities are at least one where the code has them as positive constants,
that `Limit = 2 * MaxFrames + 1` as in the code, and that a registry has a local host, finitely many VM
ids and a worker. No bound on processes, calls, keys, deaths, faults, restarts or sizes is assumed small.
There are 8 modules of proofs; some hold those of several modules that share no names.

- `GuardProofs`, `TransitionLock`: type correctness, `ExclusiveUntilExit`, `OverlapIsReported`, `NoLockLeak`.
  Exclusion is not inductive as it stands: the invariant says which program points imply that the owner
  record on disk is the call's own, that a call about to reclaim has seen a record of a process that is
  dead, and hence that reclaiming is impossible while all processes live. For the overlap it relates
  `met` to the one owner record that either side may still find.
- `StreamsProofs`, `Lease`: type correctness, `HolderKeepsLease`, `NeverFenced`, `GenerationsIncrease`. The
  invariant says what a task inside the lock knows of the two files (a holder's lease is the file; the
  generation about to be written exceeds both files; the larger of the two files bounds every
  generation issued), which is what survives a crash between the two writes.
- `MutationProofs`, `Mutation`: type correctness, `ExclusiveDispatch`, `DispatchIsBacked`,
  `ApprovalSpentOnce`, `OneReceiptPerKey`, `EarlyReturnRestores`. The invariant ties program points to
  what is on disk: from the intent on a live run holds its lease, a dispatched run's approval stays
  consumed, and of the runs that a consumption succeeded for, at most one has not given the approval
  back. `Leaves` adds what runs leave behind: of the runs of a key that are kept apart one at a time is
  under way, and none whose lookup worked writes a receipt where the key has one; a blind run is on its way
  out and has an abort to tell (`Unlooked`); the lease names only runs that have still to give it back, and
  a consumed approval only those that may still dispatch or compensate, or whose store failed them. No
  theorem assumes that stores work.
- `MutationProofs`, `Evidence`: `EvidenceHolds`. The invariant says whose record is in the lock directory
  (`AtLock`), that unless a lock was displaced its holder is alone (`Mutex`), and that what the holder has
  read of the log is still true (`Snapshot`), which is what makes look and append one step. The attempt to
  prove it showed that the history variable `displaced` missed one of the two removals by which a
  reclaimer can displace a lock; the model now marks both.
- `OperationsProofs`: `OperationsHold`, `DrainedIsSettled`, `OneDispatchPerKey`. The invariant identifies
  the manager's maps, slots and contexts with the goroutines that run and the records on disk with what was
  submitted; that part (`OperationsBookkeeping`) holds whatever the list windows. The rest is about records
  that a scan must find, and the code scans the newest 1000 at startup and a window in `Submit`. So these
  theorems have a hypothesis, `Covered`: the records fit the reconciliation's scan. Without it an
  unfinished record older than the scan stays unfinished, so `NobodyForgotten` is false of the code.
  Submit's window is not assumed to hold anything: `OneDispatchPerKey` itself names the one case in which
  a key is dispatched twice, the first one's receipt lost and its record beyond the window, and the proof
  relates the distance of two records of a key to what Submit can have seen (`Traced`, `Unique`).
- `SessionMutationProofs`: `EffectIsRecorded`, `OneAnswer`, and `JournalRefined`, the refinement of
  `JournaledMutation`. The invariant says who leads a flight, whose record a key holds and in which state
  at each step of a call (`Records`, `Stages`), that an operation has one receipt, which is what its record
  says (`Receipted`), and that a sure reply is that receipt (`Replies`). A marker may be removed by a call
  of another operation, so a call knows only that its record is as it left it or gone after a theft
  (`Gone`); that a retry of an approved effect does not repeat it is then not the journal's doing but the
  consumed approval's (`Approvals`, `Alone`). So `EffectIsRecorded` and `OneAnswer` hold also behind a theft,
  and the refinement until there is one: while `stolen` is empty an effect has its record (`Effects`), a step
  changes one key's record and effects, and each such change is a step of the abstract journal.
- `DaemonProofs`, `Daemon`: type correctness, `SoleOwner`, `RecoveryIsAlone`, `WedgedOnlyWhenTorn`.
  `SoleOwner` needs to know who holds the guard (`Guarded`: whoever makes or reclaims the directory), and
  whose record is in the directory (`Owns`: that of every process from its owner record to its release). A
  reclaimer sees a dead process's record, so no living one is displaced. For the recovery it must be
  known where requests and work can be (`Routed`, `Working`): only at a process that serves or drains,
  which by `Owns` is the owner. `Explained` gives `WedgedOnlyWhenTorn`.
- `DaemonProofs`, `Bootstrap`: the daemon's invariant holds under tasks, logons and commands
  (`BootstrapSoleOwner`). A process that once was the recorded owner never becomes it again (`AimIsPast`),
  and a stop that succeeds has seen the lock without the process it aimed at (`AimIsGone`), which gives
  `StopOutlastsDaemon`. For `HealthyIsOwner`: a daemon that serves is the one the endpoint file names
  (`Named`), and the one a probe saw in the record owned the lock then or has ended its service for good
  (`Witnessed`), so one that answers the health request still owns it.
- `TargetsProofs`, `JournaledMutation` (instance `Promise`): `Truthful` and `VerdictIsFinal` of the
  abstract specification: one author per effect, nothing under a free key, a decided outcome that agrees
  with what happened and is never revised. `SessionMutation` and `Targets` are proved to implement it.
- `TargetsProofs`, `Targets`: `ChangeIsRecorded`, and `TargetJournalRefined`, the refinement of
  `JournaledMutation`. The invariant says what `Mutate` knows at each of its steps (`Working`: the plan is
  the one on record, the approval in force is the plan's), what a record wants and what startup has still
  to look at (`Records`), and that while an effect is not recorded the document is as the request left it
  (`Changes`). The first theorem has the hypothesis that no fault is at `effect`, see `targets_cancel`. The
  refinement has none, and holds until a record is left to itself: while `left` is empty only the request
  at work has a pending record (`Sole`), it found the document as its plan says (`First`), and a record
  tells whether its request changed the document (`Truth`), which is what makes the reconciliation's
  comparison of prior and desired state a valid inference.
- `GuardProofs`, `Policy`: `PolicyExact`, for every input of the policy, not only the probes of the run.
  Each group of stages is shown to be without objection exactly for the inputs one expects; `Evaluate`
  answers with the first objection of their concatenation (`FirstNone`, `QuietConcat`), so it has none
  when no group has one. That `PolicyIsSound` holds in `MCApprovals` is a corollary.
- `GuardProofs`, `Approvals`: `ApprovalsHold`. The invariant says what an issuing request has prepared and
  what is on disk of it at each step (`Requests`), what an execution was shown and has written (`Uses`),
  and that one execution at a time is about to spend the record (`SoleSpender`). `AdmittedIsExact` is
  where the policy comes in: what was admitted as destructive with an approval had an exact one.
- `ConsoleProofs`, `LabGrants`: `GrantsHold`, `RevokeIsFinal`, `DispatchOnGrantedEpoch`. The invariant says
  who has the lease and the fence (`Leased`, `Fenced`), which documents exist behind which evidence
  (`Evidenced`, `Granted`), and what an executor about to dispatch may rely on (`Ready`): the grant is
  whole and not revoked and the enrolment is its own, because the fence keeps a replacement out and the
  lease a revocation.
- `ConsoleProofs`, `GuestActions`: `GuestHolds`. At most one attempt is between its consumption and its
  reply, or the guest has acted (`OneActs`), the receipts are what became of it (`Recorded`), and what the
  provider found stays in the error, whatever fails on the way back (`Heard`).
- `ConsoleProofs`, `Recorder`: `RecordingsHold`, `PruneSparesActive`. For each recording the invariant
  relates the producer's count in memory to the captures made (`Documented`), every snapshot that a
  reader may find to what was done by then (`Truthful`), and the marker to the publication under way
  (`Marked`); for each reader, what it has read to what was durable without a marker (`Answers`). Without
  `Marked` an answer that raced a failing publication could not be told from a durable one.
- `ConsoleProofs`, `Inventory`: `InventoryHolds`, for every initial registry and every kind of reference.
  The index agrees with the listings applied last (`IndexAgrees`); an index that was handed out is with one worker or has one result (`Accounted`); the
  channel is open while anybody may send, and the feeder leaves only when everything is handed out
  (`Attended`). The count of results follows from an injection into the hosts. `InventoryNeverHeldUp`
  states of the guards of the refresh's steps what `RefreshNeverStuck` states with ENABLED.
- `StreamsProofs`, `Sessions`: `ChannelsAreReaped`, `TerminalIsDurable`. The invariant says what a
  published session excludes (`Published`), who may move a session (`Lanes`), who writes its file last
  (`Filed`), and what a Shutdown has behind it (`Stopping`): sessions it has not visited are in its
  snapshot, because `closed` keeps new ones out.
- `StreamsProofs`, `RingBuffer`: `ReadersServed`, `NoLostWakeup`. `Window` relates counts of bytes to the
  sums of the chunks kept. The lemmas say what the eviction loop and the read loop stop at, and how a sum
  grows by a chunk.
- `StreamsProofs`, `EventHub`: `HubHolds`. That no client has a gap is not inductive: the invariant says
  what file and replay buffer hold of the events that are acknowledged or about to be (`Logs`), that the
  stream's number is at least the file's greatest, so that the next one is above all of them (`Fresh`
  follows), and that in a client's queue every such event stands before every greater one, or was
  delivered, evicted or passed over by an overflow notice (`Gapless`). The lemmas say what the replay loop, the compaction, `send` and a
  delivery do to a queue.

The recursive functions of `RingBuffer` (`Total`) and `EventHub` (`LaterThan`) and the loops are reasoned
about by the first index at which a claim fails (`LeastElement`, `FirstIn`, from the well-foundedness of
the naturals): the induction principles of the library, which take an operator as a parameter, are not
available to the provers used here.

Only model-checked are five of the runs' properties. `EveryCallReturns`, `ScanClearsDead` and
`StopCompletes` are liveness properties, and the prover does not do fairness. `RefreshNeverStuck` is about
ENABLED, of which it knows nothing; the guards are proved instead. `ChunkingIsInvisible` is about folds
over the bytes of a stream, which would need an induction over sequences.

## Not modelled

- The Hyper-V backend (PowerShell text and its output), SSH dialling and host keys, image capture and
  encoding, file transfer: I/O whose outcome appears as a choice (success, failure, cut off).
- Parsing, formatting and canonical hashes, abstracted to keys; token files, permissions and ACLs;
  platform glue; the clients' and the MCP adapter's translation of requests, except for the desktop
  action; handlers that decode a request and call a manager.
- The audit hash chain, list queries and pagination; `WaitIdle`.
- In `Sanitizer`: private keys, bearer tokens and configured patterns.
- In `SessionMutation`: a marker that a crash or a failed write leaves half written.
- In `Bootstrap`: what a stop is about when the task is absent or drifted (`aim` is set for an exact task;
  `bootstrap_stop` shows the absent one).
- Operations without an idempotency key, which skip the duplicate checks, and actor or parameter
  mismatches under one key, which are rejected, are left out of `Operations`.
- Power loss.

## Plan

1. (done) The modules and runs above.
2. (done) The proofs above: every safety property of the runs but `ChunkingIsInvisible` and
   `RefreshNeverStuck`.
3. `Lease` with the steps of `TransitionLock` in place of its mutex, and the refinement of the former by
   the latter as long as no lock holder has died.
4. `Operations` over `Mutation` in place of its hooks, dispatch and receipt.
