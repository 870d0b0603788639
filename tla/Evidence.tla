------------------------------ MODULE Evidence ------------------------------
(***************************************************************************)
(* The evidence every mutation leaves, shared by the daemon, direct `amc`  *)
(* commands and bootstrap commands: the append-only audit log behind its   *)
(* directory lock, internal/audit (audit.go, lock.go, terminal_batch.go,   *)
(* tail.go, verify.go), and the receipts, internal/receipt (store.go,      *)
(* query.go, writable.go).                                                 *)
(*                                                                         *)
(* Each process runs one command with the one idempotency key, or the      *)
(* daemon's startup reconciliation of all receipts.  A receipt is named by *)
(* the process that wrote it (receipt ids are random).  The lock is a      *)
(* directory with an owner record: Free, Bare (no record), or a process's. *)
(* In-process mutexes (Store.mu) serialize what is one process here.       *)
(***************************************************************************)
EXTENDS Naturals, FiniteSets

CONSTANTS Command, Free, Bare,
          MaxDeaths, MaxFaults  \* bounds: deaths, failing file operations

ASSUME EvidenceAssumption ==
    /\ Free \notin Command /\ Bare \notin Command /\ Free # Bare
    /\ MaxDeaths \in Nat /\ MaxFaults \in Nat

VARIABLES phase,     \* per process: the step of its command
          lock,      \* per process: where it is in the audit lock's protocol
          holder,    \* the lock directory: Free, Bare or its owner
          stale,     \* per process: the dead owner its reclaim has read
          admitted,  \* processes whose admission intent is a line of the log
          terminal,  \* per receipt: its terminal lines in the log
          garbled,   \* "no", "tail" (last line incomplete), "line" (malformed line)
          saved,     \* the receipts saved
          todo,      \* per process: receipts whose terminal line it must ensure
          found,     \* per process: receipts its snapshot of the log has a line for
          displaced, \* history: a reclaim removed another lock than it had read
          deaths, faults

book == <<admitted, terminal, garbled, saved>>
evars == <<phase, lock, holder, stale, book, todo, found, displaced, deaths, faults>>

Phases == {"lookup", "intent", "effect", "receipt", "audit", "verify", "done",
           "failed", "dead"}
LockPoints == {"out", "made", "stale", "cleared", "held", "read", "written", "leaving"}

EvidenceTypeOK ==
    /\ phase \in [Command -> Phases] /\ lock \in [Command -> LockPoints]
    /\ holder \in Command \cup {Free, Bare}
    /\ stale \in [Command -> Command \cup {Free}]
    /\ admitted \subseteq Command /\ saved \subseteq Command
    /\ terminal \in [Command -> Nat] /\ garbled \in {"no", "tail", "line"}
    /\ todo \in [Command -> SUBSET Command] /\ found \in [Command -> SUBSET Command]
    /\ displaced \in BOOLEAN

EvidenceInit ==
    /\ phase = [p \in Command |-> "lookup"] /\ lock = [p \in Command |-> "out"]
    /\ holder = Free /\ stale = [p \in Command |-> Free]
    /\ admitted = {} /\ saved = {} /\ terminal = [p \in Command |-> 0]
    /\ garbled = "no"
    /\ todo = [p \in Command |-> {}] /\ found = [p \in Command |-> {}]
    /\ displaced = FALSE /\ deaths = 0 /\ faults = 0

Fails == faults < MaxFaults /\ faults' = faults + 1
Works == UNCHANGED faults
ToPhase(p, f) == phase' = [phase EXCEPT ![p] = f]
Move(p, l) == lock' = [lock EXCEPT ![p] = l]
Needs(p) == phase[p] \in {"intent", "audit"}

-----------------------------------------------------------------------------
(* The audit lock: withLockContext.                                        *)

Mkdir(p) ==
    /\ Needs(p) /\ lock[p] = "out" /\ holder = Free
    /\ holder' = Bare /\ Move(p, "made")
    /\ UNCHANGED <<phase, stale, book, todo, found, displaced, deaths, faults>>

\* recordLockOwner creates the record exclusively; a failure takes the record
\* and the directory back, whosever they are by now.
Disown(p) == holder' = Free /\ Move(p, "out") /\ ToPhase(p, "failed")
RecordOwner(p) ==
    /\ lock[p] = "made"
    /\ \/ holder = Bare /\ Works /\ holder' = p /\ Move(p, "held") /\ UNCHANGED phase
       \/ /\ \/ holder = Bare /\ Fails
             \/ holder # Bare /\ Works
          /\ Disown(p)
    /\ UNCHANGED <<stale, book, todo, found, displaced, deaths>>

\* tryReclaimDeadLock: a readable record of a process that is not alive, then
\* the record is removed, then the directory.
Reclaimable(q) == q \in Command /\ phase[q] = "dead"
ReadDeadOwner(p) ==
    /\ Needs(p) /\ lock[p] = "out" /\ Reclaimable(holder)
    /\ stale' = [stale EXCEPT ![p] = holder] /\ Move(p, "stale")
    /\ UNCHANGED <<phase, holder, book, todo, found, displaced, deaths, faults>>
RemoveDeadOwner(p) ==
    /\ lock[p] = "stale"
    /\ holder' = IF holder \in Command THEN Bare ELSE holder
    /\ displaced' = (displaced \/ holder \in Command \ {stale[p]})
    /\ Move(p, "cleared")
    /\ UNCHANGED <<phase, stale, book, todo, found, deaths, faults>>
RemoveDir(p) ==
    /\ lock[p] = "cleared" /\ Move(p, "out")
    /\ IF holder \in Command THEN ToPhase(p, "failed") /\ UNCHANGED <<holder, displaced>>
       ELSE /\ holder' = Free /\ UNCHANGED phase
            /\ displaced' = (displaced \/ \E q \in Command \ {p} : lock[q] \in {"made", "leaving"})
    /\ UNCHANGED <<stale, book, todo, found, deaths, faults>>

\* The lock stays taken until the caller's deadline.
LockTimeout(p) ==
    /\ Needs(p) /\ lock[p] = "out" /\ holder # Free
    /\ ToPhase(p, "failed")
    /\ UNCHANGED <<lock, holder, stale, book, todo, found, displaced, deaths, faults>>

\* releaseLock: an own record only, the record first.
Release(p) ==
    /\ lock[p] = "written"
    /\ \/ holder = p /\ holder' = Bare /\ Move(p, "leaving") /\ UNCHANGED phase
       \/ holder # p /\ UNCHANGED holder /\ Move(p, "out") /\ ToPhase(p, "failed")
    /\ UNCHANGED <<stale, book, todo, found, displaced, deaths, faults>>

\* What a command does once its use of the log has succeeded.
After(p) == IF phase[p] = "intent" THEN "effect" ELSE "done"
ReleaseDir(p) ==
    /\ lock[p] = "leaving" /\ Move(p, "out")
    /\ \/ holder \in {Free, Bare} /\ holder' = Free
          /\ ToPhase(p, IF phase[p] = "failed" THEN "failed" ELSE After(p))
       \/ holder \in Command /\ UNCHANGED holder /\ ToPhase(p, "failed")
    /\ UNCHANGED <<stale, book, todo, found, displaced, deaths, faults>>

-----------------------------------------------------------------------------
(* The log.                                                                *)

\* readEventsLocked fails on a malformed line.
Readable == garbled = "no"

\* writeEvent: a line that follows an incomplete one is lost in it; a write may
\* also leave part of a line, or fail only in a later sync or close.
Line(ok) == IF garbled = "tail" THEN "line" ELSE IF ok THEN garbled ELSE "tail"
Whole == garbled # "tail"

\* RecordAdmissionIntent appends without reading.
AppendIntent(p) ==
    /\ phase[p] = "intent" /\ lock[p] = "held" /\ Move(p, "written")
    /\ \/ Works /\ garbled' = Line(TRUE) /\ UNCHANGED phase
          /\ admitted' = IF Whole THEN admitted \cup {p} ELSE admitted
       \/ /\ Fails /\ ToPhase(p, "failed")
          /\ \/ UNCHANGED <<garbled, admitted>>
             \/ garbled' = Line(FALSE) /\ UNCHANGED admitted
             \/ garbled' = Line(TRUE) /\ admitted' = IF Whole THEN admitted \cup {p} ELSE admitted
    /\ UNCHANGED <<holder, stale, terminal, saved, todo, found, displaced, deaths>>

\* EnsureTerminalOutcome: the whole log is read once; a malformed line, or two
\* lines for a receipt, are invalid evidence.
FoundNone(p) == {}
Found(p) == {r \in todo[p] : terminal[r] = 1}
ReadLog(p) ==
    /\ phase[p] = "audit" /\ lock[p] = "held"
    /\ \/ /\ Readable /\ \A r \in todo[p] : terminal[r] <= 1
          /\ found' = [found EXCEPT ![p] = Found(p)] /\ Move(p, "read")
          /\ UNCHANGED phase
       \/ /\ ~Readable \/ \E r \in todo[p] : terminal[r] > 1
          /\ Move(p, "written") /\ ToPhase(p, "failed") /\ UNCHANGED found
    /\ UNCHANGED <<holder, stale, book, todo, displaced, deaths, faults>>

\* One missing line is appended; a batch goes on with the next receipt.
AppendTerminal(p) ==
    /\ phase[p] = "audit" /\ lock[p] = "read"
    /\ \E r \in todo[p] \ found[p] :
         \/ /\ Works /\ garbled' = Line(TRUE) /\ UNCHANGED <<phase, lock>>
            /\ terminal' = IF Whole THEN [terminal EXCEPT ![r] = @ + 1] ELSE terminal
            /\ found' = [found EXCEPT ![p] = @ \cup {r}]
         \/ /\ Fails /\ ToPhase(p, "failed") /\ Move(p, "written") /\ UNCHANGED found
            /\ \/ UNCHANGED <<garbled, terminal>>
               \/ garbled' = Line(FALSE) /\ UNCHANGED terminal
               \/ garbled' = Line(TRUE) /\ terminal' = IF Whole THEN
                    [terminal EXCEPT ![r] = @ + 1] ELSE terminal
    /\ UNCHANGED <<holder, stale, admitted, saved, todo, displaced, deaths>>
LineEnsured(p) ==
    /\ phase[p] = "audit" /\ lock[p] = "read" /\ todo[p] \subseteq found[p]
    /\ Move(p, "written")
    /\ UNCHANGED <<phase, holder, stale, book, todo, found, displaced, deaths, faults>>

\* VerifyTerminalOutcome reads without the lock: exactly one line.
Verify(p) ==
    /\ phase[p] = "verify"
    /\ ToPhase(p, IF Readable /\ \A r \in todo[p] : terminal[r] = 1 THEN "done" ELSE "failed")
    /\ UNCHANGED <<lock, holder, stale, book, todo, found, displaced, deaths, faults>>

-----------------------------------------------------------------------------
(* The commands.                                                           *)

\* The receipt files of the key, each read and checked; temporary files are not
\* receipts.
Prior == saved

\* LookupIdempotency: a receipt of the key is replayed and its terminal line
\* ensured, or verified when a journal says it is finalized.
Lookup(p) ==
    /\ phase[p] = "lookup"
    /\ \/ /\ Prior = {} /\ ToPhase(p, "intent") /\ UNCHANGED todo
       \/ \E r \in Prior :
            /\ todo' = [todo EXCEPT ![p] = {r}]
            /\ \/ ToPhase(p, "audit")
               \/ terminal[r] > 0 /\ ToPhase(p, "verify")
    /\ UNCHANGED <<lock, holder, stale, book, found, displaced, deaths, faults>>

\* The startup reconciliation: one batch over every receipt.
Reconcile(p) ==
    /\ phase[p] = "lookup" /\ saved # {}
    /\ todo' = [todo EXCEPT ![p] = saved] /\ ToPhase(p, "audit")
    /\ UNCHANGED <<lock, holder, stale, book, found, displaced, deaths, faults>>

Effect(p) ==
    /\ phase[p] = "effect" /\ ToPhase(p, "receipt")
    /\ UNCHANGED <<lock, holder, stale, book, todo, found, displaced, deaths, faults>>

\* Ensure writes a temporary file and renames it: the receipt is there whole,
\* also when only the directory sync fails, or not at all.
SaveReceipt(p) ==
    /\ phase[p] = "receipt"
    /\ \/ /\ Works /\ saved' = saved \cup {p} /\ ToPhase(p, "audit")
          /\ todo' = [todo EXCEPT ![p] = {p}]
       \/ /\ Fails /\ ToPhase(p, "failed") /\ UNCHANGED todo
          /\ saved' \in {saved, saved \cup {p}}
    /\ UNCHANGED <<lock, holder, stale, admitted, terminal, garbled, found, displaced,
                   deaths>>

Die(p) ==
    /\ phase[p] \notin {"done", "dead"} /\ deaths < MaxDeaths
    /\ phase[p] = "failed" => lock[p] # "out"
    /\ deaths' = deaths + 1 /\ ToPhase(p, "dead") /\ Move(p, "out")
    /\ UNCHANGED <<holder, stale, book, todo, found, displaced, faults>>

EvidenceNext ==
    \E p \in Command :
        \/ Mkdir(p) \/ RecordOwner(p) \/ ReadDeadOwner(p) \/ RemoveDeadOwner(p)
        \/ RemoveDir(p) \/ LockTimeout(p) \/ Release(p) \/ ReleaseDir(p)
        \/ AppendIntent(p) \/ ReadLog(p) \/ AppendTerminal(p) \/ LineEnsured(p)
        \/ Verify(p) \/ Lookup(p) \/ Reconcile(p) \/ Effect(p) \/ SaveReceipt(p)
        \/ Die(p)

EvidenceSpec == EvidenceInit /\ [][EvidenceNext]_evars

-----------------------------------------------------------------------------
\* Two processes are inside the audit lock only after a reclaim removed a lock
\* it had not read: two processes that find the same dead owner race.
LockIsExclusive ==
    \A p, q \in Command : {lock[p], lock[q]} \subseteq {"held", "read"} /\ p # q
                       => displaced

\* Ensuring evidence is idempotent across replays, reconciliations, deaths and
\* failed writes: a receipt has two terminal lines only after such a race.
OneTerminalLine == (\E r \in Command : terminal[r] > 1) => displaced

\* The log speaks of saved receipts only, and a command that reports success has
\* its receipt and a terminal line for it, which no torn write has swallowed.
EvidenceIsBacked ==
    /\ \A r \in Command : terminal[r] > 0 => r \in saved
    /\ \A p \in Command : phase[p] = "done" /\ ~displaced
                       => todo[p] # {} /\ \A r \in todo[p] : terminal[r] = 1

\* What the audit log and the receipts promise between them: terminal lines once
\* per receipt, behind an exclusive lock, and only what was saved.
EvidenceHolds == EvidenceTypeOK /\ LockIsExclusive /\ OneTerminalLine /\ EvidenceIsBacked

\* audit.go of EnsureTerminalOutcome: "idempotently appends the exact terminal
\* event or rejects a collision".
EnsureIsIdempotent == \A r \in Command : terminal[r] <= 1
=============================================================================
