------------------------------- MODULE Lease -------------------------------
(***************************************************************************)
(* The host lease of one machine: internal/lease/manager.go and reclaim.go. *)
(*                                                                         *)
(* A session is one Acquire ... Release pair of a process (a mutation), a  *)
(* scan is one ReclaimStaleLeases of a starting daemon.  Both touch the    *)
(* lease file and the generation file only inside withLock; the lock is    *)
(* here an exclusive lock that a dead holder in the same runtime does not  *)
(* keep (module TransitionLock models how it is made, and when it fails).  *)
(* Inside the lock every file operation is a step of its own: the process  *)
(* may die, and an operation may fail, between any two of them.            *)
(***************************************************************************)
EXTENDS Integers

CONSTANTS Session,     \* Acquire ... Release pairs
          Scan,        \* runs of ReclaimStaleLeases
          Proc,        \* process incarnations
          ProcOf,      \* the process of a session or a scan
          RuntimeOf,   \* the runtime (host, WSL distribution) of a process
          Exits,       \* processes that may die
          TTL,         \* ttl of Acquire, in ticks
          MaxTime,     \* bound on the clock
          MaxGen,      \* ^uint64(0), made small
          FaultModes,  \* with or without failing file operations, or both
          None         \* no session, no lock holder

Task == Session \cup Scan

ASSUME LeaseAssumption ==
    /\ Session \cap Scan = {}
    /\ None \notin Task
    /\ ProcOf \in [Task -> Proc]
    /\ Exits \subseteq Proc
    /\ TTL \in Nat /\ MaxTime \in Nat /\ MaxGen \in Nat
    /\ FaultModes \subseteq BOOLEAN

VARIABLES lease,    \* the lease file; own = None when there is none
          genFile,  \* LastGeneration of the generation file, 0 when absent
          mutex,    \* the task inside withLock, or None
          pc,       \* where each task is
          at,       \* `now`, read by Acquire before it waits for the lock
          gen,      \* the fencing generation of the lease Acquire builds
          result,   \* what the task's last call returned
          alive,    \* which processes run
          clock,
          faulty,   \* may a write, a sync or a remove fail in this behaviour?
          issued    \* history: generations that Acquire returned to a caller

leaseVars == <<lease, genFile, mutex, pc, at, gen, result, alive, clock, faulty, issued>>

PCs == {"idle", "acquire", "writeLease", "writeGen", "held", "releasing",
        "tombstone", "remove", "done"}
Results == {"none", "ok", "conflict", "unverifiable", "overflow", "fenced",
            "error"}

NoLease == [own |-> None, gen |-> 0, exp |-> 0]

Gens == 0 .. MaxGen

LeaseTypeOK ==
    /\ lease \in [own : Session \cup {None}, gen : Gens, exp : Nat]
    /\ genFile \in Gens
    /\ mutex \in Task \cup {None}
    /\ pc \in [Task -> PCs]
    /\ at \in [Session -> Nat]
    /\ gen \in [Session -> Gens]
    /\ result \in [Task -> Results]
    /\ alive \in [Proc -> BOOLEAN]
    /\ clock \in Nat
    /\ faulty \in BOOLEAN
    /\ issued \subseteq Gens

(* A machine that has been leased any number of times before.              *)
LeaseInit ==
    /\ lease = NoLease
    /\ genFile \in Gens
    /\ mutex = None
    /\ pc = [t \in Task |-> "idle"]
    /\ at = [s \in Session |-> 0]
    /\ gen = [s \in Session |-> 0]
    /\ result = [t \in Task |-> "none"]
    /\ alive = [p \in Proc |-> TRUE]
    /\ clock = 0
    /\ faulty \in FaultModes
    /\ issued = {}

----------------------------------------------------------------------------
(* Helpers.                                                                *)

At(t, l) == pc[t] = l /\ alive[ProcOf[t]]
Goto(t, l) == pc' = [pc EXCEPT ![t] = l]
Report(t, r) == result' = [result EXCEPT ![t] = r]

(* The lock is free, or its dead holder can be reclaimed from here.        *)
LockFree(t) == mutex # None => /\ ~alive[ProcOf[mutex]]
                               /\ RuntimeOf[ProcOf[mutex]] = RuntimeOf[ProcOf[t]]

(* What IsAlive may answer a task about process p; FALSE is "dead".  An    *)
(* error counts as alive.  A pid means nothing in another runtime.         *)
LivenessAnswers(t, p) ==
    IF RuntimeOf[p] # RuntimeOf[ProcOf[t]] THEN BOOLEAN
    ELSE {alive[p]} \cup (IF faulty THEN {TRUE} ELSE {})

(* Mutant: the generation file is not consulted.                           *)
BaseGenOfLease == lease.gen

BaseGen == IF lease.gen > genFile THEN lease.gen ELSE genFile

(* Mutant: an expired lease is taken from a living holder.                 *)
CanAcquireExpired(s, says) ==
    lease.own # None => /\ at[s] >= lease.exp
                        /\ RuntimeOf[ProcOf[lease.own]] = RuntimeOf[ProcOf[s]]

(* verifyCanAcquire, before the generation is incremented.                 *)
CanAcquire(s, says) ==
    lease.own # None => /\ at[s] >= lease.exp
                        /\ RuntimeOf[ProcOf[lease.own]] = RuntimeOf[ProcOf[s]]
                        /\ ~says

Refusal(s) ==
    IF at[s] < lease.exp THEN "conflict"
    ELSE IF RuntimeOf[ProcOf[lease.own]] # RuntimeOf[ProcOf[s]] THEN "unverifiable"
    ELSE "conflict"

(* The section ends: withLock releases the lock and returns r.             *)
Finish(t, l, r) == /\ mutex' = None
                   /\ Goto(t, l)
                   /\ Report(t, r)

(* withLock times out on a lock somebody else keeps.                       *)
LockTimeout(t) ==
    /\ pc[t] \in {"acquire", "releasing"} \/ (t \in Scan /\ pc[t] = "idle")
    /\ alive[ProcOf[t]]
    /\ mutex # None /\ mutex # t
    /\ Goto(t, "done")
    /\ Report(t, "error")
    /\ UNCHANGED <<lease, genFile, mutex, at, gen, alive, clock, faulty, issued>>

----------------------------------------------------------------------------
(* Acquire.                                                                *)

StartAcquire(s) ==
    /\ At(s, "idle")
    /\ at' = [at EXCEPT ![s] = clock]
    /\ Goto(s, "acquire")
    /\ UNCHANGED <<lease, genFile, mutex, gen, result, alive, clock, faulty, issued>>

(* The lock is taken; the files are read and verifyCanAcquire decides.     *)
Decide(s) ==
    /\ At(s, "acquire")
    /\ LockFree(s)
    /\ \E says \in IF lease.own = None THEN {FALSE}
                   ELSE LivenessAnswers(s, ProcOf[lease.own]) :
         \/ /\ ~CanAcquire(s, says)
            /\ Finish(s, "done", Refusal(s))
            /\ UNCHANGED gen
         \/ /\ CanAcquire(s, says)
            /\ BaseGen = MaxGen
            /\ Finish(s, "done", "overflow")
            /\ UNCHANGED gen
         \/ /\ CanAcquire(s, says)
            /\ BaseGen # MaxGen
            /\ mutex' = s
            /\ gen' = [gen EXCEPT ![s] = (BaseGen + 1) % (MaxGen + 1)]
            /\ Goto(s, "writeLease")
            /\ UNCHANGED result
    /\ UNCHANGED <<lease, genFile, at, alive, clock, faulty, issued>>

(* writeAtomicFile that returns an error: a failure before the rename      *)
(* leaves the old file, a failure to sync the directory the new one.       *)
FailedWrite(old, new) == {old, new}

WriteLease(s) ==
    LET new == [own |-> s, gen |-> gen[s], exp |-> at[s] + TTL] IN
    /\ At(s, "writeLease")
    /\ \/ /\ lease' = new
          /\ Goto(s, "writeGen")
          /\ UNCHANGED <<mutex, result>>
       \/ /\ faulty
          /\ lease' \in FailedWrite(lease, new)
          /\ Finish(s, "done", "error")
    /\ UNCHANGED <<genFile, at, gen, alive, clock, faulty, issued>>

(* The lease is the caller's only when the generation file is written and  *)
(* the lock released without error; otherwise the lease file stays behind. *)
WriteGen(s) ==
    /\ At(s, "writeGen")
    /\ \/ /\ genFile' = gen[s]
          /\ issued' = issued \cup {gen[s]}
          /\ Finish(s, "held", "ok")
       \/ /\ faulty
          /\ genFile' \in FailedWrite(genFile, gen[s])
          /\ Finish(s, "done", "error")
          /\ UNCHANGED issued
    /\ UNCHANGED <<lease, at, gen, alive, clock, faulty>>

----------------------------------------------------------------------------
(* Release.                                                                *)

StartRelease(s) ==
    /\ At(s, "held")
    /\ Goto(s, "releasing")
    /\ UNCHANGED <<lease, genFile, mutex, at, gen, result, alive, clock, faulty, issued>>

CompareOwner(s) ==
    /\ At(s, "releasing")
    /\ LockFree(s)
    /\ \/ /\ lease.own = None
          /\ Finish(s, "done", "ok")
       \/ /\ lease.own # None
          /\ lease.own # s \/ lease.gen # gen[s]
          /\ Finish(s, "done", "fenced")
       \/ /\ lease.own = s /\ lease.gen = gen[s]
          /\ mutex' = s
          /\ Goto(s, "tombstone")
          /\ UNCHANGED result
    /\ UNCHANGED <<lease, genFile, at, gen, alive, clock, faulty, issued>>

(* Both Release and the scan persist the generation before they remove the *)
(* lease file.                                                             *)
Tombstone(t) ==
    /\ At(t, "tombstone")
    /\ \/ /\ genFile' = lease.gen
          /\ Goto(t, "remove")
          /\ UNCHANGED <<mutex, result>>
       \/ /\ faulty
          /\ genFile' \in FailedWrite(genFile, lease.gen)
          /\ Finish(t, "done", "error")
    /\ UNCHANGED <<lease, at, gen, alive, clock, faulty, issued>>

RemoveLease(t) ==
    /\ At(t, "remove")
    /\ \/ /\ lease' = NoLease
          /\ Finish(t, "done", "ok")
       \/ /\ faulty
          /\ UNCHANGED lease
          /\ Finish(t, "done", "error")
    /\ UNCHANGED <<genFile, at, gen, alive, clock, faulty, issued>>

----------------------------------------------------------------------------
(* ReclaimStaleLeases -> tryReclaimSingle.                                 *)

(* Mutant: a lease must also have expired.                                 *)
ReclaimableExpired(t, says) ==
    /\ RuntimeOf[ProcOf[lease.own]] = RuntimeOf[ProcOf[t]]
    /\ ~says
    /\ clock >= lease.exp

(* May the scan take the lease away, given the liveness answer?            *)
Reclaimable(t, says) ==
    /\ RuntimeOf[ProcOf[lease.own]] = RuntimeOf[ProcOf[t]]
    /\ ~says

ScanLease(t) ==
    /\ t \in Scan
    /\ At(t, "idle")
    /\ LockFree(t)
    /\ \/ /\ lease.own = None
          /\ Finish(t, "done", "ok")
       \/ /\ lease.own # None
          /\ \E says \in LivenessAnswers(t, ProcOf[lease.own]) :
               IF Reclaimable(t, says)
                 THEN /\ mutex' = t
                      /\ Goto(t, "tombstone")
                      /\ UNCHANGED result
                 ELSE Finish(t, "done", "ok")
    /\ UNCHANGED <<lease, genFile, at, gen, alive, clock, faulty, issued>>

----------------------------------------------------------------------------
(* The environment.                                                        *)

Tick == /\ clock < MaxTime
        /\ clock' = clock + 1
        /\ UNCHANGED <<lease, genFile, mutex, pc, at, gen, result, alive, faulty, issued>>

(* A dead process leaves its files, its lease and its lock where they are. *)
Exit(p) == /\ p \in Exits /\ alive[p]
           /\ alive' = [alive EXCEPT ![p] = FALSE]
           /\ UNCHANGED <<lease, genFile, mutex, pc, at, gen, result, clock, faulty, issued>>

Work(t) == Tombstone(t) \/ RemoveLease(t) \/ ScanLease(t)

SessionStep(s) == \/ Decide(s) \/ WriteLease(s) \/ WriteGen(s)
                  \/ StartRelease(s) \/ CompareOwner(s)

LeaseNext ==
    \/ \E s \in Session : StartAcquire(s) \/ SessionStep(s)
    \/ \E t \in Task : Work(t) \/ LockTimeout(t)
    \/ Tick
    \/ \E p \in Proc : Exit(p)

(* A process inside a call keeps running: the calls are straight-line code *)
(* and the lock wait has a deadline.                                       *)
Fairness == /\ \A s \in Session : WF_leaseVars(SessionStep(s))
            /\ \A t \in Task : WF_leaseVars(Work(t) \/ LockTimeout(t))

LeaseSpec == LeaseInit /\ [][LeaseNext]_leaseVars /\ Fairness

----------------------------------------------------------------------------
(* Properties.                                                             *)

(* A session whose Acquire succeeded owns the lease file until it releases *)
(* it, with the generation it was given: neither another Acquire, whatever *)
(* the clock says, nor a startup scan, nor an I/O failure anywhere takes   *)
(* the lease from a living process.                                        *)
HolderKeepsLease ==
    \A s \in Session :
        pc[s] = "held" /\ alive[ProcOf[s]] => lease.own = s /\ lease.gen = gen[s]

(* Every lease handed out has a larger fencing generation than all before, *)
(* across crashes between the lease write and the generation write, and at *)
(* the top of the counter.                                                 *)
GenerationsIncrease ==
    [][\A g \in issued' \ issued : \A old \in issued : g > old]_leaseVars

(* No session is told that its lease was taken: Release never reports a    *)
(* fencing violation to the owner that Acquire admitted.                   *)
NeverFenced == \A s \in Session : result[s] # "fenced"

(* A startup scan gets rid of the lease of a process that died before the  *)
(* scan began, wherever that process stopped, unless the scan reports an   *)
(* error, dies itself, or runs in another runtime.                         *)
ScanClearsDead ==
    \A t \in Scan, s \in Session :
        (/\ pc[t] = "idle" /\ lease.own = s /\ ~alive[ProcOf[s]] /\ ~faulty
         /\ RuntimeOf[ProcOf[t]] = RuntimeOf[ProcOf[s]])
        ~> (lease.own # s \/ result[t] = "error" \/ ~alive[ProcOf[t]])
=============================================================================
