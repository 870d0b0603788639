--------------------------- MODULE TransitionLock ---------------------------
(***************************************************************************)
(* The cross-process transition lock of internal/lease/lock.go: a lock     *)
(* directory made with mkdir, holding an owner.json that names the process *)
(* which made it.  internal/audit/lock.go is the same algorithm for the    *)
(* audit log.  The lease files of one machine are only read and written    *)
(* inside withLock.                                                        *)
(*                                                                         *)
(* A "call" is one invocation of withLock, made by one goroutine of one    *)
(* process.  Each step below is one system call on the lock directory or   *)
(* the owner file, because other processes run between any two of them.    *)
(* Paths are removed BY NAME: a removal deletes whatever has that name     *)
(* when it happens, whoever made it.                                       *)
(*                                                                         *)
(* The identity in owner.json is (runtime, pid, start time, AcquiredAt);   *)
(* two calls of one process differ in AcquiredAt, so a call stands for the *)
(* identity it records.                                                    *)
(***************************************************************************)

CONSTANTS Call,        \* invocations of withLock on one machine's lock
          Proc,        \* processes that make them
          ProcOf,      \* the process of a call
          RuntimeOf,   \* the runtime (host, WSL distribution) of a process
          Exits,       \* processes that may crash or exit
          FaultModes,  \* with or without failing system calls, or both
          NoCall       \* no owner file

ASSUME LockAssumption ==
    /\ ProcOf \in [Call -> Proc]
    /\ NoCall \notin Call
    /\ Exits \subseteq Proc
    /\ FaultModes \subseteq BOOLEAN

VARIABLES dir,      \* does the lock directory exist?
          owner,    \* the call whose owner.json is at ownerPath, or NoCall
          full,     \* is that owner.json completely written (decodable)?
          pc,       \* where each call is in withLock
          seen,     \* the owner a call read in tryReclaimDeadLock
          ctx,      \* "live", "late" (the 5 s deadline passed), "done" (cancelled)
          result,   \* the lock's own errors so far, and what withLock returns
          alive,    \* which processes run
          faulty,   \* may a write, mkdir or remove fail in this behaviour?
          met       \* history: <<c, d>> when c entered fn() while d was in it

vars == <<dir, owner, full, pc, seen, ctx, result, alive, faulty, met>>
files == <<dir, owner, full>>

PCs == {"idle", "try", "made", "opened", "entering", "section", "release",
        "unlink", "rmdir", "inspect", "check", "reclaim", "reclaimDir",
        "wait", "undo", "undoDir", "done"}

(* The calls inside fn(), the critical section.                            *)
Inside == {c \in Call : pc[c] = "section"}

TypeOK == /\ dir \in BOOLEAN
          /\ owner \in Call \cup {NoCall}
          /\ full \in BOOLEAN
          /\ pc \in [Call -> PCs]
          /\ seen \in [Call -> Call \cup {NoCall}]
          /\ ctx \in [Call -> {"live", "late", "done"}]
          /\ result \in [Call -> {"none", "ok", "error"}]
          /\ alive \in [Proc -> BOOLEAN]
          /\ faulty \in BOOLEAN
          /\ met \subseteq Call \X Call

Init == /\ dir = FALSE
        /\ owner = NoCall
        /\ full = FALSE
        /\ pc = [c \in Call |-> "idle"]
        /\ seen = [c \in Call |-> NoCall]
        /\ ctx = [c \in Call |-> "live"]
        /\ result = [c \in Call |-> "none"]
        /\ alive = [p \in Proc |-> TRUE]
        /\ faulty \in FaultModes
        /\ met = {}

----------------------------------------------------------------------------
(* Steps of a call.                                                        *)

At(c, l) == pc[c] = l /\ alive[ProcOf[c]]

Goto(c, l) == /\ pc' = [pc EXCEPT ![c] = l]
              /\ UNCHANGED result

Return(c, r) == /\ pc' = [pc EXCEPT ![c] = "done"]
                /\ result' = [result EXCEPT ![c] = r]

Cancelled(c) == ctx[c] = "done"

(* os.Remove(ownerPath): whatever owner file is there, or none (tolerated). *)
RemoveOwner == /\ owner' = NoCall
               /\ full' = FALSE
               /\ UNCHANGED dir

(* os.Remove(lockDir) succeeds when the directory is empty or absent ...   *)
RemoveDirOK == /\ owner = NoCall
               /\ dir' = FALSE
               /\ UNCHANGED <<owner, full>>

(* ... and fails when it holds an owner file, or on an I/O error.          *)
RemoveDirFails == /\ owner # NoCall \/ faulty
                  /\ UNCHANGED files

Start(c) == /\ At(c, "idle")
            /\ IF Cancelled(c) THEN Return(c, "error") ELSE Goto(c, "try")
            /\ UNCHANGED <<files, seen, ctx, alive, faulty, met>>

(* The loop head: ctx.Err(), then mkdir.                                   *)
TryCreate(c) ==
    /\ At(c, "try")
    /\ \/ /\ Cancelled(c)
          /\ Return(c, "error")
          /\ UNCHANGED dir
       \/ /\ ~Cancelled(c) /\ ~dir
          /\ dir' = TRUE
          /\ Goto(c, "made")
       \/ /\ ~Cancelled(c) /\ dir
          /\ Goto(c, "inspect")
          /\ UNCHANGED dir
       \/ /\ ~Cancelled(c) /\ faulty
          /\ Return(c, "error")
          /\ UNCHANGED dir
    /\ UNCHANGED <<owner, full, seen, ctx, alive, faulty, met>>

(* recordLockOwner's O_CREATE|O_EXCL: fails when another owner file is     *)
(* there or when the directory has been removed meanwhile.                 *)
OpenOwner(c) ==
    /\ At(c, "made")
    /\ \/ /\ Cancelled(c)
          /\ Goto(c, "undoDir")
          /\ UNCHANGED files
       \/ /\ ~Cancelled(c) /\ dir /\ owner = NoCall
          /\ owner' = c
          /\ full' = FALSE
          /\ Goto(c, "opened")
          /\ UNCHANGED dir
       \/ /\ ~Cancelled(c)
          /\ ~dir \/ owner # NoCall \/ faulty
          /\ Goto(c, "undo")
          /\ UNCHANGED files
    /\ UNCHANGED <<seen, ctx, alive, faulty, met>>

(* The write goes to the file this call opened: if its name was removed,   *)
(* nothing appears at ownerPath.                                           *)
WriteOwner(c) ==
    /\ At(c, "opened")
    /\ \/ /\ full' = (full \/ owner = c)
          /\ Goto(c, "entering")
       \/ /\ faulty
          /\ UNCHANGED full
          /\ Goto(c, "undo")
    /\ UNCHANGED <<dir, owner, seen, ctx, alive, faulty, met>>

(* withLock after the acquisition: ctx.Err(), then fn().                   *)
Enter(c) ==
    /\ At(c, "entering")
    /\ IF Cancelled(c)
         THEN /\ pc' = [pc EXCEPT ![c] = "release"]
              /\ result' = [result EXCEPT ![c] = "error"]
              /\ UNCHANGED met
         ELSE /\ Goto(c, "section")
              /\ met' = met \cup ({c} \X Inside)
    /\ UNCHANGED <<files, seen, ctx, alive, faulty>>

Leave(c) == /\ At(c, "section")
            /\ Goto(c, "release")
            /\ UNCHANGED <<files, seen, ctx, alive, faulty, met>>

(* Mutant: the release does not compare the owner.                         *)
ReleaseUnchecked(c) ==
    /\ At(c, "release")
    /\ Goto(c, "unlink")
    /\ UNCHANGED <<files, seen, ctx, alive, faulty, met>>

(* releaseLock: read and compare the owner, then remove file and directory. *)
ReadForRelease(c) ==
    /\ At(c, "release")
    /\ IF owner = c /\ full
         THEN Goto(c, "unlink")
         ELSE Return(c, "error")
    /\ UNCHANGED <<files, seen, ctx, alive, faulty, met>>

Unlink(c) ==
    /\ At(c, "unlink")
    /\ \/ RemoveOwner /\ Goto(c, "rmdir")
       \/ faulty /\ UNCHANGED files /\ Return(c, "error")
    /\ UNCHANGED <<seen, ctx, alive, faulty, met>>

Rmdir(c) ==
    /\ At(c, "rmdir")
    /\ \/ RemoveDirOK /\ Return(c, IF result[c] = "error" THEN "error" ELSE "ok")
       \/ RemoveDirFails /\ Return(c, "error")
    /\ UNCHANGED <<seen, ctx, alive, faulty, met>>

(* tryReclaimDeadLock: an owner that cannot be read or decoded, or of      *)
(* another runtime, is never reclaimed.                                    *)
Inspect(c) ==
    /\ At(c, "inspect")
    /\ IF /\ owner # NoCall
          /\ full
          /\ RuntimeOf[ProcOf[owner]] = RuntimeOf[ProcOf[c]]
         THEN /\ seen' = [seen EXCEPT ![c] = owner]
              /\ Goto(c, "check")
         ELSE /\ Goto(c, "wait")
              /\ UNCHANGED seen
    /\ UNCHANGED <<files, ctx, alive, faulty, met>>

(* Mutant: the owner is taken for dead without a probe.                    *)
CheckNothing(c) ==
    /\ At(c, "check")
    /\ Goto(c, "reclaim")
    /\ UNCHANGED <<files, seen, ctx, alive, faulty, met>>

(* IsAlive on the process read from owner.json.  It may also fail to tell. *)
Check(c) ==
    /\ At(c, "check")
    /\ \/ ~alive[ProcOf[seen[c]]] /\ Goto(c, "reclaim")
       \/ /\ alive[ProcOf[seen[c]]] \/ faulty
          /\ Goto(c, "wait")
    /\ UNCHANGED <<files, seen, ctx, alive, faulty, met>>

Reclaim(c) ==
    /\ At(c, "reclaim")
    /\ \/ RemoveOwner /\ Goto(c, "reclaimDir")
       \/ faulty /\ UNCHANGED files /\ Return(c, "error")
    /\ UNCHANGED <<seen, ctx, alive, faulty, met>>

ReclaimDir(c) ==
    /\ At(c, "reclaimDir")
    /\ \/ RemoveDirOK /\ Goto(c, "try")
       \/ RemoveDirFails /\ Return(c, "error")
    /\ UNCHANGED <<seen, ctx, alive, faulty, met>>

(* Mutant: no deadline.                                                    *)
WaitForever(c) ==
    /\ At(c, "wait")
    /\ Goto(c, "try")
    /\ UNCHANGED <<files, seen, ctx, alive, faulty, met>>

(* The deadline test and the 10 ms sleep.                                  *)
Wait(c) ==
    /\ At(c, "wait")
    /\ IF ctx[c] = "live" THEN Goto(c, "try") ELSE Return(c, "error")
    /\ UNCHANGED <<files, seen, ctx, alive, faulty, met>>

(* Clean-up after a failed recordLockOwner (both removals are tried) or a  *)
(* cancellation right after mkdir (only the directory).                    *)
Undo(c) ==
    /\ At(c, "undo")
    /\ \/ RemoveOwner
       \/ faulty /\ UNCHANGED files
    /\ Goto(c, "undoDir")
    /\ UNCHANGED <<seen, ctx, alive, faulty, met>>

UndoDir(c) ==
    /\ At(c, "undoDir")
    /\ RemoveDirOK \/ RemoveDirFails
    /\ Return(c, "error")
    /\ UNCHANGED <<seen, ctx, alive, faulty, met>>

Step(c) == \/ TryCreate(c) \/ OpenOwner(c) \/ WriteOwner(c) \/ Enter(c)
           \/ Leave(c) \/ ReadForRelease(c) \/ Unlink(c) \/ Rmdir(c)
           \/ Inspect(c) \/ Check(c) \/ Reclaim(c) \/ ReclaimDir(c)
           \/ Wait(c) \/ Undo(c) \/ UndoDir(c)

----------------------------------------------------------------------------
(* The environment: time, cancellation and process exit.                   *)

Late(c) == /\ ctx[c] = "live" /\ pc[c] \notin {"idle", "done"}
           /\ ctx' = [ctx EXCEPT ![c] = "late"]
           /\ UNCHANGED <<files, pc, seen, result, alive, faulty, met>>

Cancel(c) == /\ ctx[c] # "done" /\ pc[c] # "done"
             /\ ctx' = [ctx EXCEPT ![c] = "done"]
             /\ UNCHANGED <<files, pc, seen, result, alive, faulty, met>>

(* A process that exits stops its calls where they are; the files stay.    *)
Exit(p) == /\ p \in Exits /\ alive[p]
           /\ alive' = [alive EXCEPT ![p] = FALSE]
           /\ pc' = [c \in Call |-> IF ProcOf[c] = p THEN "done" ELSE pc[c]]
           /\ result' = [c \in Call |->
                            IF ProcOf[c] = p /\ pc[c] # "done" THEN "error"
                            ELSE result[c]]
           /\ UNCHANGED <<files, seen, ctx, faulty, met>>

Finished == /\ \A c \in Call : pc[c] = "done"
            /\ UNCHANGED vars

Next == \/ \E c \in Call : Start(c) \/ Step(c) \/ Late(c) \/ Cancel(c)
        \/ \E p \in Proc : Exit(p)
        \/ Finished

(* A started call keeps running, fn() is bounded, and time passes; nobody  *)
(* need ever make a call, cancel one, or exit.                             *)
Fairness == \A c \in Call : WF_vars(Step(c)) /\ WF_vars(Late(c))

Spec == Init /\ [][Next]_vars /\ Fairness

----------------------------------------------------------------------------
(* Properties.                                                             *)

(* At most one call runs fn() at a time: what WithExclusiveLock promises.  *)
Exclusive == \A c, d \in Inside : c = d

(* The part of it that the code delivers whatever the timing, the          *)
(* cancellations and the I/O faults: no two calls are in fn() together     *)
(* as long as no process that used the lock has exited.                    *)
ExclusiveUntilExit == (\A p \in Proc : alive[p]) => Exclusive

(* When exclusion is lost (two late reclaimers, lock.go:139-144) it is     *)
(* noticed: two calls that were in fn() together never both return success, *)
(* because releaseLock finds the owner file of at most one of them.        *)
OverlapIsReported ==
    \A c, d \in Call :
        <<c, d>> \in met => ~(result[c] = "ok" /\ result[d] = "ok")

(* Without exits and I/O faults nothing is left behind: once no call is    *)
(* under way the lock directory is gone, on the cancelled paths too.       *)
NoLockLeak ==
    (/\ \A p \in Proc : alive[p]
     /\ ~faulty
     /\ \A c \in Call : pc[c] \in {"idle", "done"}) => ~dir

(* Every started call returns: a lock that can never be reclaimed (its     *)
(* maker exited between mkdir and the owner record) costs its contenders   *)
(* their deadline and nothing more.                                        *)
EveryCallReturns == \A c \in Call : pc[c] = "try" ~> pc[c] = "done"
=============================================================================
