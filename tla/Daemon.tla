------------------------------- MODULE Daemon -------------------------------
(***************************************************************************)
(* The life of daemon processes over one state directory: the singleton    *)
(* lock, the startup recovery, the published endpoint, the admission of    *)
(* mutation requests and the shutdown.  internal/daemon/lock.go,           *)
(* lock_guard.go, server.go, admission.go, endpoint.go, shutdown.go,       *)
(* internal/auth/tokens.go and internal/daemoncli/cli.go.                  *)
(*                                                                         *)
(* A process is one incarnation (runtime, pid, start time), never reused.  *)
(* The guard is an operating-system file lock, freed by death; the lock    *)
(* directory and the endpoint file outlive the process.  A lock directory  *)
(* is Free, Bare (present, no readable owner record) or a process's.  What *)
(* an admitted request leaves behind is work of the operation and session  *)
(* managers, whose own shutdowns are the modules Operations and Sessions.  *)
(***************************************************************************)
EXTENDS Naturals, FiniteSets

CONSTANTS Proc, Req,
          Capacity,             \* slots of the request semaphore (100)
          MaxDeaths, MaxFaults, \* bounds: deaths, failing file operations
          Free, Bare, None

ASSUME DaemonAssumption ==
    /\ Free \notin Proc /\ Bare \notin Proc /\ None \notin Proc /\ Free # Bare
    /\ MaxDeaths \in Nat /\ MaxFaults \in Nat

VARIABLES at,        \* where each process is
          guard,     \* holder of singleton.guard, or None
          lockDir,   \* singleton.lock: Free, Bare or its recorded owner
          endpoint,  \* endpoint.json: None or the process it names
          listening, \* processes with an open listener
          closed,    \* processes whose mutation admission is closed
          draining,  \* processes whose managers refuse new work
          req,       \* per request: where it is, and at which process
          work,      \* per process: requests with live managed work
          torn,      \* history: did a lock transition die or fail half-way?
          deaths, faults

files == <<guard, lockDir, endpoint, torn>>
bounds == <<deaths, faults>>
service == <<listening, closed, draining, req, work>>
dvars == <<at, files, service, bounds>>

\* Processes that hold, or believe to hold, the singleton lock.
OwnerPoints == {"recover", "listen", "publish", "serve", "drain", "unpublish",
                "release"}
Points == {"idle", "guarded", "reclaim", "made", "abort", "leaving",
           "exited"} \cup OwnerPoints

Alive(p) == at[p] \notin {"idle", "exited"}

DaemonTypeOK ==
    /\ at \in [Proc -> Points]
    /\ guard \in Proc \cup {None}
    /\ lockDir \in Proc \cup {Free, Bare}
    /\ endpoint \in Proc \cup {None}
    /\ listening \subseteq Proc /\ closed \subseteq Proc /\ draining \subseteq Proc
    /\ req \in [Req -> [pc : {"out", "checked", "admitted", "answered"},
                        to : Proc \cup {None}]]
    /\ work \in [Proc -> SUBSET Req]
    /\ torn \in BOOLEAN /\ deaths \in Nat /\ faults \in Nat

DaemonInit ==
    /\ at = [p \in Proc |-> "idle"]
    /\ guard = None /\ lockDir = Free /\ endpoint = None /\ torn = FALSE
    /\ listening = {} /\ closed = {} /\ draining = {}
    /\ req = [r \in Req |-> [pc |-> "out", to |-> None]]
    /\ work = [p \in Proc |-> {}]
    /\ deaths = 0 /\ faults = 0

\* The process is gone: what it had accepted is answered by nobody.
Hangup(p) == [r \in Req |-> IF req[r].to = p THEN [req[r] EXCEPT !.pc = "answered"]
                            ELSE req[r]]

Go(p, l) == at' = [at EXCEPT ![p] = l]

\* A file operation fails; the bound keeps the model finite.
Fails == faults < MaxFaults /\ faults' = faults + 1
Works == UNCHANGED faults

\* NewServer prepares the directories and waits for the singleton guard.
Launch(p) ==
    /\ at[p] = "idle" /\ guard = None
    /\ guard' = p /\ Go(p, "guarded")
    /\ UNCHANGED <<lockDir, endpoint, torn, service, bounds>>

\* The directory is free: it is made, and the owner record still missing.
MakeLock(p) ==
    /\ at[p] = "guarded" /\ lockDir = Free
    /\ lockDir' = Bare /\ Go(p, "made")
    /\ UNCHANGED <<guard, endpoint, torn, service, bounds>>

\* writeOwnerRecord; a failure takes the record and the directory back.
OwnLock(p) == lockDir' = p /\ Go(p, "recover")
DisownLock(p) == lockDir' = Free /\ Go(p, "exited")
WriteOwner(p) ==
    /\ at[p] = "made" /\ guard' = None
    /\ \/ Works /\ OwnLock(p)
       \/ Fails /\ DisownLock(p)
    /\ UNCHANGED <<endpoint, torn, service, deaths>>

\* tryReclaimLock takes only the lock of an owner it can read and prove dead.
ReclaimableUnchecked == lockDir \in Proc
Reclaimable == lockDir \in Proc /\ ~Alive(lockDir)

\* ErrDaemonRunning: the owner is unreadable, alive, or cannot be checked.
RefuseLaunch(p) ==
    /\ at[p] = "guarded" /\ lockDir # Free
    /\ \/ ~Reclaimable /\ Works
       \/ Reclaimable /\ Fails
    /\ guard' = None /\ Go(p, "exited")
    /\ UNCHANGED <<lockDir, endpoint, torn, service, deaths>>

\* The dead owner's record goes first, then its directory, and Mkdir is retried.
RemoveOwner(p) ==
    /\ at[p] = "guarded" /\ Reclaimable
    /\ lockDir' = Bare /\ Go(p, "reclaim")
    /\ UNCHANGED <<guard, endpoint, torn, service, bounds>>
RemoveDir(p) ==
    /\ at[p] = "reclaim"
    /\ \/ Works /\ lockDir' = Free /\ Go(p, "guarded") /\ UNCHANGED <<guard, torn>>
       \/ Fails /\ guard' = None /\ Go(p, "exited") /\ torn' = TRUE /\ UNCHANGED lockDir
    /\ UNCHANGED <<endpoint, service, deaths>>

\* Authentication, target reconciliation and reconcileStartupState; any error
\* releases the lock again and ends the process.
Recover(p) ==
    /\ at[p] = "recover"
    /\ \/ Works /\ Go(p, "listen")
       \/ Fails /\ Go(p, "abort")
    /\ UNCHANGED <<files, service, deaths>>

\* Start: a loopback listener, then the endpoint file, then Serve.  A failed
\* write may come after the rename: the file then names this process.
Listen(p) ==
    /\ at[p] = "listen"
    /\ \/ Works /\ Go(p, "publish") /\ listening' = listening \cup {p}
       \/ Fails /\ Go(p, "abort") /\ UNCHANGED listening
    /\ UNCHANGED <<files, closed, draining, req, work, deaths>>
Publish(p) ==
    /\ at[p] = "publish"
    /\ \/ Works /\ Go(p, "serve") /\ endpoint' = p /\ UNCHANGED listening
       \/ /\ Fails /\ Go(p, "abort") /\ listening' = listening \ {p}
          /\ endpoint' \in {endpoint, p}
    /\ UNCHANGED <<guard, lockDir, torn, closed, draining, req, work, deaths>>

\* SingletonLock.Release, under the guard, of an own record only: the record,
\* then the directory.  A failure leaves the rest behind.
Release(p, l) ==
    /\ at[p] = l /\ guard = None
    /\ \/ /\ Works /\ lockDir' = IF lockDir = p THEN Free ELSE lockDir
          /\ UNCHANGED torn
       \/ /\ Fails
          /\ \/ UNCHANGED <<lockDir, torn>>
             \/ lockDir = p /\ lockDir' = Bare /\ torn' = TRUE
    /\ Go(p, "leaving")
    /\ UNCHANGED <<guard, endpoint, service, deaths>>
Abort(p) == Release(p, "abort")

\* A mutation request meets the open listener and the early admission check.
Arrive(r, p) ==
    /\ req[r].pc = "out" /\ p \in listening /\ at[p] = "serve"
    /\ req' = [req EXCEPT ![r] =
                 [pc |-> IF p \in closed THEN "answered" ELSE "checked", to |-> p]]
    /\ UNCHANGED <<at, files, listening, closed, draining, work, bounds>>

Admitted(p) == {r \in Req : req[r].pc = "admitted" /\ req[r].to = p}

\* A free slot, and the check again: the linearization point of admission.
Admit(r) ==
    /\ req[r].pc = "checked"
    /\ Cardinality(Admitted(req[r].to)) < Capacity
    /\ req' = [req EXCEPT ![r].pc =
                 IF req[r].to \in closed THEN "answered" ELSE "admitted"]
    /\ UNCHANGED <<at, files, listening, closed, draining, work, bounds>>

\* The caller goes away while its request waits for a slot.
GiveUp(r) ==
    /\ req[r].pc = "checked"
    /\ req' = [req EXCEPT ![r].pc = "answered"]
    /\ UNCHANGED <<at, files, listening, closed, draining, work, bounds>>

\* The handler hands the request to a manager, which refuses it once draining,
\* and returns, freeing its slot.
Accepts(p) == p \notin draining
Dispatch(r) ==
    LET p == req[r].to IN
    /\ req[r].pc = "admitted"
    /\ req' = [req EXCEPT ![r].pc = "answered"]
    /\ work' = IF Accepts(p) THEN [work EXCEPT ![p] = @ \cup {r}] ELSE work
    /\ UNCHANGED <<at, files, listening, closed, draining, bounds>>
WorkEnds(p) ==
    /\ \E r \in work[p] : work' = [work EXCEPT ![p] = @ \ {r}]
    /\ UNCHANGED <<at, files, listening, closed, draining, req, bounds>>

\* TriggerShutdown: an operator's stop, a signal or a failing Serve.
TriggerShutdown(p) ==
    /\ at[p] = "serve" /\ p \notin closed
    /\ closed' = closed \cup {p}
    /\ UNCHANGED <<at, files, listening, draining, req, work, bounds>>

\* Wait returns and Shutdown closes the listener, then the managers.
BeginShutdown(p) ==
    /\ at[p] = "serve" /\ p \in closed
    /\ listening' = listening \ {p} /\ draining' = draining \cup {p}
    /\ Go(p, "drain")
    /\ UNCHANGED <<files, closed, req, work, bounds>>

\* shutdownUntilDrained repeats Shutdown until both managers report drained;
\* then the event hub and the HTTP server close.
DrainedAndQuiet(p) == work[p] = {} /\ Admitted(p) = {}
DrainedByTimeout(p) == TRUE
Drained(p) == work[p] = {}
FinishDrain(p) ==
    /\ at[p] = "drain" /\ Drained(p)
    /\ Go(p, "unpublish")
    /\ UNCHANGED <<files, service, bounds>>

\* RemoveEndpointFileIfOwned, whose failure does not stop the teardown.
Unpublish(p) ==
    /\ at[p] = "unpublish"
    /\ \/ Works /\ endpoint' = IF endpoint = p THEN None ELSE endpoint
       \/ Fails /\ UNCHANGED endpoint
    /\ Go(p, "release")
    /\ UNCHANGED <<guard, lockDir, torn, service, deaths>>
FinishShutdown(p) == Release(p, "release")

\* The process ends: its listener and its work go with it.
Gone(p) ==
    /\ Go(p, "exited")
    /\ listening' = listening \ {p}
    /\ work' = [work EXCEPT ![p] = {}]
    /\ req' = Hangup(p)
    /\ UNCHANGED <<lockDir, endpoint, closed, draining, faults>>
Exit(p) ==
    /\ at[p] = "leaving" /\ Gone(p)
    /\ UNCHANGED <<guard, torn, deaths>>

\* It dies anywhere; the operating system frees its guard.
Perish(p) ==
    /\ Gone(p)
    /\ guard' = IF guard = p THEN None ELSE guard
    /\ torn' = (torn \/ at[p] \in {"made", "reclaim"})
Die(p) ==
    /\ Alive(p) /\ deaths < MaxDeaths /\ deaths' = deaths + 1
    /\ Perish(p)

ServerStep(p) ==
    \/ MakeLock(p) \/ WriteOwner(p) \/ RefuseLaunch(p) \/ RemoveOwner(p)
    \/ RemoveDir(p) \/ Recover(p) \/ Listen(p) \/ Publish(p) \/ Abort(p)
    \/ BeginShutdown(p) \/ FinishDrain(p) \/ Unpublish(p) \/ FinishShutdown(p)
    \/ Exit(p)

RequestStep(r) ==
    \/ \E p \in Proc : Arrive(r, p)
    \/ Admit(r) \/ GiveUp(r) \/ Dispatch(r)

DaemonNext ==
    \/ \E p \in Proc : Launch(p) \/ ServerStep(p) \/ TriggerShutdown(p)
                       \/ WorkEnds(p) \/ Die(p)
    \/ \E r \in Req : RequestStep(r)

\* A process that has begun keeps running, and cancelled work ends.
DaemonFairness ==
    \A p \in Proc : WF_dvars(ServerStep(p)) /\ WF_dvars(WorkEnds(p))
DaemonSpec == DaemonInit /\ [][DaemonNext]_dvars /\ DaemonFairness

-----------------------------------------------------------------------------
\* Never two processes between the acquisition of the singleton lock and its
\* release: recovery and service of a state directory are exclusive, whatever
\* processes die, restart, reclaim and release in between.
SoleOwner ==
    \A p, q \in Proc : at[p] \in OwnerPoints /\ at[q] \in OwnerPoints => p = q

\* The startup recovery of one daemon never runs beside live managed work of
\* another: a shutting daemon keeps the lock until its managers are drained.
RecoveryIsAlone ==
    \A p, q \in Proc : at[p] \in {"recover", "listen", "publish"} => work[q] = {}

\* A lock directory that no later daemon can reclaim (present, ownerless) is
\* left only by a death or a failed removal inside a lock transition.
WedgedOnlyWhenTorn == lockDir = Bare /\ guard = None => torn

\* A daemon told to stop ends, giving the lock back, however its requests and
\* its work interleave with the shutdown.
StopCompletes == \A p \in Proc : (p \in closed) ~> ~Alive(p)
=============================================================================
