------------------------------ MODULE Bootstrap -----------------------------
(***************************************************************************)
(* The lifecycle commands `amcd bootstrap ensure|start|stop|remove`, each  *)
(* a process of its own, over the Windows scheduled task that launches the *)
(* daemon and over the daemon's own lock and endpoint: module Daemon,      *)
(* extended.  internal/app/bootstrap_service.go, bootstrap_stop.go,        *)
(* bootstrap_receipt.go, internal/bootstrap/adapter.go, daemon.go,         *)
(* internal/daemoncli/bootstrap_cmd.go.                                    *)
(*                                                                         *)
(* A command is named by its idempotency key; a key that ran is run again  *)
(* by a retry.  The task is absent, exact or drifted; an instance of it    *)
(* runs as long as the daemon process it launched.  A command may be       *)
(* killed anywhere.  All processes belong to one boot of one host.         *)
(***************************************************************************)
EXTENDS Daemon

CONSTANTS Cmd, MaxRuns   \* bound: runs of one key

ASSUME BootstrapAssumption == "none" \notin Proc /\ "read" \notin Proc

VARIABLES task,      \* the scheduled task: "absent", "exact", "drift"
          instance,  \* the process a running task instance launched, or None
          cmd,       \* per key: where its command is
          kind,      \* per key: what it asks for
          saw,       \* per key: the endpoint record its last observation read
          probe,     \* per key: how far its look at the health is: "none",
                     \* "read", or the process whose endpoint was discovered
          held,      \* history, per key: the owner when saw was read
          aim,       \* per key: the daemon a stop found owning the lock
          receipt,   \* per key: None, "ok" or "failed"
          runs       \* per key: how often it ran

Kinds == {"ensure", "start", "stop", "remove"}
Probing == {"absent", "running", "health", "graceful"} \* inside Healthy
CmdPoints == {"idle", "ensure", "install", "start", "launch",
              "stop", "watch", "judge", "ask", "watch2", "judge2", "fallback",
              "watch3", "judge3", "unregister", "good", "bad"} \cup Probing

sight == <<saw, probe, held>>
bvars == <<task, instance, cmd, kind, sight, aim, receipt, runs>>
vars == <<dvars, bvars>>

BootstrapTypeOK ==
    /\ task \in {"absent", "exact", "drift"}
    /\ instance \in Proc \cup {None}
    /\ cmd \in [Cmd -> CmdPoints] /\ kind \in [Cmd -> Kinds]
    /\ saw \in [Cmd -> Proc \cup {None}] /\ aim \in [Cmd -> Proc \cup {None}]
    /\ probe \in [Cmd -> Proc \cup {"none", "read"}]
    /\ held \in [Cmd -> Proc \cup {Free, Bare}]
    /\ receipt \in [Cmd -> {"ok", "failed", None}]
    /\ runs \in [Cmd -> Nat]

BootstrapInit ==
    /\ DaemonInit
    /\ task = "absent" /\ instance = None
    /\ cmd = [c \in Cmd |-> "idle"] /\ kind \in [Cmd -> Kinds]
    /\ saw = [c \in Cmd |-> None] /\ aim = [c \in Cmd |-> None]
    /\ probe = [c \in Cmd |-> "none"] /\ held = [c \in Cmd |-> Free]
    /\ receipt = [c \in Cmd |-> None]
    /\ runs = [c \in Cmd |-> 0]

\* A stop that succeeded on behalf of a removal goes on to unregister the task.
Stopped(c) == IF kind[c] = "remove" THEN "unregister" ELSE "good"

Turn(c, l) == cmd' = [cmd EXCEPT ![c] = l]
TaskRunning == instance # None /\ Alive(instance)

-----------------------------------------------------------------------------
(* What the commands observe of the daemon.                                *)

\* Does an authenticated health request to p come back with p's identity?
Responds(p) == p \in listening /\ at[p] = "serve"

\* LocalDaemon.ObserveRelease: the endpoint file is read first (e), then the
\* process and the owner record, then the process is asked.
ObserveRelease(e) ==
    CASE e = None /\ lockDir = Free -> "released"
      [] e = None /\ lockDir \in Proc /\ Alive(lockDir) -> "pending"
      [] e = None /\ lockDir \in Proc /\ ~Alive(lockDir) -> "retained"
      [] e # None /\ lockDir \in {Free, e} /\ ~Alive(e) -> "retained"
      [] e # None /\ lockDir = e /\ Alive(e) /\ Responds(e) -> "healthy"
      [] e # None /\ lockDir = e /\ Alive(e) /\ ~Responds(e) -> "unavailable"
      [] OTHER -> "drift"

\* bootstrapReleased: nothing owns the state directory and the task, which was
\* inspected just before, does not run.
ReleasedEndpointOnly(c) == saw[c] = None /\ ~TaskRunning
Released(c) == ObserveRelease(saw[c]) = "released" /\ ~TaskRunning

-----------------------------------------------------------------------------
(* The commands.                                                           *)

\* mutate: the stores are writable, the admission intent is recorded, and a
\* key with a receipt is replayed from it without any effect.
Admission(c) ==
    /\ cmd[c] = "idle" /\ runs[c] < MaxRuns
    /\ runs' = [runs EXCEPT ![c] = @ + 1]
    /\ \/ /\ receipt[c] = None
          /\ Turn(c, IF kind[c] = "remove" THEN "stop" ELSE kind[c])
       \/ /\ receipt[c] # None /\ UNCHANGED cmd
    /\ UNCHANGED <<dvars, task, instance, kind, sight, aim, receipt>>

\* A step that only moves the command, decided by what it observes and by the
\* record it read before, which is then dropped.
Observe(c, from, to) ==
    /\ cmd[c] = from /\ Turn(c, to)
    /\ saw' = [saw EXCEPT ![c] = None]
    /\ UNCHANGED <<dvars, task, instance, kind, probe, held, aim, receipt, runs>>

\* What LocalDaemon.Healthy says, "yes", "no", "drift" or "error", by who asks:
\* ensureEffect, startEffect, waitHealth, daemonRequiresGracefulStop.
Afterwards(asker, verdict) ==
    CASE asker = "absent" -> {IF verdict = "no" THEN "install" ELSE "bad"}
      [] asker = "running" -> {IF verdict = "yes" THEN "good" ELSE "launch"}
      [] asker = "health" -> (IF verdict = "yes" THEN {"good"}
                              ELSE IF verdict = "no" THEN {"health", "bad"} ELSE {"bad"})
      [] asker = "graceful" -> {IF verdict = "yes" THEN "ask"
                                ELSE IF verdict = "error" THEN "bad" ELSE "watch"}
Conclude(c, verdict) ==
    /\ \E l \in Afterwards(cmd[c], verdict) : Turn(c, l)
    /\ probe' = [probe EXCEPT ![c] = "none"]
    /\ saw' = [saw EXCEPT ![c] = None] /\ held' = [held EXCEPT ![c] = Free]

\* readReadinessSnapshot: the endpoint record, or else the owner, read under
\* the singleton guard, which is waited for a second only and given back.
ReadReadinessSnapshot(c) ==
    /\ cmd[c] \in Probing /\ probe[c] = "none"
    /\ \/ guard # None /\ Conclude(c, "error")
       \/ /\ guard = None /\ endpoint # None
          /\ probe' = [probe EXCEPT ![c] = "read"]
          /\ saw' = [saw EXCEPT ![c] = endpoint] /\ held' = [held EXCEPT ![c] = lockDir]
          /\ UNCHANGED cmd
       \/ /\ guard = None /\ endpoint = None
          /\ Conclude(c, IF lockDir = Free \/ (lockDir \in Proc /\ Alive(lockDir))
                         THEN "no" ELSE "drift")
    /\ UNCHANGED <<dvars, task, instance, kind, aim, receipt, runs>>

\* Without the guard: the recorded process lives, and client.Discover reads
\* the endpoint file once more, where another daemon may be named by now.
Discover(c) ==
    /\ cmd[c] \in Probing /\ probe[c] = "read"
    /\ \/ /\ Alive(saw[c]) /\ endpoint # None
          /\ probe' = [probe EXCEPT ![c] = endpoint] /\ UNCHANGED <<cmd, saw, held>>
       \/ /\ ~Alive(saw[c]) \/ endpoint = None
          /\ Conclude(c, "drift")
    /\ UNCHANGED <<dvars, task, instance, kind, aim, receipt, runs>>

\* The health request to the discovered endpoint: the daemon of the record
\* must answer it.
AnsweredByAnyone(c) == Responds(probe[c])
Answered(c) == Responds(probe[c]) /\ probe[c] = saw[c]
AskHealth(c) ==
    /\ cmd[c] \in Probing /\ probe[c] \in Proc
    /\ Conclude(c, IF Answered(c) THEN "yes" ELSE "drift")
    /\ UNCHANGED <<dvars, task, instance, kind, aim, receipt, runs>>

\* ensureEffect: an absent task is installed unless a daemon runs without it.
Ensure(c) == Observe(c, "ensure",
    CASE task = "absent" -> "absent" [] task = "drift" -> "bad" [] OTHER -> "start")

\* The scheduler refuses to replace; a failed installation is rolled back, or
\* leaves artifacts that are drift from then on.
Install(c) ==
    /\ cmd[c] = "install"
    /\ \/ task = "absent" /\ task' = "exact" /\ Turn(c, "start") /\ UNCHANGED faults
       \/ task # "absent" /\ Turn(c, "bad") /\ UNCHANGED <<task, faults>>
       \/ Fails /\ Turn(c, "bad") /\ task' \in {task, "drift"}
    /\ UNCHANGED <<at, files, service, deaths, instance, kind, sight, aim, receipt,
                   runs>>

\* startEffect: a running, healthy task is left alone.
Start(c) == Observe(c, "start",
    IF task # "exact" THEN "bad" ELSE IF TaskRunning THEN "running" ELSE "launch")

\* StartTask launches one instance; a second one is ignored.
StartTask(c) ==
    /\ cmd[c] = "launch"
    /\ \/ task # "exact" /\ Turn(c, "bad") /\ UNCHANGED <<at, guard, instance>>
       \/ task = "exact" /\ TaskRunning /\ Turn(c, "health") /\ UNCHANGED <<at, guard, instance>>
       \/ /\ task = "exact" /\ ~TaskRunning /\ Turn(c, "health")
          /\ \E p \in Proc : at[p] = "idle" /\ guard = None
                             /\ guard' = p /\ Go(p, "guarded") /\ instance' = p
    /\ UNCHANGED <<lockDir, endpoint, torn, service, bounds, task, kind, sight, aim,
                   receipt, runs>>

\* stopEffect: an absent task is already stopped.
Stop(c) ==
    /\ cmd[c] = "stop"
    /\ Turn(c, IF task = "absent" THEN "good"
               ELSE IF task = "drift" THEN "bad" ELSE "graceful")
    /\ aim' = [aim EXCEPT ![c] = IF task = "exact" /\ lockDir \in Proc THEN lockDir
                                 ELSE None]
    /\ UNCHANGED <<dvars, task, instance, kind, sight, receipt, runs>>

\* The first half of an observation of the release: the task, the endpoint.
ReadEndpoint(c, from, to) ==
    /\ cmd[c] = from
    /\ IF task = "drift" THEN Turn(c, "bad") /\ UNCHANGED saw
       ELSE Turn(c, to) /\ saw' = [saw EXCEPT ![c] = endpoint]
    /\ UNCHANGED <<dvars, task, instance, kind, probe, held, aim, receipt, runs>>

\* daemonRequiresGracefulStop goes on for a daemon that is not simply healthy.
Watch(c) == ReadEndpoint(c, "watch", "judge")
Judge(c) == Observe(c, "judge",
    CASE ObserveRelease(saw[c]) = "healthy" -> "ask"
      [] ObserveRelease(saw[c]) = "drift" -> "bad"
      [] OTHER -> "fallback")

\* tryGracefulStop: the endpoint is asked; a daemon that cannot be reached or
\* refuses because it is shutting down already is left to the fallback.
AskStop(c) ==
    /\ cmd[c] = "ask"
    /\ \/ /\ endpoint # None /\ Responds(endpoint) /\ endpoint \notin closed
          /\ closed' = closed \cup {endpoint} /\ Turn(c, "watch2")
       \/ /\ endpoint = None \/ ~Responds(endpoint) \/ endpoint \in closed
          /\ Turn(c, "fallback") /\ UNCHANGED closed
    /\ UNCHANGED <<at, files, listening, draining, req, work, bounds, task, instance,
                   kind, sight, aim, receipt, runs>>

\* The grace interval: released, drift, another look, or its end.
GraceWatch(c) == ReadEndpoint(c, "watch2", "judge2")
GraceJudge(c) ==
    \/ Observe(c, "judge2",
         CASE Released(c) -> Stopped(c)
           [] ObserveRelease(saw[c]) = "drift" -> "bad"
           [] OTHER -> "watch2")
    \/ ~Released(c) /\ ObserveRelease(saw[c]) # "drift" /\ Observe(c, "judge2", "fallback")

\* stopTaskFallback: the task is read again and its running instance stopped;
\* the daemon under it dies with it or outlives it.
StopTask(c) ==
    /\ cmd[c] = "fallback"
    /\ \/ task = "drift" /\ Turn(c, "bad") /\ UNCHANGED <<dvars, instance>>
       \/ /\ task # "drift" /\ ~(task = "exact" /\ TaskRunning) /\ Turn(c, "watch3")
          /\ UNCHANGED <<dvars, instance>>
       \/ /\ task = "exact" /\ TaskRunning /\ Turn(c, "watch3")
          /\ instance' = None
          /\ \/ Perish(instance) /\ UNCHANGED deaths
             \/ UNCHANGED dvars
    /\ UNCHANGED <<task, kind, sight, aim, receipt, runs>>

\* waitBootstrapReleased, until the operation's deadline.
AwaitWatch(c) == ReadEndpoint(c, "watch3", "judge3")
AwaitJudge(c) ==
    \/ Observe(c, "judge3",
         CASE Released(c) -> Stopped(c)
           [] ObserveRelease(saw[c]) = "drift" -> "bad"
           [] OTHER -> "watch3")
    \/ ~Released(c) /\ Observe(c, "judge3", "bad")

\* removeEffect after a successful stop: only an exact, stopped task goes; a
\* removal that fails half-way leaves artifacts, which are drift.
Unregister(c) ==
    /\ cmd[c] = "unregister"
    /\ \/ task = "exact" /\ ~TaskRunning /\ task' = "absent" /\ Turn(c, "good") /\ UNCHANGED faults
       \/ (task # "exact" \/ TaskRunning) /\ Turn(c, "bad") /\ UNCHANGED <<task, faults>>
       \/ Fails /\ Turn(c, "bad") /\ task' \in {task, "drift"}
    /\ UNCHANGED <<at, files, service, deaths, instance, kind, sight, aim, receipt, runs>>

Outcome(c) == IF cmd[c] = "good" THEN "ok" ELSE "failed"

\* What a command knew ends with it.
Forget(c) ==
    /\ probe' = [probe EXCEPT ![c] = "none"] /\ held' = [held EXCEPT ![c] = Free]
    /\ saw' = [saw EXCEPT ![c] = None] /\ aim' = [aim EXCEPT ![c] = None]

\* finalize: the receipt of the key, exactly once, and its terminal audit; an
\* evidence failure is reported as such.
Finalize(c) ==
    /\ cmd[c] \in {"good", "bad"}
    /\ Turn(c, "idle") /\ Forget(c)
    /\ \/ /\ receipt[c] = None /\ UNCHANGED faults
          /\ receipt' = [receipt EXCEPT ![c] = Outcome(c)]
       \/ /\ Fails /\ UNCHANGED receipt
    /\ UNCHANGED <<at, files, service, deaths, task, instance, kind, runs>>

\* The command is killed; the operator may run its key again.
Kill(c) == cmd[c] # "idle" /\ deaths < MaxDeaths
    /\ Turn(c, "idle") /\ Forget(c) /\ deaths' = deaths + 1
    /\ UNCHANGED <<at, files, service, faults, task, instance, kind, receipt, runs>>

\* The logon trigger launches the task's instance, as StartTask does.
Logon ==
    /\ task = "exact" /\ ~TaskRunning /\ guard = None
    /\ \E p \in Proc : /\ at[p] = "idle" /\ guard' = p /\ Go(p, "guarded")
                       /\ instance' = p
    /\ UNCHANGED <<lockDir, endpoint, torn, service, bounds, task, cmd, kind, sight, aim,
                   receipt, runs>>

CommandStep(c) ==
    \/ Ensure(c) \/ Install(c) \/ Start(c) \/ StartTask(c)
    \/ ReadReadinessSnapshot(c) \/ Discover(c) \/ AskHealth(c)
    \/ Stop(c) \/ Watch(c) \/ Judge(c) \/ AskStop(c) \/ GraceWatch(c)
    \/ GraceJudge(c) \/ StopTask(c) \/ AwaitWatch(c) \/ AwaitJudge(c)
    \/ Unregister(c) \/ Finalize(c)

BootstrapNext ==
    \/ DaemonNext /\ UNCHANGED bvars
    \/ \E c \in Cmd : Admission(c) \/ CommandStep(c) \/ Kill(c)
    \/ Logon

BootstrapSpec == BootstrapInit /\ [][BootstrapNext]_vars

-----------------------------------------------------------------------------
\* A stop that succeeds has outlasted the daemon it was about: the process that
\* owned the state directory when the stop began has released the singleton
\* lock, through any mix of graceful stop, task stop, death and restart.
StopOutlastsDaemon ==
    \A c \in Cmd : cmd[c] \in {"unregister", "good"} /\ aim[c] # None
                  => lockDir # aim[c] /\ at[aim[c]] # "serve"

\* `ensure` and `start` succeed only on the word of one daemon: the process
\* the endpoint record named under the singleton guard owned the singleton
\* lock then, and still owns it and serves when it answers, although the guard
\* was given back in between and daemons may have ended and started since.
HealthyIsOwner ==
    [][\A c \in Cmd :
         cmd[c] \in {"running", "health"} /\ cmd'[c] = "good"
         => /\ saw[c] \in Proc /\ held[c] = saw[c]
            /\ lockDir = saw[c] /\ endpoint = saw[c] /\ at[saw[c]] = "serve"]_vars

\* docs/amcd-bootstrap.md of a successful stop: "Success requires endpoint,
\* singleton, and process ownership to disappear".  With the task absent the
\* code answers success without a look at the daemon.
StopMeansReleased ==
    [][\A c \in Cmd :
         kind[c] = "stop" /\ cmd[c] \notin {"idle", "good"} /\ cmd'[c] = "good"
         => \A p \in Proc : at[p] # "serve"]_vars
=============================================================================
