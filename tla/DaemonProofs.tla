---------------------------- MODULE DaemonProofs ----------------------------
(***************************************************************************)
(* Proofs about Daemon, and about the commands of Bootstrap over it, for   *)
(* any processes, requests and commands, any capacity and any number of    *)
(* deaths, failing file operations and retries.                            *)
(***************************************************************************)
EXTENDS Bootstrap, TLAPS

(* Whoever is inside a lock transition of the launch has the guard.        *)
Guarded == \A p \in Proc : at[p] \in {"guarded", "made", "reclaim"} => guard = p

(* From its owner record to its release a process is the recorded owner,   *)
(* and while it makes or reclaims the directory nobody is.                 *)
Owns == /\ \A p \in Proc : at[p] \in OwnerPoints \cup {"abort"} => lockDir = p
        /\ \A p \in Proc : at[p] \in {"made", "reclaim"} => lockDir = Bare

(* An ownerless directory has somebody at work on it, or was torn.         *)
Explained == lockDir = Bare =>
                 torn \/ \E p \in Proc : at[p] \in {"made", "reclaim"}

(* A request that may still become work is at a process that serves, or    *)
(* whose managers refuse it; and only such processes have work.            *)
Routed == \A r \in Req : req[r].pc \in {"checked", "admitted"} =>
              /\ req[r].to \in Proc
              /\ at[req[r].to] = "serve" \/ req[r].to \in draining
Working == \A p \in Proc : work[p] # {} => at[p] \in {"serve", "drain"}

Inv == DaemonTypeOK /\ Guarded /\ Owns /\ Explained /\ Routed /\ Working

(* A fresh state directory with no process satisfies the invariant.        *)
LEMMA InitInv == DaemonInit => Inv
<1> SUFFICES ASSUME DaemonInit PROVE Inv
  OBVIOUS
<1>1. DaemonTypeOK
  BY DaemonAssumption DEF DaemonInit, DaemonTypeOK, Points
<1>2. Guarded /\ Owns /\ Explained
  BY DaemonAssumption DEF DaemonInit, Guarded, Owns, OwnerPoints, Explained
<1>3. Routed /\ Working
  BY DEF DaemonInit, Routed, Working
<1> QED BY <1>1, <1>2, <1>3 DEF Inv

(* So does the end of a process, by a death or with its task instance.     *)
LEMMA PerishInv ==
    ASSUME Inv, NEW p \in Proc, Alive(p), Perish(p), deaths' \in Nat
    PROVE  Inv'
<1> USE DaemonAssumption DEF Inv, Go, Perish, Gone, Hangup, Alive, DaemonTypeOK
<1>0. torn' \in BOOLEAN
  BY Zenon
<1>1. DaemonTypeOK'
  BY <1>0 DEF Points, OwnerPoints
<1>2. Guarded' /\ Owns' /\ Explained'
  BY DEF Guarded, Owns, OwnerPoints, Explained
<1>3. Routed' /\ Working'
  BY DEF Routed, Working
<1> QED BY <1>1, <1>2, <1>3

(* Every step of a daemon process preserves it: its launch and lock, its   *)
(* service, its shutdown and its death.                                    *)
LEMMA ProcessInv ==
    ASSUME Inv, NEW p \in Proc,
           Launch(p) \/ ServerStep(p) \/ TriggerShutdown(p) \/ WorkEnds(p) \/ Die(p)
    PROVE  Inv'
<1> USE DaemonAssumption DEF Inv, Go, Fails, Works, files, service, bounds
<1>1. CASE Launch(p)
  <2>1. DaemonTypeOK'
    BY <1>1 DEF Launch, DaemonTypeOK, Points, OwnerPoints
  <2>2. Guarded' /\ Owns' /\ Explained'
    BY <1>1 DEF Launch, DaemonTypeOK, Guarded, Owns, OwnerPoints, Explained
  <2>3. Routed' /\ Working'
    BY <1>1 DEF Launch, DaemonTypeOK, Routed, Working
  <2> QED BY <2>1, <2>2, <2>3
<1>2. CASE MakeLock(p)
  <2>1. DaemonTypeOK'
    BY <1>2 DEF MakeLock, DaemonTypeOK, Points, OwnerPoints
  <2>2. Guarded' /\ Owns' /\ Explained'
    BY <1>2 DEF MakeLock, DaemonTypeOK, Guarded, Owns, OwnerPoints, Explained
  <2>3. Routed' /\ Working'
    BY <1>2 DEF MakeLock, DaemonTypeOK, Routed, Working
  <2> QED BY <2>1, <2>2, <2>3
<1>3. CASE WriteOwner(p)
  <2>1. DaemonTypeOK'
    BY <1>3 DEF WriteOwner, OwnLock, DisownLock, DaemonTypeOK, Points, OwnerPoints
  <2>2. Guarded' /\ Owns' /\ Explained'
    BY <1>3 DEF WriteOwner, OwnLock, DisownLock, DaemonTypeOK, Guarded, Owns, OwnerPoints, Explained
  <2>3. Routed' /\ Working'
    BY <1>3 DEF WriteOwner, OwnLock, DisownLock, DaemonTypeOK, Routed, Working
  <2> QED BY <2>1, <2>2, <2>3
<1>4. CASE RefuseLaunch(p)
  <2>1. DaemonTypeOK'
    BY <1>4 DEF RefuseLaunch, DaemonTypeOK, Points, OwnerPoints
  <2>2. Guarded' /\ Owns' /\ Explained'
    BY <1>4 DEF RefuseLaunch, DaemonTypeOK, Guarded, Owns, OwnerPoints, Explained
  <2>3. Routed' /\ Working'
    BY <1>4 DEF RefuseLaunch, DaemonTypeOK, Routed, Working
  <2> QED BY <2>1, <2>2, <2>3
<1>5. CASE RemoveOwner(p)
  <2>1. DaemonTypeOK'
    BY <1>5 DEF RemoveOwner, Reclaimable, Alive, DaemonTypeOK, Points, OwnerPoints
  <2>2. Guarded' /\ Owns' /\ Explained'
    BY <1>5 DEF RemoveOwner, Reclaimable, Alive, DaemonTypeOK, Guarded, Owns, OwnerPoints, Explained
  <2>3. Routed' /\ Working'
    BY <1>5 DEF RemoveOwner, Reclaimable, Alive, DaemonTypeOK, Routed, Working
  <2> QED BY <2>1, <2>2, <2>3
<1>6. CASE RemoveDir(p)
  <2>0. torn' \in BOOLEAN
    BY <1>6, Zenon DEF RemoveDir, DaemonTypeOK
  <2>1. DaemonTypeOK'
    BY <1>6, <2>0 DEF RemoveDir, DaemonTypeOK, Points, OwnerPoints
  <2>2. Guarded' /\ Owns' /\ Explained'
    BY <1>6 DEF RemoveDir, DaemonTypeOK, Guarded, Owns, OwnerPoints, Explained
  <2>3. Routed' /\ Working'
    BY <1>6 DEF RemoveDir, DaemonTypeOK, Routed, Working
  <2> QED BY <2>1, <2>2, <2>3
<1>7. CASE Recover(p)
  <2>1. DaemonTypeOK'
    BY <1>7 DEF Recover, DaemonTypeOK, Points, OwnerPoints
  <2>2. Guarded' /\ Owns' /\ Explained'
    BY <1>7 DEF Recover, DaemonTypeOK, Guarded, Owns, OwnerPoints, Explained
  <2>3. Routed' /\ Working'
    BY <1>7 DEF Recover, DaemonTypeOK, Routed, Working
  <2> QED BY <2>1, <2>2, <2>3
<1>8. CASE Listen(p)
  <2>1. DaemonTypeOK'
    BY <1>8 DEF Listen, DaemonTypeOK, Points, OwnerPoints
  <2>2. Guarded' /\ Owns' /\ Explained'
    BY <1>8 DEF Listen, DaemonTypeOK, Guarded, Owns, OwnerPoints, Explained
  <2>3. Routed' /\ Working'
    BY <1>8 DEF Listen, DaemonTypeOK, Routed, Working
  <2> QED BY <2>1, <2>2, <2>3
<1>9. CASE Publish(p)
  <2>1. DaemonTypeOK'
    BY <1>9 DEF Publish, DaemonTypeOK, Points, OwnerPoints
  <2>2. Guarded' /\ Owns' /\ Explained'
    BY <1>9 DEF Publish, DaemonTypeOK, Guarded, Owns, OwnerPoints, Explained
  <2>3. Routed' /\ Working'
    BY <1>9 DEF Publish, DaemonTypeOK, Routed, Working
  <2> QED BY <2>1, <2>2, <2>3
<1>10. CASE Abort(p)
  <2>0. torn' \in BOOLEAN
    BY <1>10, Zenon DEF Abort, Release, DaemonTypeOK
  <2>1. DaemonTypeOK'
    BY <1>10, <2>0 DEF Abort, Release, DaemonTypeOK, Points, OwnerPoints
  <2>2. Guarded' /\ Owns' /\ Explained'
    BY <1>10 DEF Abort, Release, DaemonTypeOK, Guarded, Owns, OwnerPoints, Explained
  <2>3. Routed' /\ Working'
    BY <1>10 DEF Abort, Release, DaemonTypeOK, Routed, Working
  <2> QED BY <2>1, <2>2, <2>3
<1>11. CASE BeginShutdown(p)
  <2>1. DaemonTypeOK'
    BY <1>11 DEF BeginShutdown, DaemonTypeOK, Points, OwnerPoints
  <2>2. Guarded' /\ Owns' /\ Explained'
    BY <1>11 DEF BeginShutdown, DaemonTypeOK, Guarded, Owns, OwnerPoints, Explained
  <2>3. Routed' /\ Working'
    BY <1>11 DEF BeginShutdown, DaemonTypeOK, Routed, Working
  <2> QED BY <2>1, <2>2, <2>3
<1>12. CASE FinishDrain(p)
  <2>1. DaemonTypeOK'
    BY <1>12 DEF FinishDrain, Drained, DaemonTypeOK, Points, OwnerPoints
  <2>2. Guarded' /\ Owns' /\ Explained'
    BY <1>12 DEF FinishDrain, Drained, DaemonTypeOK, Guarded, Owns, OwnerPoints, Explained
  <2>3. Routed' /\ Working'
    BY <1>12 DEF FinishDrain, Drained, DaemonTypeOK, Routed, Working
  <2> QED BY <2>1, <2>2, <2>3
<1>13. CASE Unpublish(p)
  <2>1. DaemonTypeOK'
    BY <1>13 DEF Unpublish, DaemonTypeOK, Points, OwnerPoints
  <2>2. Guarded' /\ Owns' /\ Explained'
    BY <1>13 DEF Unpublish, DaemonTypeOK, Guarded, Owns, OwnerPoints, Explained
  <2>3. Routed' /\ Working'
    BY <1>13 DEF Unpublish, DaemonTypeOK, Routed, Working
  <2> QED BY <2>1, <2>2, <2>3
<1>14. CASE FinishShutdown(p)
  <2>0. torn' \in BOOLEAN
    BY <1>14, Zenon DEF FinishShutdown, Release, DaemonTypeOK
  <2>1. DaemonTypeOK'
    BY <1>14, <2>0 DEF FinishShutdown, Release, DaemonTypeOK, Points, OwnerPoints
  <2>2. Guarded' /\ Owns' /\ Explained'
    BY <1>14 DEF FinishShutdown, Release, DaemonTypeOK, Guarded, Owns, OwnerPoints, Explained
  <2>3. Routed' /\ Working'
    BY <1>14 DEF FinishShutdown, Release, DaemonTypeOK, Routed, Working
  <2> QED BY <2>1, <2>2, <2>3
<1>15. CASE Exit(p)
  <2>1. DaemonTypeOK'
    BY <1>15 DEF Exit, Gone, Hangup, DaemonTypeOK, Points, OwnerPoints
  <2>2. Guarded' /\ Owns' /\ Explained'
    BY <1>15 DEF Exit, Gone, Hangup, DaemonTypeOK, Guarded, Owns, OwnerPoints, Explained
  <2>3. Routed' /\ Working'
    BY <1>15 DEF Exit, Gone, Hangup, DaemonTypeOK, Routed, Working
  <2> QED BY <2>1, <2>2, <2>3
<1>16. CASE TriggerShutdown(p)
  <2>1. DaemonTypeOK'
    BY <1>16 DEF TriggerShutdown, DaemonTypeOK, Points, OwnerPoints
  <2>2. Guarded' /\ Owns' /\ Explained'
    BY <1>16 DEF TriggerShutdown, DaemonTypeOK, Guarded, Owns, OwnerPoints, Explained
  <2>3. Routed' /\ Working'
    BY <1>16 DEF TriggerShutdown, DaemonTypeOK, Routed, Working
  <2> QED BY <2>1, <2>2, <2>3
<1>17. CASE WorkEnds(p)
  <2>1. DaemonTypeOK'
    BY <1>17 DEF WorkEnds, DaemonTypeOK, Points, OwnerPoints
  <2>2. Guarded' /\ Owns' /\ Explained'
    BY <1>17 DEF WorkEnds, DaemonTypeOK, Guarded, Owns, OwnerPoints, Explained
  <2>3. Routed' /\ Working'
    BY <1>17 DEF WorkEnds, DaemonTypeOK, Routed, Working
  <2> QED BY <2>1, <2>2, <2>3
<1>18. CASE Die(p)
  <2>1. deaths' \in Nat
    BY <1>18 DEF Die, DaemonTypeOK
  <2> QED BY <1>18, <2>1, PerishInv DEF Die
<1> QED
  BY <1>1, <1>2, <1>3, <1>4, <1>5, <1>6, <1>7, <1>8, <1>9, <1>10, <1>11, <1>12, <1>13, <1>14,
      <1>15, <1>16, <1>17, <1>18 DEF ServerStep

(* Every step of a request through a daemon's handlers preserves it.       *)
LEMMA RequestInv ==
    ASSUME Inv, NEW r \in Req, RequestStep(r)
    PROVE  Inv'
<1> USE DEF Inv, files, bounds
<1>1. ASSUME NEW p \in Proc, Arrive(r, p) PROVE Inv'
  <2>1. DaemonTypeOK' BY <1>1 DEF Arrive, DaemonTypeOK
  <2>2. Guarded' /\ Owns' /\ Explained' BY <1>1 DEF Arrive, Guarded, Owns, Explained
  <2>3. Routed' /\ Working' BY <1>1 DEF Arrive, DaemonTypeOK, Routed, Working
  <2> QED BY <2>1, <2>2, <2>3
<1>2. CASE Admit(r) \/ GiveUp(r)
  <2>1. DaemonTypeOK' BY <1>2 DEF Admit, GiveUp, DaemonTypeOK
  <2>2. Guarded' /\ Owns' /\ Explained' BY <1>2 DEF Admit, GiveUp, Guarded, Owns, Explained
  <2>3. Routed' /\ Working' BY <1>2 DEF Admit, GiveUp, DaemonTypeOK, Routed, Working
  <2> QED BY <2>1, <2>2, <2>3
<1>3. CASE Dispatch(r)
  <2>1. DaemonTypeOK' BY <1>3 DEF Dispatch, DaemonTypeOK, Routed
  <2>2. Guarded' /\ Owns' /\ Explained' BY <1>3 DEF Dispatch, Guarded, Owns, Explained
  <2>3. Routed' BY <1>3 DEF Dispatch, DaemonTypeOK, Routed
  <2>4. Working' BY <1>3 DEF Dispatch, Accepts, DaemonTypeOK, Routed, Working
  <2> QED BY <2>1, <2>2, <2>3, <2>4
<1> QED BY <1>1, <1>2, <1>3 DEF RequestStep

(* The inductive invariant of the daemon's life: who holds the guard,      *)
(* whose record is in the lock directory, where requests and work can be.  *)
LEMMA DaemonInvariant == DaemonSpec => []Inv
<1>1. Inv /\ [DaemonNext]_dvars => Inv'
  <2> SUFFICES ASSUME Inv, [DaemonNext]_dvars PROVE Inv'
    OBVIOUS
  <2>1. CASE DaemonNext
    BY <2>1, ProcessInv, RequestInv DEF DaemonNext
  <2>2. CASE UNCHANGED dvars
    BY <2>2 DEF dvars, files, service, bounds, Inv, DaemonTypeOK, Guarded, Owns,
                Explained, Routed, Working
  <2> QED BY <2>1, <2>2
<1> QED BY <1>1, InitInv, PTL DEF DaemonSpec

(* The daemon's state has its type, whatever processes and requests there  *)
(* are.                                                                    *)
THEOREM DaemonTypeCorrect == DaemonSpec => []DaemonTypeOK
<1>1. Inv => DaemonTypeOK BY DEF Inv
<1> QED BY <1>1, DaemonInvariant, PTL

(* AcquireSingletonLock and Release: at most one process is between the    *)
(* acquisition of the singleton lock and its release, whoever dies,        *)
(* reclaims or fails in between.                                           *)
THEOREM DaemonSoleOwner == DaemonSpec => []SoleOwner
<1>1. Inv => SoleOwner BY DEF Inv, Owns, SoleOwner
<1> QED BY <1>1, DaemonInvariant, PTL

(* Shutdown keeps the lock until the managers are drained, so that the     *)
(* startup recovery of a daemon never runs beside the work of another.     *)
THEOREM DaemonRecoveryIsAlone == DaemonSpec => []RecoveryIsAlone
<1>1. Inv => RecoveryIsAlone
  BY DEF Inv, Owns, OwnerPoints, Working, RecoveryIsAlone
<1> QED BY <1>1, DaemonInvariant, PTL

(* tryReclaimLock refuses an ownerless directory for good: one that nobody *)
(* is at work on stems from a death or a failure inside a lock transition. *)
THEOREM DaemonWedgedOnlyWhenTorn == DaemonSpec => []WedgedOnlyWhenTorn
<1>1. Inv => WedgedOnlyWhenTorn
  BY DaemonAssumption DEF Inv, Guarded, Explained, WedgedOnlyWhenTorn
<1> QED BY <1>1, DaemonInvariant, PTL

-----------------------------------------------------------------------------
(* The commands of Bootstrap.  A process that was the recorded owner of    *)
(* the lock, which is what a stop aims at, is never again on its way to    *)
(* become it: an incarnation takes the lock at most once.                  *)
Past(p) == at[p] \in OwnerPoints \cup {"abort", "leaving", "exited"}
AimIsPast ==
    /\ lockDir \in Proc => Past(lockDir)
    /\ \A c \in Cmd : aim[c] \in Proc => Past(aim[c])

Aimless == {"idle", "ensure", "absent", "install", "start", "running", "launch",
            "health", "stop"}

(* Only a stop has an aim, and its success saw the lock released since.    *)
AimIsGone ==
    /\ \A c \in Cmd : cmd[c] \in Aimless => aim[c] = None
    /\ \A c \in Cmd : cmd[c] \in {"unregister", "good"} /\ aim[c] # None
                       => lockDir # aim[c]

(* A daemon that serves is the one the endpoint file names, and the file   *)
(* names no daemon before it serves.                                       *)
Ended == {"drain", "unpublish", "release", "abort", "leaving", "exited"}
Named ==
    /\ \A p \in Proc : at[p] = "serve" => endpoint = p
    /\ endpoint \in Proc => at[endpoint] \in Ended \cup {"serve"}

(* Inside Healthy: the daemon of the record owned the lock when the record *)
(* was read, or it has ended its service for good.                         *)
Witnessed ==
    \A c \in Cmd :
        /\ probe[c] # "none" => cmd[c] \in Probing
        /\ probe[c] # "none" /\ saw[c] \in Proc
           => held[c] = saw[c] \/ at[saw[c]] \in Ended

BootstrapInv ==
    Inv /\ BootstrapTypeOK /\ AimIsPast /\ AimIsGone /\ Named /\ Witnessed

(* Before the first command there is no task and no daemon.                *)
LEMMA BootstrapInitInv == BootstrapInit => BootstrapInv
<1> SUFFICES ASSUME BootstrapInit PROVE BootstrapInv
  OBVIOUS
<1>1. Inv
  BY InitInv DEF BootstrapInit
<1>2. BootstrapTypeOK
  BY DEF BootstrapInit, BootstrapTypeOK, CmdPoints
<1>3. AimIsPast /\ AimIsGone
  BY DaemonAssumption DEF BootstrapInit, DaemonInit, AimIsPast, AimIsGone
<1>4. Named /\ Witnessed
  BY DaemonAssumption DEF BootstrapInit, DaemonInit, Named, Witnessed
<1> QED BY <1>1, <1>2, <1>3, <1>4 DEF BootstrapInv

(* A step that leaves the daemon alone, whatever else it does to the       *)
(* bounds, keeps the daemon's invariant.                                   *)
LEMMA QuietInv ==
    ASSUME Inv, UNCHANGED <<at, files, listening, draining, req, work>>,
           closed' \subseteq Proc, deaths' \in Nat, faults' \in Nat
    PROVE  Inv'
<1> USE DEF Inv, files
<1>1. DaemonTypeOK'
  BY DEF DaemonTypeOK
<1>2. Guarded' /\ Owns' /\ Explained'
  BY DEF Guarded, Owns, Explained
<1>3. Routed' /\ Working'
  BY DEF Routed, Working
<1> QED BY <1>1, <1>2, <1>3

(* The scheduler's launch of an instance is a launch of the daemon.        *)
LEMMA InstanceInv ==
    ASSUME Inv, NEW p \in Proc, at[p] = "idle", guard = None, guard' = p,
           Go(p, "guarded"), UNCHANGED <<lockDir, endpoint, torn, service, bounds>>
    PROVE  Inv'
<1>1. Launch(p)
  BY DEF Launch
<1> QED BY <1>1, ProcessInv

(* Every step of every command keeps the daemon's invariant.               *)
LEMMA CommandKeepsDaemon ==
    ASSUME BootstrapInv, BootstrapNext
    PROVE  Inv'
<1> USE DEF BootstrapInv
<1>0. /\ DaemonTypeOK /\ Inv
      /\ faults \in Nat /\ deaths \in Nat /\ closed \subseteq Proc
  BY DEF Inv, DaemonTypeOK
<1>q. ASSUME UNCHANGED dvars PROVE Inv'
  BY <1>0, <1>q, QuietInv DEF dvars, files, service, bounds
<1>1. CASE DaemonNext
  BY <1>1, <1>0, ProcessInv, RequestInv DEF DaemonNext
<1>2. ASSUME NEW c \in Cmd, Admission(c) PROVE Inv'
  BY <1>2, <1>q DEF Admission
<1>3. ASSUME NEW c \in Cmd, Kill(c) PROVE Inv'
  BY <1>3, <1>0, QuietInv DEF Kill, files, service
<1>4. ASSUME NEW c \in Cmd, CommandStep(c) PROVE Inv'
  <2>1. CASE \/ Ensure(c) \/ Start(c) \/ ReadReadinessSnapshot(c) \/ Discover(c)
             \/ AskHealth(c) \/ Stop(c) \/ Watch(c) \/ Judge(c) \/ GraceWatch(c)
             \/ GraceJudge(c) \/ AwaitWatch(c) \/ AwaitJudge(c)
    <3>1. UNCHANGED dvars
      BY <2>1 DEF Ensure, Start, ReadReadinessSnapshot, Discover, AskHealth, Stop, Watch, Judge, GraceWatch, GraceJudge,
                  AwaitWatch, AwaitJudge, Observe, ReadEndpoint
    <3> QED BY <3>1, <1>q
  <2>2. CASE Install(c) \/ Unregister(c) \/ Finalize(c)
    <3>1. faults' \in Nat /\ deaths' = deaths
      BY <2>2, <1>0 DEF Install, Unregister, Finalize, Fails
    <3>2. UNCHANGED <<at, files, listening, closed, draining, req, work>>
      BY <2>2 DEF Install, Unregister, Finalize, service
    <3> QED BY <3>1, <3>2, <1>0, QuietInv
  <2>3. CASE StartTask(c)
    <3>1. CASE UNCHANGED <<at, guard, instance>>
      BY <3>1, <2>3, <1>q DEF StartTask, dvars, files
    <3>2. CASE \E p \in Proc : at[p] = "idle" /\ guard = None
                             /\ guard' = p /\ Go(p, "guarded") /\ instance' = p
      BY <3>2, <2>3, <1>0, InstanceInv DEF StartTask
    <3> QED BY <2>3, <3>1, <3>2 DEF StartTask
  <2>4. CASE AskStop(c)
    <3>1. closed' \subseteq Proc
      BY <2>4, <1>0 DEF AskStop, Inv, DaemonTypeOK
    <3> QED BY <2>4, <3>1, <1>0, QuietInv DEF AskStop, bounds
  <2>5. CASE StopTask(c)
    <3>1. CASE UNCHANGED dvars
      BY <3>1, <1>q
    <3>2. CASE TaskRunning /\ Perish(instance) /\ UNCHANGED deaths
      BY <3>2, <1>0, PerishInv DEF TaskRunning, BootstrapTypeOK
    <3> QED BY <2>5, <3>1, <3>2 DEF StopTask
  <2> QED BY <1>4, <2>1, <2>2, <2>3, <2>4, <2>5 DEF CommandStep
<1>5. CASE Logon
  BY <1>5, <1>0, InstanceInv DEF Logon
<1> QED BY <1>1, <1>2, <1>3, <1>4, <1>5 DEF BootstrapNext

(* A past owner stays past: no step of a process or of the scheduler takes *)
(* it back to a launch, and only a process at its first launch becomes the *)
(* recorded owner.                                                         *)
LEMMA PastStays ==
    ASSUME BootstrapInv, BootstrapNext
    PROVE  /\ \A p \in Proc : Past(p) => Past(p)'
           /\ \A p \in Proc : lockDir' = p => lockDir = p \/ (~Past(p) /\ Past(p)')
<1> USE DEF Past, OwnerPoints, Go
<1>0. at \in [Proc -> Points]
  BY DEF BootstrapInv, Inv, DaemonTypeOK
<1>u. ASSUME UNCHANGED <<at, lockDir>>
      PROVE  /\ \A p \in Proc : Past(p) => Past(p)'
             /\ lockDir' = lockDir
  BY <1>u
<1>1. ASSUME NEW p \in Proc, Launch(p)
      PROVE  (\A q \in Proc : Past(q) => Past(q)') /\ lockDir' = lockDir
  BY <1>1, <1>0 DEF Launch
<1>2. ASSUME NEW p \in Proc, ServerStep(p)
      PROVE  /\ \A q \in Proc : Past(q) => Past(q)'
             /\ \A q \in Proc : lockDir' = q => lockDir = q \/ (~Past(q) /\ Past(q)')
  <2>1. CASE WriteOwner(p)
    <3>1. CASE OwnLock(p)
      <4>1. lockDir' = p /\ at' = [at EXCEPT ![p] = "recover"] /\ at[p] = "made"
        BY <2>1, <3>1 DEF WriteOwner, OwnLock
      <4>2. ~Past(p) /\ Past(p)'
        BY <4>1, <1>0
      <4>3. \A q \in Proc : Past(q) => Past(q)'
        BY <4>1, <1>0
      <4> QED BY <4>1, <4>2, <4>3
    <3>2. CASE DisownLock(p)
      BY <2>1, <3>2, <1>0, DaemonAssumption DEF WriteOwner, DisownLock
    <3> QED BY <2>1, <3>1, <3>2 DEF WriteOwner
  <2>2. CASE MakeLock(p) \/ RemoveOwner(p) \/ RemoveDir(p)
    BY <2>2, <1>0, DaemonAssumption DEF MakeLock, RemoveOwner, RemoveDir
  <2>3. CASE RefuseLaunch(p) \/ Recover(p) \/ Listen(p) \/ Publish(p)
    BY <2>3, <1>0 DEF RefuseLaunch, Recover, Listen, Publish, files
  <2>4. CASE BeginShutdown(p) \/ FinishDrain(p) \/ Unpublish(p)
    BY <2>4, <1>0 DEF BeginShutdown, FinishDrain, Unpublish, files
  <2>5. CASE Abort(p) \/ FinishShutdown(p)
    BY <2>5, <1>0, DaemonAssumption DEF Abort, FinishShutdown, Release
  <2>6. CASE Exit(p)
    BY <2>6, <1>0 DEF Exit, Gone
  <2> QED BY <1>2, <2>1, <2>2, <2>3, <2>4, <2>5, <2>6 DEF ServerStep
<1>3. ASSUME NEW p \in Proc, Perish(p)
      PROVE  (\A q \in Proc : Past(q) => Past(q)') /\ lockDir' = lockDir
  BY <1>3, <1>0 DEF Perish, Gone
<1>4. CASE DaemonNext
  <2>1. CASE \E r \in Req : RequestStep(r)
    <3>1. UNCHANGED <<at, lockDir>>
      BY <2>1 DEF RequestStep, Arrive, Admit, GiveUp, Dispatch, files
    <3> QED BY <3>1, <1>u
  <2>2. ASSUME NEW p \in Proc, TriggerShutdown(p) \/ WorkEnds(p)
        PROVE  UNCHANGED <<at, lockDir>>
    BY <2>2 DEF TriggerShutdown, WorkEnds, files
  <2>3. ASSUME NEW p \in Proc, Die(p) PROVE Perish(p)
    BY <2>3 DEF Die
  <2> QED BY <1>4, <2>1, <2>2, <2>3, <1>u, <1>1, <1>2, <1>3 DEF DaemonNext
<1>5. ASSUME NEW c \in Cmd, StopTask(c)
      PROVE  (\A q \in Proc : Past(q) => Past(q)') /\ lockDir' = lockDir
  <2>1. CASE UNCHANGED dvars
    BY <2>1 DEF dvars, files
  <2>2. CASE TaskRunning /\ Perish(instance)
    BY <2>2, <1>3 DEF TaskRunning, BootstrapInv, BootstrapTypeOK
  <2> QED BY <1>5, <2>1, <2>2 DEF StopTask
<1>6. ASSUME NEW c \in Cmd, StartTask(c)
      PROVE  (\A q \in Proc : Past(q) => Past(q)') /\ lockDir' = lockDir
  BY <1>6, <1>0 DEF StartTask
<1>7. ASSUME NEW c \in Cmd, Admission(c) \/ Kill(c)
      PROVE  UNCHANGED <<at, lockDir>>
  BY <1>7 DEF Admission, Kill, dvars, files
<1>8. ASSUME NEW c \in Cmd, CommandStep(c), ~StopTask(c), ~StartTask(c)
      PROVE  UNCHANGED <<at, lockDir>>
  BY <1>8 DEF CommandStep, Ensure, Install, Start, ReadReadinessSnapshot, Discover, AskHealth, Stop, Watch, Judge, AskStop,
              GraceWatch, GraceJudge, AwaitWatch, AwaitJudge, Unregister, Finalize,
              Observe, ReadEndpoint, dvars, files
<1>9. CASE Logon
  BY <1>9, <1>0 DEF Logon
<1> QED BY <1>4, <1>5, <1>6, <1>7, <1>8, <1>9, <1>u DEF BootstrapNext

(* A command that succeeds on a release it observed saw the lock free.     *)
LEMMA ReleasedIsFree ==
    ASSUME NEW c \in Cmd, Released(c)
    PROVE  lockDir = Free
BY DEF Released, ObserveRelease

(* A step of a command leaves the owner record alone, and its new place    *)
(* and aim agree: an aim is taken by a stop only, from the owner record,   *)
(* and success with an aim needs a free lock or an earlier success.        *)
LEMMA CommandMoves ==
    ASSUME BootstrapInv, NEW c \in Cmd, Admission(c) \/ CommandStep(c) \/ Kill(c)
    PROVE  \E l \in CmdPoints, a \in Proc \cup {None} :
              /\ cmd' = [cmd EXCEPT ![c] = l] /\ aim' = [aim EXCEPT ![c] = a]
              /\ lockDir' = lockDir
              /\ a \in {None, aim[c], lockDir}
              /\ l \in Aimless => a = None
              /\ l \in {"unregister", "good"} /\ a # None
                 => lockDir = Free \/ (cmd[c] = "unregister" /\ a = aim[c])
<1> USE DaemonAssumption DEF Turn
<1> DEFINE Moves(l, a) ==
              /\ cmd' = [cmd EXCEPT ![c] = l] /\ aim' = [aim EXCEPT ![c] = a]
              /\ lockDir' = lockDir
              /\ a \in {None, aim[c], lockDir}
              /\ l \in Aimless => a = None
              /\ l \in {"unregister", "good"} /\ a # None
                 => lockDir = Free \/ (cmd[c] = "unregister" /\ a = aim[c])
<1> SUFFICES \E l \in CmdPoints, a \in Proc \cup {None} : Moves(l, a)
  OBVIOUS
<1>0. /\ cmd \in [Cmd -> CmdPoints] /\ aim \in [Cmd -> Proc \cup {None}]
      /\ kind \in [Cmd -> Kinds]
      /\ cmd[c] \in Aimless => aim[c] = None
      /\ aim[c] \in Proc \cup {None} /\ cmd[c] \in CmdPoints /\ kind[c] \in Kinds
  BY DEF BootstrapInv, BootstrapTypeOK, AimIsGone
<1>a. ASSUME UNCHANGED aim PROVE aim' = [aim EXCEPT ![c] = aim[c]]
  BY <1>0, <1>a
<1>k. ASSUME NEW l, cmd' = [cmd EXCEPT ![c] = l], UNCHANGED <<aim, lockDir>>,
             l \in CmdPoints,
             l \in Aimless => aim[c] = None,
             l \in {"unregister", "good"} /\ aim[c] # None
                 => lockDir = Free \/ cmd[c] = "unregister"
      PROVE  \E m \in CmdPoints, a \in Proc \cup {None} : Moves(m, a)
  <2>1. Moves(l, aim[c])
    BY <1>k, <1>a
  <2> QED BY <2>1, <1>0, <1>k
<1> HIDE DEF Moves
<1>1. CASE Admission(c)
  <2>1. PICK l \in CmdPoints : /\ cmd' = [cmd EXCEPT ![c] = l]
                               /\ l \notin {"unregister", "good"} /\ cmd[c] = "idle"
    <3>1. CASE UNCHANGED cmd
      BY <3>1, <1>1, <1>0 DEF Admission
    <3>2. CASE Turn(c, IF kind[c] = "remove" THEN "stop" ELSE kind[c])
      BY <1>1, <3>2, <1>0 DEF Admission, Kinds, CmdPoints
    <3> QED BY <1>1, <3>1, <3>2 DEF Admission
  <2>2. aim[c] = None /\ UNCHANGED <<aim, lockDir>>
    BY <2>1, <1>1, <1>0 DEF Aimless, Admission, dvars, files
  <2> QED BY <2>1, <2>2, <1>k
<1>2. CASE Kill(c) \/ Finalize(c)
  <2>1. "idle" \in CmdPoints
    BY DEF CmdPoints
  <2>2. Moves("idle", None)
    BY <1>2 DEF Moves, Kill, Finalize, Forget, files
  <2> QED BY <2>1, <2>2
<1>3. CASE Stop(c)
  <2> DEFINE l == IF task = "absent" THEN "good" ELSE IF task = "drift" THEN "bad"
                  ELSE "graceful"
             a == IF task = "exact" /\ lockDir \in Proc THEN lockDir ELSE None
  <2>1. l \in CmdPoints /\ a \in Proc \cup {None} /\ a \in {None, lockDir}
    BY DEF CmdPoints, Probing
  <2>2. l \notin Aimless \cup {"unregister"}
    BY DEF Aimless
  <2>3. l = "good" => a = None
    OBVIOUS
  <2>4. cmd' = [cmd EXCEPT ![c] = l] /\ aim' = [aim EXCEPT ![c] = a] /\ lockDir' = lockDir
    BY <1>3 DEF Stop, dvars, files
  <2> HIDE DEF l, a
  <2>5. Moves(l, a)
    BY <2>1, <2>2, <2>3, <2>4 DEF Moves
  <2> QED BY <2>1, <2>5
<1>4. CASE Ensure(c) \/ Start(c)
  <2>1. aim[c] = None /\ UNCHANGED <<aim, lockDir>>
    BY <1>4, <1>0 DEF Aimless, Ensure, Start, Observe, dvars, files
  <2>2. \E l \in {"bad", "absent", "start", "running", "launch"} :
            cmd' = [cmd EXCEPT ![c] = l]
    BY <1>4 DEF Ensure, Start, Observe
  <2> QED BY <2>1, <2>2, <1>k DEF CmdPoints, Probing
<1>h. CASE ReadReadinessSnapshot(c) \/ Discover(c) \/ AskHealth(c)
  <2>1. UNCHANGED <<aim, lockDir>> /\ cmd[c] \in Probing
    BY <1>h DEF ReadReadinessSnapshot, Discover, AskHealth, dvars, files
  <2>2. cmd[c] # "graceful" => aim[c] = None
    BY <2>1, <1>0 DEF Probing, Aimless
  <2>3. PICK l : /\ cmd' = [cmd EXCEPT ![c] = l]
                 /\ l = cmd[c] \/ \E v \in {"yes", "no", "drift", "error"} :
                                     l \in Afterwards(cmd[c], v)
    <3>1. CASE \E v \in {"yes", "no", "drift", "error"} : Conclude(c, v)
      BY <3>1 DEF Conclude
    <3>2. CASE UNCHANGED cmd
      BY <3>2, <1>0
    <3> QED BY <1>h, <3>1, <3>2 DEF ReadReadinessSnapshot, Discover, AskHealth
  <2>4. l \in CmdPoints
    BY <2>3, <2>1, <1>0 DEF Afterwards, CmdPoints, Probing
  <2>5. cmd[c] = "graceful" => l \in {"graceful", "ask", "bad", "watch"}
    BY <2>3 DEF Afterwards
  <2>6. l \in Aimless \cup {"unregister", "good"} => aim[c] = None
    BY <2>2, <2>5 DEF Aimless
  <2> QED BY <2>1, <2>3, <2>4, <2>6, <1>k
<1>5. CASE Install(c) \/ StartTask(c)
  <2>1. aim[c] = None /\ UNCHANGED <<aim, lockDir>>
    BY <1>5, <1>0 DEF Aimless, Install, StartTask, files
  <2>2. \E l \in {"bad", "start", "health"} : cmd' = [cmd EXCEPT ![c] = l]
    BY <1>5 DEF Install, StartTask
  <2> QED BY <2>1, <2>2, <1>k DEF CmdPoints, Probing
<1>6. CASE Watch(c) \/ Judge(c) \/ AskStop(c) \/ GraceWatch(c) \/ AwaitWatch(c)
  <2>1. UNCHANGED <<aim, lockDir>>
    BY <1>6 DEF Watch, Judge, AskStop, GraceWatch, AwaitWatch, ReadEndpoint, Observe, dvars,
                files
  <2>2. \E l \in {"bad", "judge", "judge2", "judge3", "ask", "fallback", "watch2"} :
            cmd' = [cmd EXCEPT ![c] = l]
    <3>1. CASE Judge(c)
      BY <3>1 DEF Judge, Observe
    <3> QED BY <1>6, <3>1 DEF Watch, AskStop, GraceWatch, AwaitWatch, ReadEndpoint
  <2> QED BY <2>1, <2>2, <1>k DEF CmdPoints, Aimless
<1>7. CASE GraceJudge(c) \/ AwaitJudge(c)
  <2>1. UNCHANGED <<aim, lockDir>>
    BY <1>7 DEF GraceJudge, AwaitJudge, Observe, dvars, files
  <2>2. CASE Released(c)
    <3>1. \E l \in {"unregister", "good"} : cmd' = [cmd EXCEPT ![c] = l]
      <4>1. Stopped(c) \in {"unregister", "good"}
        BY DEF Stopped
      <4> QED BY <1>7, <2>2, <4>1 DEF GraceJudge, AwaitJudge, Observe, Released
    <3> QED BY <3>1, <2>1, <2>2, <1>k, ReleasedIsFree DEF CmdPoints, Aimless
  <2>3. CASE ~Released(c)
    <3>1. \E l \in {"bad", "watch2", "watch3", "fallback"} : cmd' = [cmd EXCEPT ![c] = l]
      BY <1>7, <2>3 DEF GraceJudge, AwaitJudge, Observe
    <3> QED BY <3>1, <2>1, <1>k DEF CmdPoints, Aimless
  <2> QED BY <2>2, <2>3
<1>8. CASE StopTask(c)
  <2>1. UNCHANGED <<aim, lockDir>>
    BY <1>8 DEF StopTask, Perish, Gone, dvars, files
  <2>2. \E l \in {"bad", "watch3"} : cmd' = [cmd EXCEPT ![c] = l]
    BY <1>8 DEF StopTask
  <2> QED BY <2>1, <2>2, <1>k DEF CmdPoints, Aimless
<1>9. CASE Unregister(c)
  <2>1. UNCHANGED <<aim, lockDir>>
    BY <1>9 DEF Unregister, files
  <2>2. \E l \in {"good", "bad"} :
            cmd' = [cmd EXCEPT ![c] = l] /\ (l = "good" => cmd[c] = "unregister")
    BY <1>9 DEF Unregister
  <2> QED BY <2>1, <2>2, <1>k DEF CmdPoints, Aimless
<1> QED BY <1>1, <1>2, <1>3, <1>4, <1>5, <1>6, <1>7, <1>8, <1>9, <1>h DEF CommandStep

(* The endpoint file follows the service: it names the daemon that serves, *)
(* and a daemon whose service has ended never serves again.                *)
LEMMA NamedStays ==
    ASSUME BootstrapInv, BootstrapNext
    PROVE  Named' /\ \A p \in Proc : at[p] \in Ended => at'[p] \in Ended
<1> USE DaemonAssumption DEF Ended, Go
<1> DEFINE Stays == Named' /\ \A p \in Proc : at[p] \in Ended => at'[p] \in Ended
<1> SUFFICES Stays
  OBVIOUS
<1>0. /\ at \in [Proc -> Points] /\ endpoint \in Proc \cup {None}
      /\ \A p \in Proc : at[p] = "serve" => endpoint = p
      /\ endpoint \in Proc => at[endpoint] \in Ended \cup {"serve"}
      /\ \A p \in Proc : at[p] \in {"serve", "publish"} => lockDir = p
  BY DEF BootstrapInv, Inv, DaemonTypeOK, Named, Owns, OwnerPoints
<1>u. ASSUME UNCHANGED <<at, endpoint>> PROVE Stays
  BY <1>u, <1>0 DEF Named
<1>m. ASSUME NEW p \in Proc, NEW l, at' = [at EXCEPT ![p] = l], UNCHANGED endpoint,
             l # "serve",
             at[p] \in Ended \cup {"serve"} => l \in Ended
      PROVE  Stays
  BY <1>m, <1>0 DEF Named
<1> HIDE DEF Stays
<1>1. ASSUME NEW p \in Proc, at[p] = "idle", Go(p, "guarded"), UNCHANGED endpoint
      PROVE  Stays
  BY <1>1, <1>m
<1>2. ASSUME NEW p \in Proc, ServerStep(p) PROVE Stays
  <2>1. CASE Publish(p)
    <3>1. CASE Go(p, "serve") /\ endpoint' = p
      <4>1. \A q \in Proc : q # p => at[q] # "serve"
        BY <2>1, <1>0 DEF Publish
      <4> QED BY <3>1, <4>1, <2>1, <1>0 DEF Publish, Named, Stays
    <3>2. CASE Go(p, "abort") /\ endpoint' \in {endpoint, p}
      <4>1. \A q \in Proc : q # p => at[q] # "serve"
        BY <2>1, <1>0 DEF Publish
      <4> QED BY <3>2, <4>1, <2>1, <1>0 DEF Publish, Named, Stays
    <3> QED BY <2>1, <3>1, <3>2 DEF Publish
  <2>2. CASE Unpublish(p)
    <3>1. at[p] = "unpublish" /\ at' = [at EXCEPT ![p] = "release"]
      BY <2>2 DEF Unpublish
    <3>2. endpoint' = endpoint \/ (endpoint = p /\ endpoint' = None)
      BY <2>2 DEF Unpublish
    <3> QED BY <3>1, <3>2, <1>0 DEF Named, Stays
  <2>3. CASE WriteOwner(p) \/ MakeLock(p) \/ RemoveOwner(p) \/ RemoveDir(p)
    BY <2>3, <1>m DEF WriteOwner, OwnLock, DisownLock, MakeLock, RemoveOwner, RemoveDir
  <2>4. CASE RefuseLaunch(p) \/ Recover(p) \/ Listen(p)
    BY <2>4, <1>m DEF RefuseLaunch, Recover, Listen, files
  <2>5. CASE BeginShutdown(p) \/ FinishDrain(p)
    BY <2>5, <1>m DEF BeginShutdown, FinishDrain, files
  <2>6. CASE Abort(p) \/ FinishShutdown(p)
    BY <2>6, <1>m DEF Abort, FinishShutdown, Release
  <2>7. CASE Exit(p)
    BY <2>7, <1>m DEF Exit, Gone
  <2> QED BY <1>2, <2>1, <2>2, <2>3, <2>4, <2>5, <2>6, <2>7 DEF ServerStep
<1>3. ASSUME NEW p \in Proc, Perish(p) PROVE Stays
  BY <1>3, <1>m DEF Perish, Gone
<1>4. CASE DaemonNext
  <2>1. CASE \E r \in Req : RequestStep(r)
    <3>1. UNCHANGED <<at, endpoint>>
      BY <2>1 DEF RequestStep, Arrive, Admit, GiveUp, Dispatch, files
    <3> QED BY <3>1, <1>u
  <2>2. ASSUME NEW p \in Proc, TriggerShutdown(p) \/ WorkEnds(p)
        PROVE  UNCHANGED <<at, endpoint>>
    BY <2>2 DEF TriggerShutdown, WorkEnds, files
  <2>3. ASSUME NEW p \in Proc, Die(p) PROVE Perish(p)
    BY <2>3 DEF Die
  <2>4. ASSUME NEW p \in Proc, Launch(p) PROVE Stays
    BY <2>4, <1>1 DEF Launch
  <2> QED BY <1>4, <2>1, <2>2, <2>3, <2>4, <1>u, <1>2, <1>3 DEF DaemonNext
<1>5. ASSUME NEW c \in Cmd, StopTask(c) PROVE Stays
  <2>1. CASE UNCHANGED dvars
    BY <2>1, <1>u DEF dvars, files
  <2>2. CASE TaskRunning /\ Perish(instance)
    BY <2>2, <1>3 DEF TaskRunning, BootstrapInv, BootstrapTypeOK
  <2> QED BY <1>5, <2>1, <2>2 DEF StopTask
<1>6. ASSUME NEW c \in Cmd, StartTask(c) PROVE Stays
  BY <1>6, <1>1, <1>u DEF StartTask
<1>7. ASSUME NEW c \in Cmd, Admission(c) \/ Kill(c)
      PROVE  UNCHANGED <<at, endpoint>>
  BY <1>7 DEF Admission, Kill, dvars, files
<1>8. ASSUME NEW c \in Cmd, CommandStep(c), ~StopTask(c), ~StartTask(c)
      PROVE  UNCHANGED <<at, endpoint>>
  BY <1>8 DEF CommandStep, Ensure, Install, Start, ReadReadinessSnapshot, Discover,
              AskHealth, Stop, Watch, Judge, AskStop, GraceWatch, GraceJudge, AwaitWatch,
              AwaitJudge, Unregister, Finalize, Observe, ReadEndpoint, dvars, files
<1>9. CASE Logon
  BY <1>9, <1>1 DEF Logon
<1> QED BY <1>4, <1>5, <1>6, <1>7, <1>8, <1>9, <1>u DEF BootstrapNext

(* A step of a command that leaves the health question alone has none      *)
(* open, and its record is no part of one.                                 *)
LEMMA ProbeMoves ==
    ASSUME BootstrapInv, NEW c \in Cmd, Admission(c) \/ CommandStep(c) \/ Kill(c)
    PROVE  /\ \A d \in Cmd \ {c} : /\ cmd'[d] = cmd[d] /\ probe'[d] = probe[d]
                                    /\ saw'[d] = saw[d] /\ held'[d] = held[d]
           /\ \/ probe'[c] = "none"
              \/ /\ cmd[c] \in Probing /\ UNCHANGED <<cmd, saw, held, at>>
                 /\ probe[c] # "none"
              \/ /\ cmd[c] \in Probing /\ UNCHANGED <<cmd, at>>
                 /\ saw'[c] = endpoint /\ held'[c] = lockDir
<1>0. /\ cmd \in [Cmd -> CmdPoints] /\ saw \in [Cmd -> Proc \cup {None}]
      /\ probe \in [Cmd -> Proc \cup {"none", "read"}]
      /\ held \in [Cmd -> Proc \cup {Free, Bare}]
  BY DEF BootstrapInv, BootstrapTypeOK
<1>w. probe[c] # "none" => cmd[c] \in {"absent", "running", "health", "graceful"}
  BY DEF BootstrapInv, Witnessed, Probing
<1> USE DEF Turn
<1>1. CASE Admission(c)
  BY <1>1, <1>0, <1>w DEF Admission, sight
<1>2. CASE Kill(c) \/ Finalize(c)
  BY <1>2, <1>0 DEF Kill, Finalize, Forget
<1>3. CASE ReadReadinessSnapshot(c) \/ Discover(c)
  BY <1>3, <1>0 DEF ReadReadinessSnapshot, Discover, Conclude, dvars
<1>4. CASE AskHealth(c)
  BY <1>4, <1>0 DEF AskHealth, Conclude
<1>5. CASE \/ Ensure(c) \/ Start(c) \/ Judge(c) \/ GraceJudge(c) \/ AwaitJudge(c)
  BY <1>5, <1>0, <1>w DEF Ensure, Start, Judge, GraceJudge, AwaitJudge, Observe
<1>6. CASE Install(c) \/ StartTask(c) \/ Unregister(c) \/ StopTask(c) \/ AskStop(c)
  BY <1>6, <1>0, <1>w DEF Install, StartTask, Unregister, StopTask, AskStop, sight
<1>7. CASE Watch(c) \/ GraceWatch(c) \/ AwaitWatch(c)
  BY <1>7, <1>0, <1>w DEF Watch, GraceWatch, AwaitWatch, ReadEndpoint
<1>8. CASE Stop(c)
  BY <1>8, <1>0, <1>w DEF Stop, sight
<1> QED BY <1>1, <1>2, <1>3, <1>4, <1>5, <1>6, <1>7, <1>8 DEF CommandStep

(* Whatever happens between the guarded read and the answer, the record    *)
(* keeps naming an owner of that moment or a daemon that ended.            *)
LEMMA WitnessedStays ==
    ASSUME BootstrapInv, BootstrapNext
    PROVE  Witnessed'
<1> USE DaemonAssumption
<1>0. /\ saw \in [Cmd -> Proc \cup {None}] /\ Witnessed
      /\ endpoint \in Proc => lockDir = endpoint \/ at[endpoint] \in Ended
      /\ endpoint \in Proc \cup {None}
  BY DEF BootstrapInv, BootstrapTypeOK, Inv, DaemonTypeOK, Owns, OwnerPoints, Named
<1>e. \A p \in Proc : at[p] \in Ended => at'[p] \in Ended
  BY NamedStays
<1>1. ASSUME UNCHANGED <<cmd, sight>> PROVE Witnessed'
  BY <1>1, <1>0, <1>e DEF Witnessed, sight
<1>2. ASSUME NEW c \in Cmd, Admission(c) \/ CommandStep(c) \/ Kill(c)
      PROVE  Witnessed'
  <2>1. ASSUME NEW d \in Cmd \ {c}, probe'[d] # "none"
        PROVE  /\ cmd'[d] \in Probing
               /\ saw'[d] \in Proc => held'[d] = saw'[d] \/ at'[saw'[d]] \in Ended
    BY <1>2, <2>1, ProbeMoves, <1>0, <1>e DEF Witnessed
  <2>2. ASSUME probe'[c] # "none"
        PROVE  /\ cmd'[c] \in Probing
               /\ saw'[c] \in Proc => held'[c] = saw'[c] \/ at'[saw'[c]] \in Ended
    BY <1>2, <2>2, ProbeMoves, <1>0, <1>e DEF Witnessed
  <2> QED BY <2>1, <2>2 DEF Witnessed
<1> QED BY <1>1, <1>2 DEF BootstrapNext, bvars, Logon

(* Every step of the daemon, of a command or of the scheduler preserves    *)
(* the commands' invariant.                                                *)
LEMMA BootstrapStepInv ==
    ASSUME BootstrapInv, BootstrapNext
    PROVE  BootstrapInv'
<1> USE DaemonAssumption
<1>1. Inv' /\ Named' /\ Witnessed'
  BY CommandKeepsDaemon, NamedStays, WitnessedStays
<1>0. /\ BootstrapTypeOK /\ AimIsPast /\ AimIsGone
      /\ lockDir \in Proc \cup {Free, Bare} /\ lockDir' \in Proc \cup {Free, Bare}
      /\ endpoint \in Proc \cup {None}
  BY <1>1 DEF BootstrapInv, Inv, DaemonTypeOK
<1>p. /\ \A p \in Proc : Past(p) => Past(p)'
      /\ \A p \in Proc : lockDir' = p => lockDir = p \/ (~Past(p) /\ Past(p)')
  BY PastStays
<1>2. ASSUME NEW c \in Cmd, Admission(c) \/ CommandStep(c) \/ Kill(c)
      PROVE  BootstrapTypeOK' /\ AimIsPast' /\ AimIsGone'
  <2>1. PICK l \in CmdPoints, a \in Proc \cup {None} :
              /\ cmd' = [cmd EXCEPT ![c] = l] /\ aim' = [aim EXCEPT ![c] = a]
              /\ lockDir' = lockDir
              /\ a \in {None, aim[c], lockDir}
              /\ l \in Aimless => a = None
              /\ l \in {"unregister", "good"} /\ a # None
                 => lockDir = Free \/ (cmd[c] = "unregister" /\ a = aim[c])
    BY <1>2, CommandMoves
  <2>2. cmd' \in [Cmd -> CmdPoints] /\ aim' \in [Cmd -> Proc \cup {None}]
    BY <2>1, <1>0 DEF BootstrapTypeOK
  <2>3. BootstrapTypeOK'
    <3>1. task' \in {"absent", "exact", "drift"} /\ kind' = kind
      BY <1>2, <1>0 DEF BootstrapTypeOK, Admission, CommandStep, Kill, Ensure, Install,
           Start, StartTask, ReadReadinessSnapshot, Discover, AskHealth, Conclude, Forget,
           Stop, Watch, Judge, AskStop, GraceWatch, GraceJudge,
           StopTask, AwaitWatch, AwaitJudge, Unregister, Finalize, Observe, ReadEndpoint
    <3>2. instance' \in Proc \cup {None}
      BY <1>2, <1>0 DEF BootstrapTypeOK, Admission, CommandStep, Kill, Ensure, Install,
           Start, StartTask, ReadReadinessSnapshot, Discover, AskHealth, Conclude, Forget,
           Stop, Watch, Judge, AskStop, GraceWatch, GraceJudge,
           StopTask, AwaitWatch, AwaitJudge, Unregister, Finalize, Observe, ReadEndpoint
    <3>3. saw' \in [Cmd -> Proc \cup {None}] /\ runs' \in [Cmd -> Nat]
      BY <1>2, <1>0 DEF BootstrapTypeOK, Admission, CommandStep, Kill, Ensure, Install,
           Start, StartTask, ReadReadinessSnapshot, Discover, AskHealth, Conclude, Forget,
           Stop, Watch, Judge, AskStop, GraceWatch, GraceJudge,
           StopTask, AwaitWatch, AwaitJudge, Unregister, Finalize, Observe, ReadEndpoint, sight
    <3>4. receipt' \in [Cmd -> {"ok", "failed", None}]
      BY <1>2, <1>0 DEF BootstrapTypeOK, Admission, CommandStep, Kill, Ensure, Install,
           Start, StartTask, ReadReadinessSnapshot, Discover, AskHealth, Conclude, Forget,
           Stop, Watch, Judge, AskStop, GraceWatch, GraceJudge,
           StopTask, AwaitWatch, AwaitJudge, Unregister, Finalize, Observe, ReadEndpoint,
           Outcome
    <3>5. probe' \in [Cmd -> Proc \cup {"none", "read"}]
      BY <1>2, <1>0 DEF BootstrapTypeOK, Admission, CommandStep, Kill, Ensure, Install,
           Start, StartTask, ReadReadinessSnapshot, Discover, AskHealth, Conclude, Forget,
           Stop, Watch, Judge, AskStop, GraceWatch, GraceJudge,
           StopTask, AwaitWatch, AwaitJudge, Unregister, Finalize, Observe, ReadEndpoint, sight
    <3>6. held' \in [Cmd -> Proc \cup {Free, Bare}]
      BY <1>2, <1>0 DEF BootstrapTypeOK, Admission, CommandStep, Kill, Ensure, Install,
           Start, StartTask, ReadReadinessSnapshot, Discover, AskHealth, Conclude, Forget,
           Stop, Watch, Judge, AskStop, GraceWatch, GraceJudge,
           StopTask, AwaitWatch, AwaitJudge, Unregister, Finalize, Observe, ReadEndpoint, sight
    <3> QED BY <2>2, <3>1, <3>2, <3>3, <3>4, <3>5, <3>6, <1>0 DEF BootstrapTypeOK
  <2>4. AimIsPast'
    <3>1. lockDir' \in Proc => Past(lockDir)'
      BY <2>1, <1>0, <1>p DEF AimIsPast
    <3>2. ASSUME NEW d \in Cmd, aim'[d] \in Proc PROVE Past(aim[d])'
      <4>1. aim'[d] \in {None, aim[d], lockDir}
        BY <2>1, <1>0 DEF BootstrapTypeOK
      <4>2. Past(aim'[d])
        BY <4>1, <3>2, <1>0 DEF AimIsPast
      <4> QED BY <4>2, <3>2, <1>p DEF Past
    <3> QED BY <3>1, <3>2 DEF AimIsPast
  <2>5. AimIsGone'
    BY <2>1, <1>0 DEF AimIsGone, BootstrapTypeOK
  <2> QED BY <2>3, <2>4, <2>5
<1>3. ASSUME UNCHANGED <<cmd, aim>>
      PROVE  AimIsPast' /\ AimIsGone'
  <2>1. AimIsPast'
    <3>1. lockDir' \in Proc => Past(lockDir)'
      BY <1>0, <1>p DEF AimIsPast, Past
    <3>2. ASSUME NEW d \in Cmd, aim'[d] \in Proc PROVE Past(aim[d])'
      <4>1. Past(aim[d]) /\ aim[d] \in Proc
        BY <1>3, <3>2, <1>0 DEF AimIsPast
      <4> QED BY <4>1, <1>3, <1>p DEF Past
    <3> QED BY <3>1, <3>2 DEF AimIsPast
  <2>2. ASSUME NEW d \in Cmd, aim[d] \in Proc, lockDir # aim[d] PROVE lockDir' # aim[d]
    BY <2>2, <1>0, <1>p DEF AimIsPast
  <2>3. AimIsGone'
    BY <2>2, <1>3, <1>0 DEF AimIsGone, BootstrapTypeOK
  <2> QED BY <2>1, <2>3
<1>4. CASE DaemonNext /\ UNCHANGED bvars
  <2>1. BootstrapTypeOK'
    BY <1>4, <1>0 DEF bvars, sight, BootstrapTypeOK
  <2> QED BY <1>1, <1>3, <1>4, <2>1 DEF bvars, BootstrapInv
<1>5. CASE Logon
  <2>1. BootstrapTypeOK'
    BY <1>5, <1>0 DEF Logon, BootstrapTypeOK, sight
  <2> QED BY <1>1, <1>3, <1>5, <2>1 DEF Logon, BootstrapInv
<1> QED BY <1>1, <1>2, <1>4, <1>5 DEF BootstrapNext, BootstrapInv

(* The invariant of the lifecycle commands over the daemon: the daemon's   *)
(* own, with scheduler and commands as further causes of launch and death. *)
LEMMA BootstrapInvariant == BootstrapSpec => []BootstrapInv
<1>1. BootstrapInv /\ [BootstrapNext]_vars => BootstrapInv'
  <2> SUFFICES ASSUME BootstrapInv, UNCHANGED vars PROVE BootstrapInv'
    BY BootstrapStepInv
  <2>1. Inv'
    BY QuietInv DEF vars, dvars, files, service, bounds, BootstrapInv, Inv, DaemonTypeOK
  <2>2. BootstrapTypeOK' /\ AimIsPast' /\ AimIsGone'
    BY DEF vars, dvars, bvars, sight, files, BootstrapInv, BootstrapTypeOK, AimIsPast,
           AimIsGone, Past
  <2>3. Named' /\ Witnessed'
    BY DEF vars, dvars, bvars, sight, files, BootstrapInv, Named, Witnessed
  <2> QED BY <2>1, <2>2, <2>3 DEF BootstrapInv
<1> QED BY <1>1, BootstrapInitInv, PTL DEF BootstrapSpec

(* The singleton lock stays exclusive, and recovery alone, when scheduled  *)
(* tasks, logons, stops and removals launch and end the daemons.           *)
THEOREM BootstrapSoleOwner == BootstrapSpec => [](SoleOwner /\ RecoveryIsAlone)
<1>1. BootstrapInv => SoleOwner /\ RecoveryIsAlone
  BY DEF BootstrapInv, Inv, Owns, OwnerPoints, Working, SoleOwner, RecoveryIsAlone
<1> QED BY <1>1, BootstrapInvariant, PTL

(* bootstrapReleased and waitBootstrapReleased: a stop that succeeds has   *)
(* outlasted the daemon that owned the state directory when it began, in   *)
(* spite of the two halves of its observation, restarts and retried keys.  *)
THEOREM BootstrapStopOutlasts == BootstrapSpec => []StopOutlastsDaemon
<1>1. BootstrapInv => StopOutlastsDaemon
  <2> SUFFICES ASSUME BootstrapInv, NEW c \in Cmd,
                      cmd[c] \in {"unregister", "good"}, aim[c] # None
               PROVE  lockDir # aim[c] /\ at[aim[c]] # "serve"
    BY DEF StopOutlastsDaemon
  <2>1. aim[c] \in Proc /\ lockDir # aim[c]
    BY DEF BootstrapInv, BootstrapTypeOK, AimIsGone
  <2> QED BY <2>1 DEF BootstrapInv, Inv, Owns, OwnerPoints
<1> QED BY <1>1, BootstrapInvariant, PTL

(* startEffect and waitHealth succeed on LocalDaemon.Healthy, of which     *)
(* only the first read is guarded: the process that read named as owner    *)
(* and the process that answers are one, and it owned the lock throughout. *)
THEOREM BootstrapHealthyIsOwner == BootstrapSpec => HealthyIsOwner
<1> DEFINE Owner(c) == /\ saw[c] \in Proc /\ held[c] = saw[c]
                       /\ lockDir = saw[c] /\ endpoint = saw[c] /\ at[saw[c]] = "serve"
           Step == \A c \in Cmd : cmd[c] \in {"running", "health"} /\ cmd'[c] = "good"
                                 => Owner(c)
<1>1. ASSUME BootstrapInv, NEW c \in Cmd, probe[c] \in Proc, Answered(c) PROVE Owner(c)
  <2>1. saw[c] \in Proc /\ at[saw[c]] = "serve" /\ probe[c] # "none"
    BY <1>1, BootstrapAssumption DEF Answered, Responds
  <2>2. lockDir = saw[c] /\ endpoint = saw[c]
    BY <1>1, <2>1 DEF BootstrapInv, Inv, Owns, OwnerPoints, Named
  <2>3. held[c] = saw[c]
    BY <1>1, <2>1 DEF BootstrapInv, Witnessed, Ended
  <2> QED BY <2>1, <2>2, <2>3
<1> HIDE DEF Owner
<1>2. BootstrapInv /\ [BootstrapNext]_vars => [Step]_vars
  <2> SUFFICES ASSUME BootstrapInv, BootstrapNext, NEW c \in Cmd,
                      cmd[c] \in {"running", "health"}, cmd'[c] = "good"
               PROVE  Owner(c)
    OBVIOUS
  <2>0. cmd \in [Cmd -> CmdPoints]
    BY DEF BootstrapInv, BootstrapTypeOK
  <2>1. cmd' # cmd
    OBVIOUS
  <2>2. PICK d \in Cmd : Admission(d) \/ CommandStep(d) \/ Kill(d)
    BY <2>1 DEF BootstrapNext, bvars, Logon
  <2>3. \E l : cmd' = [cmd EXCEPT ![d] = l]
    BY <2>2, CommandMoves
  <2>4. d = c
    BY <2>0, <2>3
  <2>a. ASSUME NEW v \in {"no", "drift", "error"} PROVE ~Conclude(c, v)
    BY <2>a, <2>0 DEF Conclude, Afterwards, Turn
  <2>5. CASE AskHealth(c)
    BY <2>5, <2>a, <1>1 DEF AskHealth
  <2>b. CASE ReadReadinessSnapshot(c) \/ Discover(c)
    BY <2>b, <2>a DEF ReadReadinessSnapshot, Discover
  <2>6. CASE Ensure(c) \/ Start(c) \/ Install(c) \/ StartTask(c) \/ Stop(c)
    BY <2>6 DEF Ensure, Start, Install, StartTask, Stop, Observe
  <2>7. CASE Watch(c) \/ Judge(c) \/ AskStop(c) \/ GraceWatch(c) \/ GraceJudge(c)
    BY <2>7 DEF Watch, Judge, AskStop, GraceWatch, GraceJudge, Observe, ReadEndpoint
  <2>8. CASE StopTask(c) \/ AwaitWatch(c) \/ AwaitJudge(c) \/ Unregister(c) \/ Finalize(c)
    BY <2>8 DEF StopTask, AwaitWatch, AwaitJudge, Unregister, Finalize, Observe, ReadEndpoint
  <2>9. CASE Admission(c) \/ Kill(c)
    BY <2>0, <2>9 DEF Admission, Kill, Turn
  <2> QED BY <2>2, <2>4, <2>5, <2>b, <2>6, <2>7, <2>8, <2>9 DEF CommandStep
<1> QED BY <1>2, BootstrapInvariant, PTL DEF BootstrapSpec, HealthyIsOwner, Owner
=============================================================================
