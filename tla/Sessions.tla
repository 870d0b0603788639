------------------------------ MODULE Sessions ------------------------------
(***************************************************************************)
(* The daemon's terminal sessions: internal/sessions (manager.go,          *)
(* lifecycle.go, open_failure.go, shutdown.go, persistence.go,             *)
(* reconcile.go) over the SSH channels of internal/guest/ssh (client.go).  *)
(*                                                                         *)
(* A session is named after the call of Open that creates it.  Opens,      *)
(* writes, closes, the goroutines that wait for the end of a channel, the  *)
(* supervised cleanups and Shutdown interleave; a step is what one of them *)
(* does under a mutex or in one call of the channel.  Sessions are never   *)
(* removed from m.sessions, so looking one up and waiting for its lane is  *)
(* one step.                                                               *)
(***************************************************************************)
EXTENDS Naturals, FiniteSets

CONSTANTS Open,          \* calls of Open, and the sessions they create
          OpenKey, OpenKeyOf,    \* idempotency keys
          MaxWrites,     \* bound on calls of Write and Control
          MaxCloses,     \* bound on calls of Close
          MaxShutdowns,  \* bound on calls of Shutdown
          Modes,         \* what may go wrong, see mode
          NoSession

ASSUME SessionsAssumption ==
    /\ OpenKeyOf \in [Open -> OpenKey]
    /\ MaxWrites \in Nat /\ MaxCloses \in Nat /\ MaxShutdowns \in Nat
    /\ Modes \subseteq {"calm", "late", "failing", "both"}
    /\ NoSession \notin Open

VARIABLES closed,    \* m.closed
          opc,       \* where each Open is
          channel,   \* the SSH channel: "none", "open", "closing" (closed flag
                     \* set, resources not freed), complete: "shut" or "broken"
          sessions,  \* m.sessions
          idem,      \* m.idempotency
          life,      \* s.obs.State in memory
          file,      \* the state in the session's file
          werr,      \* sessions with a naturalWaitErr
          lane,      \* who holds s.closeSem: "none", "close", "shutdown", or the
                     \* waiter, whose Wait returned "ok" or an error, "err"
          fpc,       \* how far its finalizeSession is
          waiter,    \* waitChannelExit: "none", "waiting", Wait returned "ok" or
                     \* "err", "done"
          wrote,     \* the write that holds s.writeSem
          pend,      \* m.pendingCleanups
          sup,       \* cleanups whose supervising goroutine has yet to run
          spc,       \* where Shutdown is
          snap,      \* the sessions and the cleanups it has yet to visit
          failed,    \* has it met an error?
          daemon,    \* "up", "down", "starting", "restarted"
          made,      \* writes, closes and shutdowns so far
          mode       \* "calm", or contexts may end ("late"), I/O may fail
                     \* ("failing"), or both

sessionVars == <<closed, opc, channel, sessions, idem, life, file, werr, lane, fpc,
                waiter, wrote, pend, sup, spc, snap, failed, daemon, made, mode>>

setting == <<daemon, mode>>
opening == <<opc, sessions, idem>>
ending == <<lane, fpc, waiter, werr>>
cleaning == <<pend, sup>>
stopping == <<closed, spc, snap, failed>>

(* SessionState of domain/session.go, and IsTerminal.                      *)
SessionStates == {"active", "closing", "closed", "failed", "crashed"}
IsTerminal(st) == st \in {"closed", "failed", "crashed"}

Opening == {"dial", "dialed", "cleanup"}

SessionsTypeOK == /\ closed \in BOOLEAN
          /\ opc \in [Open -> {"idle", "done"} \cup Opening]
          /\ channel \in [Open -> {"none", "open", "closing", "shut", "broken"}]
          /\ sessions \subseteq Open
          /\ idem \in [OpenKey -> Open \cup {NoSession}]
          /\ life \in [Open -> SessionStates \cup {"none"}]
          /\ file \in [Open -> SessionStates \cup {"none"}]
          /\ werr \subseteq Open
          /\ lane \in [Open -> {"none", "close", "ok", "err", "shutdown"}]
          /\ fpc \in [Open -> {"none", "close", "persist"}]
          /\ waiter \in [Open -> {"none", "waiting", "ok", "err", "done"}]
          /\ wrote \in [Open -> {"idle", "sem", "lane", "written"}]
          /\ pend \subseteq Open
          /\ sup \subseteq Open
          /\ spc \in {"idle", "draining", "visiting", "done"}
          /\ snap \in [sessions : SUBSET Open, pending : SUBSET Open]
          /\ failed \in BOOLEAN
          /\ daemon \in {"up", "down", "starting", "restarted"}
          /\ made \in [write : 0 .. MaxWrites, close : 0 .. MaxCloses,
                        shutdown : 0 .. MaxShutdowns]
          /\ mode \in {"calm", "late", "failing", "both"}

(* NewManager, over an empty directory.                                    *)
SessionsInit == /\ closed = FALSE /\ failed = FALSE
        /\ channel = [o \in Open |-> "none"]
        /\ sessions = {} /\ werr = {} /\ pend = {} /\ sup = {}
        /\ idem = [k \in OpenKey |-> NoSession]
        /\ life = [o \in Open |-> "none"]
        /\ lane = [o \in Open |-> "none"]
        /\ fpc = [o \in Open |-> "none"]
        /\ waiter = [o \in Open |-> "none"]
        /\ wrote = [o \in Open |-> "idle"]
        /\ spc = "idle"
        /\ snap = [sessions |-> {}, pending |-> {}]
        /\ opc = [o \in Open |-> "idle"]
        /\ file = [o \in Open |-> "none"]
        /\ daemon = "up"
        /\ made = [write |-> 0, close |-> 0, shutdown |-> 0]
        /\ mode \in Modes

----------------------------------------------------------------------------
Up == daemon = "up"
Late == mode \in {"late", "both"}
Failing == mode \in {"failing", "both"}
OpenTo(o, l) == opc' = [opc EXCEPT ![o] = l]
OpenAt(o, l) == Up /\ opc[o] = l
ActiveOpens == {o \in Open : opc[o] \in Opening}

(* sshChannel.Close followed by LastCloseOutcome.  A completed close is    *)
(* remembered.  Otherwise it sets the closed flag, waits for the write in  *)
(* progress, and frees the session, the client and the connection, each of *)
(* which may report an error.  A context that has ended stops it before    *)
(* the flag or while it waits.                                             *)
ChannelCloses(o) ==
    IF channel[o] \in {"shut", "broken"} THEN {channel[o]}
    ELSE (IF wrote[o] # "lane" THEN {"shut"} ELSE {})
         \cup (IF wrote[o] # "lane" /\ (Failing \/ Late) THEN {"broken"} ELSE {})
         \cup (IF Late THEN {channel[o], "closing"} ELSE {})
Complete(outcome) == outcome \in {"shut", "broken"}

(* replaceSessionFileContextWithPreparer: what a write may leave on disk,  *)
(* and whether it reports an error.  The directory sync may fail after the *)
(* rename.                                                                 *)
RewrittenAs(old, new) == {<<new, "ok">>}
    \cup (IF Failing THEN {<<old, "uncommitted">>, <<new, "undurable">>} ELSE {})

(* persistSession writes the observation of the moment: s.persistMu is     *)
(* held from the copy to the rename.                                       *)
PersistSession(o, obs, outcome) ==
    \E r \in RewrittenAs(file[o], obs) :
        /\ file' = [file EXCEPT ![o] = r[1]]
        /\ outcome = r[2]

----------------------------------------------------------------------------
(* Open.                                                                   *)

(* beginOpen counts the call unless the manager is closed.                 *)
BeginOpen(o) == opc[o] = "idle" /\ ~closed

(* findIdempotentOpen: the session published under the key.                *)
FindIdempotentOpen(o) == idem[OpenKeyOf[o]] \in sessions

(* The call goes on to dial unless it is refused or answered from the map. *)
StartOpen(o) ==
    /\ OpenAt(o, "idle")
    /\ OpenTo(o, IF BeginOpen(o) /\ ~FindIdempotentOpen(o) THEN "dial" ELSE "done")
    /\ UNCHANGED <<channel, sessions, idem, life, file, ending, wrote, cleaning, stopping, made, setting>>

(* NativeTransport.Dial: configuration, TCP, handshake and openSessionPTY  *)
(* fail without a channel ...                                              *)
DialFails(o) ==
    /\ OpenAt(o, "dial") /\ (Failing \/ Late)
    /\ OpenTo(o, "done")
    /\ UNCHANGED <<channel, sessions, idem, life, file, ending, wrote, cleaning, stopping, made, setting>>

(* ... or a channel exists.  finalizeDialChannel may fail to clear the     *)
(* deadline (DialFailure), the context may have ended meanwhile, and no    *)
(* identifier may be generated: the channel must be cleaned up.            *)
DialSessionChannel(o) ==
    /\ OpenAt(o, "dial")
    /\ channel' = [channel EXCEPT ![o] = "open"]
    /\ \/ OpenTo(o, "dialed")
       \/ (Failing \/ Late) /\ OpenTo(o, "cleanup")
    /\ UNCHANGED <<sessions, idem, life, file, ending, wrote, cleaning, stopping, made, setting>>

(* publishOpenSession, under m.mu.  A committed file publishes the session *)
(* even when its directory was not synced.  Then the waiter is started.    *)
PublishOpenSession(o) ==
    /\ OpenAt(o, "dialed")
    /\ \/ /\ closed \/ Failing
          /\ OpenTo(o, "cleanup")
          /\ UNCHANGED <<sessions, idem, life, file, waiter>>
       \/ /\ ~closed
          /\ file' = [file EXCEPT ![o] = "active"]
          /\ life' = [life EXCEPT ![o] = "active"]
          /\ sessions' = sessions \cup {o}
          /\ idem' = [idem EXCEPT ![OpenKeyOf[o]] = o]
          /\ waiter' = [waiter EXCEPT ![o] = "waiting"]
          /\ OpenTo(o, "done")
    /\ UNCHANGED <<channel, werr, lane, fpc, wrote, cleaning, stopping, made, setting>>

(* Mutant: the supervisor registers nothing once the manager is closed.    *)
SuperviseOnlyOpen(o) ==
    /\ pend' = IF closed THEN pend ELSE pend \cup {o}
    /\ sup' = IF closed THEN sup ELSE sup \cup {o}

(* supervisePendingCleanup registers a channel that could not be closed.   *)
(* A closed manager leaves it to Shutdown.                                 *)
SupervisePendingCleanup(o) ==
    /\ pend' = pend \cup {o}
    /\ sup' = IF closed THEN sup ELSE sup \cup {o}

(* cleanupFailedOpen closes the channel within its bound.                  *)
CleanupFailedOpen(o) ==
    /\ OpenAt(o, "cleanup")
    /\ \E out \in ChannelCloses(o) :
         /\ channel' = [channel EXCEPT ![o] = out]
         /\ IF Complete(out) THEN UNCHANGED <<pend, sup>> ELSE SupervisePendingCleanup(o)
    /\ OpenTo(o, "done")
    /\ UNCHANGED <<sessions, idem, life, file, ending, wrote, stopping, made, setting>>

----------------------------------------------------------------------------
(* Write and Control, under s.writeSem.                                    *)

(* Both look at the state again once they have the lane.                   *)
BeginWrite(o) ==
    /\ Up /\ o \in sessions /\ wrote[o] = "idle" /\ life[o] = "active"
    /\ made.write < MaxWrites
    /\ made' = [made EXCEPT !.write = @ + 1]
    /\ wrote' = [wrote EXCEPT ![o] = "sem"]
    /\ UNCHANGED <<opening, channel, life, file, ending, cleaning, stopping, setting>>

(* sshChannel.Write takes the channel's lane, unless the context ends.     *)
EnterChannel(o) ==
    /\ Up /\ wrote[o] = "sem"
    /\ \/ channel[o] = "open" /\ wrote' = [wrote EXCEPT ![o] = "lane"]
       \/ channel[o] # "open" /\ wrote' = [wrote EXCEPT ![o] = "written"]
       \/ Late /\ wrote' = [wrote EXCEPT ![o] = "written"]
    /\ UNCHANGED <<opening, channel, life, file, ending, cleaning, stopping, made, setting>>

(* The closed flag is read once more under the lane; the bytes go out or   *)
(* the write fails.                                                        *)
ChannelWrite(o) ==
    /\ Up /\ wrote[o] = "lane"
    /\ wrote' = [wrote EXCEPT ![o] = "written"]
    /\ UNCHANGED <<opening, channel, life, file, ending, cleaning, stopping, made, setting>>

(* Mutant: the observation is copied before the lock is taken.             *)
WritePersistStale(o) ==
    /\ Up /\ wrote[o] = "written"
    /\ \E ignored \in {"ok", "uncommitted", "undurable"} : PersistSession(o, "active", ignored)
    /\ wrote' = [wrote EXCEPT ![o] = "idle"]
    /\ UNCHANGED <<opening, channel, life, ending, cleaning, stopping, made, setting>>

(* A control key that had no effect is not persisted.                      *)
WritePersist(o) ==
    /\ Up /\ wrote[o] = "written"
    /\ \/ \E ignored \in {"ok", "uncommitted", "undurable"} : PersistSession(o, life[o], ignored)
       \/ UNCHANGED file
    /\ wrote' = [wrote EXCEPT ![o] = "idle"]
    /\ UNCHANGED <<opening, channel, life, ending, cleaning, stopping, made, setting>>

----------------------------------------------------------------------------
(* finalizeSession, by the holder of the close lane.                       *)

(* The lane is free and the session is not terminal: it is closing now.    *)
AcquireLane(o, who) == /\ lane[o] = "none" /\ ~IsTerminal(life[o])
                       /\ lane' = [lane EXCEPT ![o] = who]
                       /\ fpc' = [fpc EXCEPT ![o] = "close"]
                       /\ life' = [life EXCEPT ![o] = "closing"]

(* A terminal session is left alone; its error, if any, is returned.       *)
AlreadyTerminal(o) == lane[o] = "none" /\ IsTerminal(life[o])

ReleaseLane(o) == /\ lane' = [lane EXCEPT ![o] = "none"]
                  /\ fpc' = [fpc EXCEPT ![o] = "none"]

(* CloseWithEffect.                                                        *)
CloseWithEffect(o) ==
    /\ Up /\ o \in sessions
    /\ made.close < MaxCloses
    /\ made' = [made EXCEPT !.close = @ + 1]
    /\ AcquireLane(o, "close")
    /\ UNCHANGED <<opening, channel, file, werr, waiter, wrote, cleaning, stopping, setting>>

(* The remote shell ends by itself, or because the channel was closed:     *)
(* channel.Wait returns.                                                   *)
ShellEnds(o) ==
    /\ Up /\ waiter[o] = "waiting"
    /\ \E result \in {"ok", "err"} : waiter' = [waiter EXCEPT ![o] = result]
    /\ UNCHANGED <<opening, channel, life, file, lane, fpc, werr, wrote, cleaning, stopping, made, setting>>

(* waitChannelExit takes the lane, or gives up after the cleanup timeout.  *)
WaitChannelExit(o) ==
    /\ Up /\ waiter[o] \in {"ok", "err"}
    /\ waiter' = [waiter EXCEPT ![o] = "done"]
    /\ \/ AcquireLane(o, waiter[o])
       \/ (AlreadyTerminal(o) \/ Late) /\ UNCHANGED <<lane, fpc, life>>
    /\ UNCHANGED <<opening, channel, file, werr, wrote, cleaning, stopping, made, setting>>

(* An error Shutdown collects when its own finalization ends.              *)
Collect(o, error) == IF lane[o] = "shutdown" THEN failed' = (failed \/ error) ELSE UNCHANGED failed
Visited(o) == IF lane[o] = "shutdown" THEN snap' = [snap EXCEPT !.sessions = @ \ {o}]
              ELSE UNCHANGED snap

(* finalizeNaturalExit records the error of Wait before it decides.        *)
NaturalWaitErr(o) == IF lane[o] = "err" THEN werr \cup {o} ELSE werr

(* finalizeShutdown and finalizeExplicitClose: the state after a close.    *)
FinalState(o, outcome, waitErrs) ==
    CASE ~Complete(outcome) -> "closing"
      [] Complete(outcome) /\ (o \in waitErrs \/ outcome = "broken") -> "failed"
      [] OTHER -> "closed"

FinalizeClose(o) ==
    /\ Up /\ fpc[o] = "close"
    /\ \E out \in ChannelCloses(o) :
         /\ channel' = [channel EXCEPT ![o] = out]
         /\ werr' = NaturalWaitErr(o)
         /\ life' = [life EXCEPT ![o] = FinalState(o, out, werr')]
    /\ fpc' = [fpc EXCEPT ![o] = "persist"]
    /\ UNCHANGED <<opening, file, lane, waiter, wrote, cleaning, stopping, made, setting>>

FinalizePersist(o) ==
    /\ Up /\ fpc[o] = "persist"
    /\ \E outcome \in {"ok", "uncommitted", "undurable"} :
         /\ PersistSession(o, life[o], outcome)
         /\ Collect(o, life[o] # "closed" \/ outcome # "ok")
    /\ Visited(o)
    /\ ReleaseLane(o)
    /\ UNCHANGED <<opening, channel, life, werr, waiter, wrote, cleaning, closed, spc, made, setting>>

----------------------------------------------------------------------------
(* retryPendingCleanup: the lane of the cleanup makes a try one step.      *)

(* A cleanup that does not complete stays registered.                      *)
RetryPendingCleanup(o, outcome) ==
    /\ outcome \in ChannelCloses(o)
    /\ channel' = [channel EXCEPT ![o] = outcome]
    /\ pend' = IF Complete(outcome) THEN pend \ {o} ELSE pend

(* The supervising goroutine tries once.  It does nothing once the manager *)
(* is closed, and may run out of time waiting for the lane.                *)
SuperviseRetry(o) ==
    /\ Up /\ o \in sup
    /\ sup' = sup \ {o}
    /\ \/ /\ o \in pend /\ ~closed
          /\ \E out \in ChannelCloses(o) : RetryPendingCleanup(o, out)
       \/ /\ o \notin pend \/ closed \/ Late
          /\ UNCHANGED <<channel, pend>>
    /\ UNCHANGED <<opening, life, file, ending, wrote, stopping, made, setting>>

----------------------------------------------------------------------------
(* Shutdown.                                                               *)

(* It closes the manager and remembers whether opens are under way.  After *)
(* a failure it may be called again.                                       *)
ShutdownStart ==
    /\ Up /\ spc \in {"idle", "done"} /\ made.shutdown < MaxShutdowns
    /\ spc = "done" => failed
    /\ made' = [made EXCEPT !.shutdown = @ + 1]
    /\ closed' = TRUE /\ failed' = FALSE
    /\ spc' = "draining"
    /\ UNCHANGED <<opening, channel, life, file, ending, wrote, cleaning, snap, setting>>

(* It waits for the opens and copies the two maps.                         *)
Snapshot ==
    /\ Up /\ spc = "draining" /\ ActiveOpens = {}
    /\ spc' = "visiting"
    /\ snap' = [sessions |-> sessions, pending |-> pend]
    /\ UNCHANGED <<opening, channel, life, file, ending, wrote, cleaning, closed, failed, made, setting>>

(* The context ends while it waits for the opens.                          *)
DrainTimeout ==
    /\ Up /\ spc = "draining" /\ Late
    /\ spc' = "done" /\ failed' = TRUE
    /\ UNCHANGED <<opening, channel, life, file, ending, wrote, cleaning, closed, snap, made, setting>>

Visiting == /\ Up /\ spc = "visiting"
            /\ \A o \in Open : lane[o] # "shutdown"

VisitSession(o) ==
    /\ Visiting /\ o \in snap.sessions
    /\ \/ AcquireLane(o, "shutdown") /\ UNCHANGED <<snap, failed>>
       \/ /\ AlreadyTerminal(o) \/ Late
          /\ snap' = [snap EXCEPT !.sessions = @ \ {o}]
          /\ failed' = (failed \/ ~AlreadyTerminal(o) \/ life[o] # "closed")
          /\ UNCHANGED <<lane, fpc, life>>
    /\ UNCHANGED <<opening, channel, file, waiter, werr, wrote, cleaning, closed, spc, made, setting>>

VisitCleanup(o) ==
    /\ Visiting /\ snap.sessions = {} /\ o \in snap.pending
    /\ snap' = [snap EXCEPT !.pending = @ \ {o}]
    /\ \/ /\ o \in pend
          /\ \E out \in ChannelCloses(o) :
               RetryPendingCleanup(o, out) /\ failed' = (failed \/ out # "shut")
       \/ /\ o \notin pend \/ Late
          /\ failed' = (failed \/ o \in pend)
          /\ UNCHANGED <<channel, pend>>
    /\ UNCHANGED <<opening, life, file, ending, wrote, sup, closed, spc, made, setting>>

ShutdownReturns ==
    /\ Visiting /\ snap.sessions = {} /\ snap.pending = {}
    /\ spc' = "done"
    /\ UNCHANGED <<opening, channel, life, file, ending, wrote, cleaning, closed, snap, failed, made, setting>>

(* Drained: no open, no pending cleanup, every session terminal.           *)
Drained == /\ ActiveOpens = {}
           /\ pend = {}
           /\ \A o \in sessions : IsTerminal(life[o])

----------------------------------------------------------------------------
(* The daemon dies, and its connections with it.                           *)
DaemonDies ==
    /\ Up
    /\ daemon' = "down"
    /\ opc' = [o \in Open |-> "done"]
    /\ closed' = FALSE /\ failed' = FALSE
    /\ channel' = [o \in Open |-> "none"]
    /\ sessions' = {} /\ werr' = {} /\ pend' = {} /\ sup' = {}
    /\ idem' = [k \in OpenKey |-> NoSession]
    /\ life' = [o \in Open |-> "none"]
    /\ lane' = [o \in Open |-> "none"] /\ fpc' = [o \in Open |-> "none"]
    /\ waiter' = [o \in Open |-> "none"] /\ wrote' = [o \in Open |-> "idle"]
    /\ spc' = "idle" /\ snap' = [sessions |-> {}, pending |-> {}]
    /\ UNCHANGED <<file, made, mode>>

NextDaemon ==
    /\ daemon = "down"
    /\ daemon' = "starting"
    /\ UNCHANGED <<opening, channel, life, file, ending, wrote, cleaning, stopping, made, mode>>

(* reconcileSessionFile: a session that was not terminal has crashed.  An  *)
(* error ends the startup, which may be tried again.                       *)
ReconcileSessionFile(o) ==
    /\ daemon = "starting"
    /\ file[o] # "none" /\ ~IsTerminal(file[o])
    /\ \E r \in RewrittenAs(file[o], "crashed") :
         /\ file' = [file EXCEPT ![o] = r[1]]
         /\ daemon' = IF r[2] = "ok" THEN daemon ELSE "down"
    /\ UNCHANGED <<opening, channel, life, ending, wrote, cleaning, stopping, made, mode>>

(* ReconcileCrashedSessions has seen every file.                           *)
Serve ==
    /\ daemon = "starting"
    /\ \A o \in Open : file[o] = "none" \/ IsTerminal(file[o])
    /\ daemon' = "restarted"
    /\ UNCHANGED <<opening, channel, life, file, ending, wrote, cleaning, stopping, made, mode>>

----------------------------------------------------------------------------
OpenStep(o) == \/ StartOpen(o) \/ DialFails(o) \/ DialSessionChannel(o)
               \/ PublishOpenSession(o) \/ CleanupFailedOpen(o)
WriteStep(o) == EnterChannel(o) \/ ChannelWrite(o) \/ WritePersist(o)
FinalizeSession(o) == FinalizeClose(o) \/ FinalizePersist(o)
ShutdownStep == \/ Snapshot \/ DrainTimeout \/ ShutdownReturns
                \/ \E o \in Open : VisitSession(o) \/ VisitCleanup(o)

SessionsNext == \/ \E o \in Open : \/ OpenStep(o) \/ BeginWrite(o) \/ WriteStep(o)
                           \/ CloseWithEffect(o) \/ ShellEnds(o) \/ WaitChannelExit(o)
                           \/ FinalizeSession(o)
                           \/ SuperviseRetry(o)
                           \/ ReconcileSessionFile(o)
        \/ ShutdownStart \/ ShutdownStep
        \/ DaemonDies \/ NextDaemon \/ Serve

SessionsSpec == SessionsInit /\ [][SessionsNext]_sessionVars

----------------------------------------------------------------------------
(* No SSH channel is forgotten: one whose close has not completed belongs  *)
(* to an open under way, to a session that is not terminal, or to a        *)
(* registered cleanup (open_failure.go, manager.go).                       *)
NoOrphanChannel ==
    \A o \in Open : channel[o] \in {"open", "closing"} =>
        \/ opc[o] \in Opening
        \/ o \in sessions /\ ~IsTerminal(life[o])
        \/ o \in pend

(* A Shutdown that returns without an error leaves nothing behind: no      *)
(* open, no cleanup, every session terminal, every channel closed.         *)
CleanShutdownDrains ==
    spc = "done" /\ ~failed =>
        Drained /\ \A o \in Open : channel[o] \notin {"open", "closing"}

(* No way out of Open, Close or Shutdown leaves a channel to nobody.       *)
ChannelsAreReaped == SessionsTypeOK /\ NoOrphanChannel /\ CleanShutdownDrains

(* Once a session is terminal and nobody finalizes it, its file says so,   *)
(* whatever writes are under way, unless a write of the file failed.       *)
TerminalIsDurable ==
    \A o \in sessions : ~Failing /\ lane[o] = "none" /\ IsTerminal(life[o]) => file[o] = life[o]
=============================================================================
