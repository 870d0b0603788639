---------------------------- MODULE StreamsProofs ---------------------------
(***************************************************************************)
(* Proofs about what carries a session's and an operation's output:        *)
(* Sessions, the manager of the terminal sessions and their SSH channels,  *)
(* for any opens, writes, closes, shutdowns and modes of failure;          *)
(* RingBuffer, the scrollback, for any sizes, capacities, readers and      *)
(* waiters; EventHub, for any publishers, subscribers and buffer sizes.    *)
(* And about Lease, under which a machine is worked on, for any sessions,  *)
(* scans, processes, runtimes, TTL, faults and width of the generation     *)
(* counter.                                                                *)
(***************************************************************************)
EXTENDS RingBuffer, EventHub, Sessions, Lease, SequenceTheorems, WellFoundedInduction, TLAPS

-----------------------------------------------------------------------------
(* Sessions.                                                               *)

(* A session is one that Open published; it is none of the cleanups, and   *)
(* nothing works on a channel that is no session's.                        *)
Published == \A o \in Open :
    /\ o \in sessions <=> life[o] # "none"
    /\ o \in sessions => opc[o] = "done" /\ o \notin pend
    /\ o \notin sessions => /\ lane[o] = "none" /\ fpc[o] = "none"
                            /\ waiter[o] = "none" /\ wrote[o] = "idle"
    /\ o \in pend => opc[o] = "done"
    /\ opc[o] \in {"idle", "dial"} => channel[o] = "none"

(* A session is final only once its channel has been closed to the end.    *)
(* The holder of the close lane alone moves it.                            *)
Lanes == \A o \in Open :
    /\ lane[o] = "none" <=> fpc[o] = "none"
    /\ fpc[o] = "close" => life[o] = "closing"
    /\ IsTerminal(life[o]) => Complete(channel[o])

(* Whoever writes the file of a session writes what it is; the one who     *)
(* decides how it ended writes last.                                       *)
Filed == \A o \in sessions :
    ~Failing /\ fpc[o] # "persist" /\ IsTerminal(life[o]) => file[o] = life[o]

(* What a Shutdown under way has behind it: no open is left, and what it   *)
(* has visited is closed, or it has an error to report.                    *)
Stopping ==
    /\ spc # "idle" => closed
    /\ spc = "visiting" \/ (spc = "done" /\ ~failed) =>
         /\ ActiveOpens = {}
         /\ ~failed => /\ \A o \in sessions : o \in snap.sessions \/ life[o] = "closed"
                       /\ pend \subseteq snap.pending
    /\ spc = "done" /\ ~failed => snap.sessions = {} /\ snap.pending = {}
    /\ spc = "visiting" => snap.sessions \subseteq sessions
    /\ \A o \in Open : lane[o] = "shutdown" => spc = "visiting" /\ o \in snap.sessions

(* A daemon that is not up has no session in memory.                       *)
Dead == daemon # "up" => sessions = {} /\ pend = {} /\ spc = "idle"

SessionsInv == /\ SessionsTypeOK /\ Published /\ Lanes /\ Filed /\ Stopping /\ Dead
               /\ NoOrphanChannel

-----------------------------------------------------------------------------
(* manager.go, open_failure.go: a step of Open preserves it.               *)
LEMMA OpenInv ==
    ASSUME SessionsInv, NEW o \in Open, OpenStep(o)
    PROVE  SessionsInv'
<1> USE SessionsAssumption
    DEF SessionsInv, SessionsTypeOK, Published, Lanes, Filed, Stopping, Dead,
        NoOrphanChannel, ending, cleaning, stopping, setting, Up, Failing, OpenTo, OpenAt,
        ActiveOpens, Opening, IsTerminal, Complete, SessionStates
<1>1. CASE StartOpen(o) BY <1>1 DEF StartOpen, BeginOpen
<1>2. CASE DialFails(o) BY <1>2 DEF DialFails
<1>3. CASE DialSessionChannel(o) BY <1>3 DEF DialSessionChannel
<1>4. CASE PublishOpenSession(o) BY <1>4 DEF PublishOpenSession
<1>5. CASE CleanupFailedOpen(o)
  BY <1>5 DEF CleanupFailedOpen, SupervisePendingCleanup, ChannelCloses
<1> QED BY <1>1, <1>2, <1>3, <1>4, <1>5 DEF OpenStep

(* manager.go, Write and Control: a step of a write preserves it.          *)
LEMMA WriteInv ==
    ASSUME SessionsInv, NEW o \in Open, BeginWrite(o) \/ WriteStep(o)
    PROVE  SessionsInv'
<1> USE SessionsAssumption
    DEF SessionsInv, SessionsTypeOK, Published, Lanes, Filed, Stopping, Dead,
        NoOrphanChannel, opening, ending, cleaning, stopping, setting, Up, Failing,
        ActiveOpens, Opening, IsTerminal, Complete, SessionStates
<1>1. CASE BeginWrite(o) BY <1>1 DEF BeginWrite
<1>2. CASE EnterChannel(o) BY <1>2 DEF EnterChannel
<1>3. CASE ChannelWrite(o) BY <1>3 DEF ChannelWrite
<1>4. CASE WritePersist(o) BY <1>4 DEF WritePersist, PersistSession, RewrittenAs
<1> QED BY <1>1, <1>2, <1>3, <1>4 DEF WriteStep

(* lifecycle.go: a step towards the end of a session preserves it.         *)
LEMMA FinalizeInv ==
    ASSUME SessionsInv, NEW o \in Open,
           \/ CloseWithEffect(o) \/ ShellEnds(o) \/ WaitChannelExit(o)
           \/ FinalizeSession(o) \/ SuperviseRetry(o)
    PROVE  SessionsInv'
<1> USE SessionsAssumption
    DEF SessionsInv, SessionsTypeOK, Published, Lanes, Filed, Stopping, Dead,
        NoOrphanChannel, opening, ending, cleaning, stopping, setting, Up, Failing,
        ActiveOpens, Opening, IsTerminal, Complete, SessionStates
<1>1. CASE CloseWithEffect(o) BY <1>1 DEF CloseWithEffect, AcquireLane
<1>2. CASE ShellEnds(o) BY <1>2 DEF ShellEnds
<1>3. CASE WaitChannelExit(o) BY <1>3 DEF WaitChannelExit, AcquireLane, AlreadyTerminal
<1>4. CASE FinalizeClose(o)
  BY <1>4 DEF FinalizeClose, ChannelCloses, NaturalWaitErr, FinalState
<1>5. CASE FinalizePersist(o)
  BY <1>5 DEF FinalizePersist, PersistSession, RewrittenAs, Collect, Visited, ReleaseLane
<1>6. CASE SuperviseRetry(o) BY <1>6 DEF SuperviseRetry, RetryPendingCleanup, ChannelCloses
<1> QED BY <1>1, <1>2, <1>3, <1>4, <1>5, <1>6 DEF FinalizeSession

(* shutdown.go: a step of Shutdown preserves it.                           *)
LEMMA ShutdownInv ==
    ASSUME SessionsInv, ShutdownStart \/ ShutdownStep
    PROVE  SessionsInv'
<1> USE SessionsAssumption
    DEF SessionsInv, SessionsTypeOK, Published, Lanes, Filed, Stopping, Dead,
        NoOrphanChannel, opening, ending, cleaning, stopping, setting, Up, Failing,
        ActiveOpens, Opening, IsTerminal, Complete, SessionStates
<1>1. CASE ShutdownStart
  <2>1. made' \in [write : 0 .. MaxWrites, close : 0 .. MaxCloses, shutdown : 0 .. MaxShutdowns]
    BY <1>1 DEF ShutdownStart
  <2> QED BY <1>1, <2>1 DEF ShutdownStart
<1>2. CASE Snapshot BY <1>2 DEF Snapshot
<1>3. CASE DrainTimeout BY <1>3 DEF DrainTimeout
<1>4. CASE ShutdownReturns BY <1>4 DEF ShutdownReturns, Visiting
<1>5. ASSUME NEW o \in Open, VisitSession(o) PROVE SessionsInv'
  <2>1. CASE AcquireLane(o, "shutdown") /\ UNCHANGED <<snap, failed>>
    BY <1>5, <2>1 DEF VisitSession, Visiting, AcquireLane
  <2>2. CASE /\ AlreadyTerminal(o) \/ Late
             /\ snap' = [snap EXCEPT !.sessions = @ \ {o}]
             /\ failed' = (failed \/ ~AlreadyTerminal(o) \/ life[o] # "closed")
             /\ UNCHANGED <<lane, fpc, life>>
    <3>1. /\ snap'.sessions = snap.sessions \ {o} /\ snap'.pending = snap.pending
          /\ snap' \in [sessions : SUBSET Open, pending : SUBSET Open]
          /\ failed' \in BOOLEAN /\ (~failed' => ~failed /\ life[o] = "closed")
      BY <2>2
    <3> QED BY <1>5, <2>2, <3>1 DEF VisitSession, Visiting
  <2> QED BY <1>5, <2>1, <2>2 DEF VisitSession
<1>6. ASSUME NEW o \in Open, VisitCleanup(o) PROVE SessionsInv'
  <2>1. /\ snap'.sessions = snap.sessions /\ snap'.pending = snap.pending \ {o}
        /\ snap' \in [sessions : SUBSET Open, pending : SUBSET Open]
    BY <1>6 DEF VisitCleanup
  <2>2. CASE /\ o \in pend
             /\ \E out \in ChannelCloses(o) :
                  RetryPendingCleanup(o, out) /\ failed' = (failed \/ out # "shut")
    <3>1. /\ failed' \in BOOLEAN /\ (~failed' => ~failed /\ o \notin pend')
          /\ pend' \subseteq pend
      BY <2>2 DEF RetryPendingCleanup
    <3> QED BY <1>6, <2>1, <2>2, <3>1
            DEF VisitCleanup, Visiting, RetryPendingCleanup, ChannelCloses
  <2>3. CASE /\ o \notin pend \/ Late
             /\ failed' = (failed \/ o \in pend)
             /\ UNCHANGED <<channel, pend>>
    <3>1. failed' \in BOOLEAN /\ (~failed' => ~failed /\ o \notin pend)
      BY <2>3
    <3> QED BY <1>6, <2>1, <2>3, <3>1 DEF VisitCleanup, Visiting
  <2> QED BY <1>6, <2>2, <2>3 DEF VisitCleanup
<1> QED BY <1>1, <1>2, <1>3, <1>4, <1>5, <1>6 DEF ShutdownStep

(* reconcile.go: the death of the daemon and the next start preserve it.   *)
LEMMA RestartInv ==
    ASSUME SessionsInv,
           \/ DaemonDies \/ NextDaemon \/ Serve
           \/ \E o \in Open : ReconcileSessionFile(o)
    PROVE  SessionsInv'
<1> USE SessionsAssumption
    DEF SessionsInv, SessionsTypeOK, Published, Lanes, Filed, Stopping, Dead,
        NoOrphanChannel, opening, ending, cleaning, stopping, setting, Up, Failing,
        ActiveOpens, Opening, IsTerminal, Complete, SessionStates
<1>1. CASE DaemonDies BY <1>1 DEF DaemonDies
<1>2. CASE NextDaemon BY <1>2 DEF NextDaemon
<1>3. CASE Serve BY <1>3 DEF Serve
<1>4. ASSUME NEW o \in Open, ReconcileSessionFile(o) PROVE SessionsInv'
  BY <1>4 DEF ReconcileSessionFile, RewrittenAs
<1> QED BY <1>1, <1>2, <1>3, <1>4

(* internal/sessions: what every reachable state of the manager satisfies; *)
(* the theorems below are its consequences.                                *)
LEMMA SessionsInvariant == SessionsSpec => []SessionsInv
<1>1. SessionsInit => SessionsInv
  <2> SUFFICES ASSUME SessionsInit PROVE SessionsInv
    OBVIOUS
  <2> USE SessionsAssumption DEF SessionsInit, SessionStates
  <2>0. /\ made \in [write : 0 .. MaxWrites, close : 0 .. MaxCloses, shutdown : 0 .. MaxShutdowns]
        /\ snap \in [sessions : SUBSET Open, pending : SUBSET Open]
        /\ mode \in {"calm", "late", "failing", "both"}
    OBVIOUS
  <2>1. SessionsTypeOK BY <2>0 DEF SessionsTypeOK, Opening
  <2>2. Published /\ Lanes BY DEF Published, Lanes, IsTerminal
  <2>3. Filed /\ Dead /\ NoOrphanChannel BY DEF Filed, Dead, NoOrphanChannel
  <2>4. Stopping BY DEF Stopping
  <2> QED BY <2>1, <2>2, <2>3, <2>4 DEF SessionsInv
<1>2. SessionsInv /\ [SessionsNext]_sessionVars => SessionsInv'
  <2> SUFFICES ASSUME SessionsInv, [SessionsNext]_sessionVars PROVE SessionsInv'
    OBVIOUS
  <2>1. CASE SessionsNext
    BY <2>1, OpenInv, WriteInv, FinalizeInv, ShutdownInv, RestartInv DEF SessionsNext
  <2>2. CASE UNCHANGED sessionVars
    BY <2>2 DEF sessionVars, SessionsInv, SessionsTypeOK, Published, Lanes, Filed,
                Stopping, Dead, NoOrphanChannel, Failing, ActiveOpens
  <2> QED BY <2>1, <2>2
<1> QED BY <1>1, <1>2, PTL DEF SessionsSpec

(* open_failure.go, manager.go, shutdown.go: no SSH channel is left to     *)
(* nobody, and a Shutdown that returns without an error leaves no open, no *)
(* cleanup and no channel, whatever opens, closes and retries it meets.    *)
THEOREM SessionsReapChannels == SessionsSpec => []ChannelsAreReaped
<1>1. SessionsInv => ChannelsAreReaped
  BY DEF SessionsInv, SessionsTypeOK, ChannelsAreReaped, NoOrphanChannel, Stopping,
         CleanShutdownDrains, Drained, ActiveOpens, Opening, IsTerminal
<1> QED BY <1>1, SessionsInvariant, PTL

(* lifecycle.go, persistence.go: once nobody finalizes a terminal session  *)
(* its file holds that state, whatever writes are under way.               *)
THEOREM SessionsTerminalIsDurable == SessionsSpec => []TerminalIsDurable
<1>1. SessionsInv => TerminalIsDurable
  BY DEF SessionsInv, SessionsTypeOK, Filed, Lanes, TerminalIsDurable
<1> QED BY <1>1, SessionsInvariant, PTL

-----------------------------------------------------------------------------
(* RingBuffer.                                                             *)

(* A set of numbers has a least one: induction, in the form the proofs     *)
(* below use it.                                                           *)
LEMMA LeastElement ==
    ASSUME NEW T \in SUBSET Nat, T # {}
    PROVE  \E x \in T : \A y \in T : x <= y
<1> DEFINE R == OpToRel(<, Nat)
<1>1. IsWellFoundedOn(R, Nat) BY NatLessThanWellFounded
<1>2. \A x, y \in Nat : <<x, y>> \in R <=> x < y BY DEF OpToRel
<1> HIDE DEF R
<1>3. PICK x \in T : \A y \in T : ~ (<<y, x>> \in R) BY <1>1, WFMin
<1>4. ASSUME NEW y \in T PROVE x <= y
  <2>1. x \in Nat /\ y \in Nat OBVIOUS
  <2>2. ~(y < x) BY <1>2, <1>3, <2>1
  <2> QED BY <2>1, <2>2
<1> QED BY <1>4

(* A set of numbers from a to b that is not empty holds a, or a number     *)
(* whose predecessor it does not hold: induction once more.                *)
LEMMA FirstIn ==
    ASSUME NEW a \in Nat, NEW b \in Nat, NEW T \in SUBSET (a .. b), T # {}
    PROVE  \E x \in T : x = a \/ (x # a /\ x - 1 \in (a .. b) \ T)
<1>1. T \in SUBSET Nat OBVIOUS
<1>2. PICK x \in T : \A y \in T : x <= y BY <1>1, LeastElement
<1>3. x \in a .. b OBVIOUS
<1>4. x # a => x - 1 \in (a .. b) \ T BY <1>2, <1>3
<1> QED BY <1>4

(* A set of numbers up to n has a greatest one.                            *)
LEMMA GreatestElement ==
    ASSUME NEW n \in Nat, NEW T \in SUBSET (0 .. n), T # {}
    PROVE  \E x \in T : \A y \in T : y <= x
<1> DEFINE U == {m \in Nat : \A y \in T : y <= m}
<1>1. n \in U /\ U \in SUBSET Nat OBVIOUS
<1>2. PICK u \in U : \A v \in U : u <= v BY <1>1, LeastElement
<1>3. u \in T
  <2> SUFFICES ASSUME u \notin T PROVE FALSE
    OBVIOUS
  <2>1. \A y \in T : y <= u /\ y # u /\ y \in Nat BY <1>2
  <2>4. PICK y \in T : TRUE OBVIOUS
  <2>2. u \in Nat /\ u # 0 BY <1>2, <2>1, <2>4
  <2>3. u - 1 \in U BY <2>1, <2>2
  <2> QED BY <1>2, <2>2, <2>3
<1> QED BY <1>2, <1>3

(* The totals of a log exist, and are what their equations say.            *)
LEMMA TotalIs ==
    ASSUME NEW s \in Seq(Nat)
    PROVE  /\ Total(s) \in [0 .. Len(s) -> Nat]
           /\ Total(s)[0] = 0
           /\ \A n \in 1 .. Len(s) : Total(s)[n] = Total(s)[n - 1] + s[n]
<1> DEFINE Upto(n) == \E f \in [0 .. n -> Nat] :
                          f[0] = 0 /\ \A i \in 1 .. n : f[i] = f[i - 1] + s[i]
           Bad == {n \in 0 .. Len(s) : ~Upto(n)}
<1>1. Upto(0)
  <2> DEFINE z == [i \in 0 .. 0 |-> 0]
  <2>1. z \in [0 .. 0 -> Nat] /\ z[0] = 0 /\ \A i \in 1 .. 0 : z[i] = z[i - 1] + s[i] OBVIOUS
  <2> HIDE DEF z
  <2> QED BY <2>1
<1>2. ASSUME NEW n \in 0 .. Len(s) - 1, Upto(n) PROVE Upto(n + 1)
  <2>1. PICK f \in [0 .. n -> Nat] : f[0] = 0 /\ \A i \in 1 .. n : f[i] = f[i - 1] + s[i]
    BY <1>2
  <2> DEFINE g == [i \in 0 .. n + 1 |-> IF i = n + 1 THEN f[n] + s[n + 1] ELSE f[i]]
  <2>2. s[n + 1] \in Nat OBVIOUS
  <2>3. g \in [0 .. n + 1 -> Nat] BY <2>2
  <2>4. g[0] = 0 BY <2>1
  <2>5. ASSUME NEW i \in 1 .. n + 1 PROVE g[i] = g[i - 1] + s[i]
    <3>1. i - 1 \in 0 .. n /\ g[i - 1] = f[i - 1] OBVIOUS
    <3>2. CASE i = n + 1 BY <3>1, <3>2
    <3>3. CASE i \in 1 .. n BY <2>1, <3>1, <3>3
    <3> QED BY <3>2, <3>3
  <2> HIDE DEF g
  <2> QED BY <2>3, <2>4, <2>5
<1> HIDE DEF Upto
<1>3. Bad = {}
  <2> SUFFICES ASSUME Bad # {} PROVE FALSE
    OBVIOUS
  <2>0. Bad \in SUBSET (0 .. Len(s)) /\ Len(s) \in Nat OBVIOUS
  <2> HIDE DEF Bad
  <2>1. PICK m \in Bad : m = 0 \/ (m # 0 /\ m - 1 \in (0 .. Len(s)) \ Bad) BY <2>0, FirstIn
  <2> USE DEF Bad
  <2>2. m # 0 BY <1>1
  <2>3. m - 1 \in 0 .. Len(s) - 1 /\ Upto(m - 1) BY <2>1, <2>2
  <2>4. Upto((m - 1) + 1) BY <1>2, <2>3
  <2>5. (m - 1) + 1 = m OBVIOUS
  <2> QED BY <2>4, <2>5
<1>4. PICK f \in [0 .. Len(s) -> Nat] :
          f[0] = 0 /\ \A i \in 1 .. Len(s) : f[i] = f[i - 1] + s[i]
  <2>1. Len(s) \in 0 .. Len(s) OBVIOUS
  <2>2. Upto(Len(s)) BY <1>3, <2>1
  <2> QED BY <2>2 DEF Upto
<1> DEFINE Eq(T) == T = [n \in 0 .. Len(s) |-> IF n = 0 THEN 0 ELSE T[n - 1] + s[n]]
<1>5. Eq(f) BY <1>4
<1>6. Total(s) = CHOOSE T : Eq(T) BY DEF Total
<1>7. Eq(Total(s)) BY <1>5, <1>6
<1>9. /\ Total(s) = [n \in 0 .. Len(s) |-> Total(s)[n]] /\ Total(s)[0] = 0
      /\ \A n \in 1 .. Len(s) : Total(s)[n] = Total(s)[n - 1] + s[n]
  <2>1. DOMAIN Total(s) = 0 .. Len(s) BY <1>7
  <2>2. \A n \in 0 .. Len(s) : Total(s)[n] = IF n = 0 THEN 0 ELSE Total(s)[n - 1] + s[n]
    BY <1>7
  <2>3. Total(s) = [n \in DOMAIN Total(s) |-> Total(s)[n]] BY <1>7
  <2> QED BY <2>1, <2>2, <2>3
<1> HIDE DEF Eq
<1>10. ASSUME NEW n \in 1 .. Len(s), Total(s)[n - 1] \in Nat PROVE Total(s)[n] \in Nat
  <2>1. Total(s)[n] = Total(s)[n - 1] + s[n] BY <1>9
  <2>2. s[n] \in Nat OBVIOUS
  <2> QED BY <1>10, <2>1, <2>2
<1> DEFINE Odd == {n \in 0 .. Len(s) : Total(s)[n] \notin Nat}
<1>8. Odd = {}
  <2> SUFFICES ASSUME Odd # {} PROVE FALSE
    OBVIOUS
  <2>0. Odd \in SUBSET (0 .. Len(s)) /\ Len(s) \in Nat OBVIOUS
  <2> HIDE DEF Odd
  <2>1. PICK m \in Odd : m = 0 \/ (m # 0 /\ m - 1 \in (0 .. Len(s)) \ Odd) BY <2>0, FirstIn
  <2> USE DEF Odd
  <2>2. m # 0 BY <1>9, <2>1
  <2>3. m - 1 \in 0 .. Len(s) /\ Total(s)[m - 1] \in Nat BY <2>1, <2>2
  <2>4. m \in 1 .. Len(s) /\ Total(s)[m] \notin Nat BY <2>2
  <2> HIDE DEF Odd
  <2> QED BY <1>10, <2>3, <2>4
<1> QED BY <1>8, <1>9

(* The totals grow with every chunk, by a byte at least.                   *)
LEMMA TotalGrows ==
    ASSUME NEW s \in Seq(Nat \ {0}), NEW i \in 0 .. Len(s), NEW j \in i .. Len(s)
    PROVE  Total(s)[i] + (j - i) <= Total(s)[j]
<1>1. PICK T \in [0 .. Len(s) -> Nat] :
          T = Total(s) /\ \A n \in 1 .. Len(s) : T[n] = T[n - 1] + s[n]
  <2>1. s \in Seq(Nat) OBVIOUS
  <2> QED BY <2>1, TotalIs
<1>3. T[i] + (i - i) <= T[i]
  <2>1. T[i] \in Nat OBVIOUS
  <2> QED BY <2>1
<1>4. ASSUME NEW n \in i + 1 .. Len(s), T[i] + (n - 1 - i) <= T[n - 1]
      PROVE  T[i] + (n - i) <= T[n]
  <2>0. i \in Nat /\ n \in Nat /\ n \in 0 .. Len(s) /\ n - 1 \in 0 .. Len(s) OBVIOUS
  <2>6. \A k \in 0 .. Len(s) : T[k] \in Nat OBVIOUS
  <2>1. T[i] \in Nat /\ T[n] \in Nat /\ T[n - 1] \in Nat BY <2>0, <2>6
  <2>2. T[n] = T[n - 1] + s[n] BY <1>1
  <2>3. s[n] \in Nat \ {0} OBVIOUS
  <2>4. \A a, b, c, d, e \in Nat : a + (d - 1 - e) <= b /\ c >= 1 => a + (d - e) <= b + c
    OBVIOUS
  <2>5. s[n] \in Nat /\ s[n] >= 1 BY <2>3
  <2> QED BY <1>4, <2>0, <2>1, <2>2, <2>4, <2>5
<1> DEFINE Bad == {n \in i .. Len(s) : ~(T[i] + (n - i) <= T[n])}
<1>2. Bad = {}
  <2> SUFFICES ASSUME Bad # {} PROVE FALSE
    OBVIOUS
  <2>0. Bad \in SUBSET (i .. Len(s)) /\ Len(s) \in Nat /\ i \in Nat OBVIOUS
  <2> HIDE DEF Bad
  <2>1. PICK m \in Bad : m = i \/ (m # i /\ m - 1 \in (i .. Len(s)) \ Bad) BY <2>0, FirstIn
  <2> USE DEF Bad
  <2>2. m \in i .. Len(s) /\ ~(T[i] + (m - i) <= T[m]) OBVIOUS
  <2>3. m # i BY <1>3, <2>2
  <2>4. m - 1 \in i .. Len(s) /\ T[i] + (m - 1 - i) <= T[m - 1] BY <2>1, <2>3
  <2> HIDE DEF Bad
  <2>5. m \in i + 1 .. Len(s) BY <2>2, <2>3
  <2> QED BY <1>4, <2>2, <2>4, <2>5
<1> QED BY <1>1, <1>2

(* A new chunk leaves the totals before it as they are.                    *)
LEMMA TotalOfAppend ==
    ASSUME NEW s \in Seq(Nat), NEW n \in Nat
    PROVE  /\ \A i \in 0 .. Len(s) : Total(Append(s, n))[i] = Total(s)[i]
           /\ Total(Append(s, n))[Len(s) + 1] = Total(s)[Len(s)] + n
<1> DEFINE t == Append(s, n)
           Bad == {i \in 0 .. Len(s) : Total(t)[i] # Total(s)[i]}
<1>1. t \in Seq(Nat) /\ Len(t) = Len(s) + 1 /\ t[Len(s) + 1] = n
      /\ \A i \in 1 .. Len(s) : t[i] = s[i]
  OBVIOUS
<1>2. /\ Total(t) \in [0 .. Len(t) -> Nat] /\ Total(t)[0] = 0
      /\ \A i \in 1 .. Len(t) : Total(t)[i] = Total(t)[i - 1] + t[i]
  BY <1>1, TotalIs
<1>3. /\ Total(s) \in [0 .. Len(s) -> Nat] /\ Total(s)[0] = 0
      /\ \A i \in 1 .. Len(s) : Total(s)[i] = Total(s)[i - 1] + s[i]
  BY TotalIs
<1> HIDE DEF t
<1>4. Bad = {}
  <2> SUFFICES ASSUME Bad # {} PROVE FALSE
    OBVIOUS
  <2>0. Bad \in SUBSET (0 .. Len(s)) /\ Len(s) \in Nat OBVIOUS
  <2> HIDE DEF Bad
  <2>1. PICK m \in Bad : m = 0 \/ (m # 0 /\ m - 1 \in (0 .. Len(s)) \ Bad) BY <2>0, FirstIn
  <2> USE DEF Bad
  <2>2. m # 0 BY <1>2, <1>3, <2>1
  <2>3. m - 1 \in 0 .. Len(s) /\ m - 1 \notin Bad BY <2>1, <2>2
  <2> QED BY <1>1, <1>2, <1>3, <2>1, <2>2, <2>3
<1>5. Total(t)[Len(s) + 1] = Total(s)[Len(s)] + n
  BY <1>1, <1>2, <1>3, <1>4
<1> QED BY <1>4, <1>5 DEF t

(* Bytes from a to b - 1 and from b to c are those from a to c.            *)
LEMMA BytesOf ==
    ASSUME NEW s \in Seq(Nat \ {0}), NEW i \in 0 .. Len(s), NEW j \in i .. Len(s)
    PROVE  /\ Bytes(s, i + 1, j) = Total(s)[j] - Total(s)[i]
           /\ Total(s)[i] \in Nat /\ Total(s)[j] \in Nat
           /\ Total(s)[i] + (j - i) <= Total(s)[j]
<1>1. s \in Seq(Nat) /\ i + 1 - 1 = i /\ j \in 0 .. Len(s) OBVIOUS
<1>2. \A k \in 0 .. Len(s) : Total(s)[k] \in Nat BY <1>1, TotalIs
<1> QED BY <1>1, <1>2, TotalGrows DEF Bytes

(* buffer.go: what is in the buffer is a last part of the log, and no      *)
(* reader is ahead of it.                                                  *)
Window == /\ first \in 1 .. Len(log) + 1
          /\ log # <<>> => first <= Len(log)
          /\ \A r \in Reader : cursor[r] <= Len(log)

RingInv == ReadersServed /\ Window /\ NoLostWakeup

(* The eviction loop ends: the newest chunk is always kept.                *)
LEMMA FirstKeptIs ==
    ASSUME RingInv, NEW s \in Seq(Size), first <= Len(s)
    PROVE  FirstKept(s) \in first .. Len(s) /\ Keeps(s, FirstKept(s))
<1> DEFINE Kept == {f \in first .. Len(s) : Keeps(s, f)}
<1>1. first \in Nat /\ Len(s) \in Nat BY DEF RingInv, Window
<1>2. Kept \in SUBSET Nat /\ Len(s) \in Kept BY <1>1 DEF Keeps
<1> HIDE DEF Kept
<1>3. PICK f \in Kept : \A e \in Kept : f <= e BY <1>2, LeastElement
<1> USE DEF Kept
<1>4. f \in first .. Len(s) /\ Keeps(s, f) OBVIOUS
<1>5. \A e \in first .. f - 1 : ~Keeps(s, e)
  <2> SUFFICES ASSUME NEW e \in first .. f - 1, Keeps(s, e) PROVE FALSE
    OBVIOUS
  <2>1. e \in first .. Len(s) BY <1>1, <1>4
  <2>2. e \in Kept BY <2>1
  <2> HIDE DEF Kept
  <2> QED BY <1>1, <1>3, <1>4, <2>2
<1> HIDE DEF Kept
<1> QED BY <1>4, <1>5 DEF FirstKept

(* buffer.go, Append: a chunk is added, the oldest ones go, and whoever    *)
(* waits has a notification.                                               *)
LEMMA AppendInv ==
    ASSUME RingInv, NEW n \in Size, NEW match \in BOOLEAN, Append1(n, match)
    PROVE  RingInv'
<1> DEFINE s == Append(log, n)
           f == FirstKept(s)
<1>1. /\ log \in Seq(Size) /\ Size \subseteq Nat \ {0} /\ n \in Nat \ {0}
      /\ log \in Seq(Nat) /\ log \in Seq(Nat \ {0})
      /\ first \in 1 .. Len(log) + 1 /\ Len(log) \in Nat /\ MaxChunks \in Nat
  <2>1. log \in Seq(Size) /\ Size \subseteq Nat \ {0} /\ Nat \ {0} \subseteq Nat
        /\ MaxChunks \in Nat
    BY RingBufferAssumption DEF RingInv, ReadersServed, TypeOK
  <2>2. log \in Seq(Nat \ {0}) /\ log \in Seq(Nat) BY <2>1, SeqMonotonic
  <2>3. first \in 1 .. Len(log) + 1 BY DEF RingInv, Window
  <2> QED BY <2>1, <2>2, <2>3
<1>2. /\ s \in Seq(Size) /\ s \in Seq(Nat) /\ s \in Seq(Nat \ {0})
      /\ Len(s) = Len(log) + 1 /\ s # <<>>
  BY <1>1
<1> HIDE DEF s
<1>3. f \in first .. Len(s) /\ Keeps(s, f)
  <2>1. first <= Len(s) BY <1>1, <1>2
  <2> QED BY <1>2, <2>1, FirstKeptIs
<1> USE DEF s
<1>4. /\ Len(log) < MaxChunks /\ log' = s /\ first' = f
      /\ current' = current + n - Bytes(s, first, f - 1)
      /\ dropped' = dropped + Bytes(s, first, f - 1)
      /\ UNCHANGED <<cursor, last, got, told, wpc>>
  BY DEF Append1, readers
<1>5. /\ \A i \in 0 .. Len(log) : Total(s)[i] = Total(log)[i]
      /\ Total(s)[Len(s)] = Total(log)[Len(log)] + n
  BY <1>1, <1>2, TotalOfAppend
<1> HIDE DEF s, f
<1>6. Window'
  <2>1. first' \in 1 .. Len(log') + 1 /\ first' <= Len(log') BY <1>1, <1>2, <1>3, <1>4
  <2>2. ASSUME NEW r \in Reader PROVE cursor'[r] <= Len(log')
    <3>1. cursor[r] \in 0 .. MaxChunks /\ cursor[r] <= Len(log)
      BY DEF RingInv, ReadersServed, TypeOK, Window
    <3> QED BY <1>1, <1>2, <1>4, <3>1
  <2> QED BY <2>1, <2>2 DEF Window
<1>7. /\ first - 1 \in 0 .. Len(log) /\ f - 1 \in 0 .. Len(log) /\ f - 1 \in Nat
      /\ f - 1 \in first - 1 .. Len(log)
  BY <1>1, <1>2, <1>3
<1>8. /\ current = Total(log)[Len(log)] - Total(log)[first - 1]
      /\ dropped = Total(log)[first - 1]
  <2>1. Total(log)[0] = 0 /\ \A i \in 0 .. Len(log) : Total(log)[i] \in Nat BY <1>1, TotalIs
  <2>2. 1 - 1 = 0 OBVIOUS
  <2> QED BY <1>7, <2>1, <2>2 DEF RingInv, ReadersServed, Accounting, Bytes
<1>9. /\ Bytes(s, first, f - 1) = Total(log)[f - 1] - Total(log)[first - 1]
      /\ Bytes(s, f, Len(s)) = (Total(log)[Len(log)] + n) - Total(log)[f - 1]
      /\ Bytes(s, 1, f - 1) = Total(log)[f - 1]
  <2>1. Total(s)[0] = 0 /\ 1 - 1 = 0 BY <1>2, TotalIs
  <2>2. Total(s)[f - 1] = Total(log)[f - 1] /\ Total(s)[first - 1] = Total(log)[first - 1]
    BY <1>5, <1>7
  <2>3. Total(log)[f - 1] \in Nat BY <1>1, <1>7, TotalIs
  <2>4. Bytes(s, first, f - 1) = Total(log)[f - 1] - Total(log)[first - 1] BY <2>2 DEF Bytes
  <2>5. Bytes(s, f, Len(s)) = (Total(log)[Len(log)] + n) - Total(log)[f - 1]
    <3>1. Bytes(s, f, Len(s)) = Total(s)[Len(s)] - Total(s)[f - 1] BY DEF Bytes
    <3> QED BY <1>5, <2>2, <3>1
  <2>6. Bytes(s, 1, f - 1) = Total(log)[f - 1] BY <2>1, <2>2, <2>3 DEF Bytes
  <2> QED BY <2>4, <2>5, <2>6
<1>10. /\ Total(log)[f - 1] \in Nat /\ Total(log)[first - 1] \in Nat
       /\ Total(log)[Len(log)] \in Nat
       /\ Total(log)[f - 1] <= Total(log)[Len(log)]
  <2>1. \A i \in 0 .. Len(log) : Total(log)[i] \in Nat BY <1>1, TotalIs
  <2>2. f - 1 \in 0 .. Len(log) /\ Len(log) \in f - 1 .. Len(log) BY <1>7
  <2>3. Total(log)[f - 1] + (Len(log) - (f - 1)) <= Total(log)[Len(log)]
    BY <1>1, <2>2, TotalGrows
  <2> QED BY <1>1, <1>7, <2>1, <2>2, <2>3
<1>11. Accounting' /\ current' \in Nat /\ dropped' \in Nat
  <2>1. current' = (Total(log)[Len(log)] + n) - Total(log)[f - 1] /\ dropped' = Total(log)[f - 1]
    BY <1>1, <1>4, <1>8, <1>9, <1>10
  <2>2. current' <= MaxBytes \/ first' = Len(log')
    BY <1>3, <1>4, <1>9, <2>1 DEF Keeps
  <2> QED BY <1>1, <1>4, <1>9, <1>10, <2>1, <2>2 DEF Accounting
<1>12. TypeOK'
  <2>1. hits' \subseteq 1 .. Len(log')
    <3>1. hits \subseteq 1 .. Len(log) BY DEF RingInv, ReadersServed, TypeOK
    <3>2. hits' \subseteq hits \cup {Len(s)} BY DEF Append1, s
    <3>3. \A h \in 1 .. Len(log) : h \in 1 .. Len(log) + 1 BY <1>1
    <3> QED BY <1>1, <1>2, <1>4, <3>1, <3>2, <3>3
  <2>2. tokens' \in [Waiter -> 0 .. ChanCap]
    BY RingBufferAssumption DEF Append1, RingInv, ReadersServed, TypeOK
  <2>3. first' \in 1 .. MaxChunks + 1 /\ Len(log') <= MaxChunks
    BY <1>1, <1>2, <1>3, <1>4
  <2> QED BY <1>2, <1>4, <1>11, <2>1, <2>2, <2>3 DEF RingInv, ReadersServed, TypeOK
<1>13. NoSilentGap' /\ ReadProgress'
  BY <1>4 DEF RingInv, ReadersServed, NoSilentGap, ReadProgress
<1>14. NoLostWakeup'
  <2> SUFFICES ASSUME NEW w \in Waiter, wpc[w] = "waiting" PROVE tokens'[w] > 0
    BY <1>4 DEF NoLostWakeup
  <2>1. tokens[w] \in 0 .. ChanCap /\ ChanCap \in Nat \ {0}
    BY RingBufferAssumption DEF RingInv, ReadersServed, TypeOK
  <2> QED BY <2>1 DEF Append1
<1> QED BY <1>6, <1>11, <1>12, <1>13, <1>14 DEF RingInv, ReadersServed

(* buffer.go, ReadAfter: an answer goes on from where the client is, and   *)
(* everything up to its next sequence is in it or is reported lost; where  *)
(* it says that there is more, and nothing is lost, it gets further.       *)
LEMMA ReadAfterIs ==
    ASSUME RingInv, NEW after \in 0 .. Len(log), NEW limit \in Nat
    PROVE  LET a == ReadAfter(after, limit) IN
           /\ a.after = after /\ a.next \in after .. Len(log)
           /\ a.chunks \in SUBSET (1 .. Len(log)) /\ a.loss \in Nat /\ a.more \in BOOLEAN
           /\ \A i \in after + 1 .. a.next : i \in a.chunks \/ (a.loss > 0 /\ i < first)
           /\ a.more /\ a.loss = 0 => a.next > after
<1> DEFINE marked == Marked(after)
           from == IF marked THEN first - 1 ELSE after
           avail == {i \in first .. Len(log) : i > from}
           taken == {i \in avail : Fits(i, from, marked, limit)}
           next == IF taken = {} THEN from ELSE CHOOSE m \in taken : \A i \in taken : i <= m
<1>1. /\ log \in Seq(Nat \ {0}) /\ log \in Seq(Nat) /\ first \in 1 .. Len(log) + 1 /\ dropped \in Nat
      /\ Len(log) \in Nat
  <2>1. log \in Seq(Size) /\ Size \subseteq Nat \ {0}
    BY RingBufferAssumption DEF RingInv, ReadersServed, TypeOK
  <2>2. log \in Seq(Nat \ {0}) BY <2>1, SeqMonotonic
  <2>3. log \in Seq(Nat) BY <2>2, SeqMonotonic
  <2>4. first \in 1 .. Len(log) + 1 /\ dropped \in Nat
    BY DEF RingInv, ReadersServed, TypeOK, Window
  <2> QED BY <2>2, <2>3, <2>4
<1>2. ReadAfter(after, limit) = [after |-> after, chunks |-> taken, next |-> next,
          loss |-> IF marked THEN dropped ELSE 0, more |-> taken # avail]
  BY DEF ReadAfter
(* Nothing was dropped only while the first chunk is in the buffer.        *)
<1>3. dropped = 0 => first = 1
  <2>1. Total(log)[0] = 0 /\ 0 \in 0 .. Len(log) /\ first - 1 \in 0 .. Len(log) /\ 1 - 1 = 0
    BY <1>1, TotalIs
  <2>2. Total(log)[0] + ((first - 1) - 0) <= Total(log)[first - 1] BY <1>1, <2>1, TotalGrows
  <2>3. Total(log)[first - 1] \in Nat BY <1>1, <2>1, TotalIs
  <2>4. dropped = Total(log)[first - 1]
    BY <2>1, <2>3 DEF RingInv, ReadersServed, Accounting, Bytes
  <2> QED BY <1>1, <2>1, <2>2, <2>3, <2>4
<1>4. /\ from \in after .. Len(log) /\ from + 1 >= first
      /\ marked => dropped > 0 /\ from = first - 1
      /\ ~marked => from = after
  <2>1. CASE marked BY <1>1, <2>1 DEF Marked, RingInv, Window
  <2>2. CASE ~marked
    <3>1. log = <<>> => first = 1 BY <1>1
    <3> QED BY <1>1, <1>3, <2>2, <3>1 DEF Marked
  <2> QED BY <2>1, <2>2
<1> HIDE DEF marked, from
<1>5. taken \subseteq avail /\ \A i \in avail : i \in from + 1 .. Len(log)
  BY <1>1, <1>4
(* A chunk before one that is taken fits as well.                          *)
<1>6. ASSUME NEW m \in taken, NEW i \in from + 1 .. m PROVE i \in taken
  <2>1. m \in from + 1 .. Len(log) /\ m \in Nat /\ from \in Nat /\ i \in Nat
    BY <1>1, <1>4, <1>5
  <2>2. i \in avail BY <1>1, <1>4, <2>1
  <2>3. Limit(limit) \in Nat BY RingBufferAssumption DEF Limit
  <2>4. CASE Bytes(log, from + 1, m) <= Limit(limit)
    <3>1. /\ Bytes(log, from + 1, m) = Total(log)[m] - Total(log)[from]
          /\ Bytes(log, from + 1, i) = Total(log)[i] - Total(log)[from]
          /\ Total(log)[from] \in Nat /\ Total(log)[i] \in Nat /\ Total(log)[m] \in Nat
      <4>1. from \in 0 .. Len(log) /\ m \in from .. Len(log) /\ i \in from .. Len(log)
        BY <1>1, <2>1
      <4> QED BY <1>1, <4>1, BytesOf
    <3>4. i \in 0 .. Len(log) /\ m \in i .. Len(log) BY <1>1, <2>1
    <3>2. Total(log)[i] + (m - i) <= Total(log)[m] BY <1>1, <3>4, TotalGrows
    <3>3. Bytes(log, from + 1, i) <= Limit(limit) BY <2>1, <2>3, <2>4, <3>1, <3>2
    <3> QED BY <2>2, <3>3 DEF Fits
  <2>5. CASE m = from + 1 BY <2>1, <2>5
  <2> QED BY <2>4, <2>5 DEF Fits
<1>7. next \in after .. Len(log) /\ next >= from /\ (taken # {} => next \in taken)
  <2>1. CASE taken = {} BY <1>1, <1>4, <2>1
  <2>2. CASE taken # {}
    <3>1. taken \in SUBSET (0 .. Len(log)) BY <1>1, <1>4, <1>5
    <3> HIDE DEF taken
    <3>2. \E m \in taken : \A i \in taken : i <= m BY <1>1, <2>2, <3>1, GreatestElement
    <3>3. next \in taken BY <2>2, <3>2
    <3>4. next \in from + 1 .. Len(log) BY <1>5, <3>3
    <3> HIDE DEF next
    <3> QED BY <1>1, <1>4, <3>3, <3>4
  <2> QED BY <2>1, <2>2
<1> HIDE DEF next
<1>8. ASSUME NEW i \in after + 1 .. next
      PROVE  i \in taken \/ (marked /\ i < first)
  <2>1. CASE i <= from BY <1>1, <1>4, <1>7, <2>1
  <2>2. CASE i > from
    <3>1. i \in from + 1 .. next BY <1>1, <1>4, <1>7, <2>2
    <3>2. taken # {} BY <1>1, <1>4, <1>7, <3>1 DEF next
    <3> QED BY <1>6, <1>7, <3>1, <3>2
  <2> QED BY <1>1, <1>4, <1>7, <2>1, <2>2
<1>9. ASSUME taken # avail, ~marked PROVE next > after
  <2>1. PICK i \in avail : i \notin taken BY <1>9
  <2>2. from + 1 \in avail BY <1>1, <1>4, <1>5, <2>1
  <2>3. from + 1 \in taken BY <1>9, <2>2 DEF Fits
  <2>4. next \in taken BY <1>7, <2>3
  <2> QED BY <1>1, <1>4, <1>5, <1>7, <1>9, <2>4
<1> HIDE DEF taken, avail, next
<1>10. taken \in SUBSET (1 .. Len(log)) BY <1>1, <1>4, <1>5
<1> DEFINE a == ReadAfter(after, limit)
<1>11. /\ a.after = after /\ a.next = next /\ a.chunks = taken
       /\ a.loss = (IF marked THEN dropped ELSE 0) /\ a.more = (taken # avail)
  BY <1>2
<1> HIDE DEF a
<1>12. a.loss \in Nat /\ (marked <=> a.loss > 0) BY <1>1, <1>4, <1>11
<1>13. /\ a.after = after /\ a.next \in after .. Len(log)
       /\ a.chunks \in SUBSET (1 .. Len(log)) /\ a.more \in BOOLEAN
  BY <1>7, <1>10, <1>11
<1>14. \A i \in after + 1 .. a.next : i \in a.chunks \/ (a.loss > 0 /\ i < first)
  BY <1>8, <1>11, <1>12
<1>15. ASSUME a.more, a.loss = 0 PROVE a.next > after
  <2>1. ~marked BY <1>12, <1>15
  <2>2. taken # avail BY <1>11, <1>15, Zenon
  <2> QED BY <1>9, <1>11, <2>1, <2>2
<1> QED BY <1>12, <1>13, <1>14, <1>15 DEF a

(* manager.go, Read: a client that reads and goes on from the answer.      *)
LEMMA ReadInv ==
    ASSUME RingInv, NEW r \in Reader, NEW limit \in Asks, Read(r, limit)
    PROVE  RingInv'
<1> DEFINE a == ReadAfter(cursor[r], limit)
<1>0. /\ TypeOK /\ Window /\ first \in Nat /\ MaxChunks \in Nat
      /\ Len(log) \in Nat /\ Len(log) <= MaxChunks
  BY RingBufferAssumption DEF RingInv, ReadersServed, TypeOK
<1>1. /\ a.after = cursor[r] /\ a.next \in cursor[r] .. Len(log)
      /\ a.chunks \in SUBSET (1 .. Len(log)) /\ a.loss \in Nat /\ a.more \in BOOLEAN
      /\ \A i \in cursor[r] + 1 .. a.next : i \in a.chunks \/ (a.loss > 0 /\ i < first)
      /\ a.more /\ a.loss = 0 => a.next > cursor[r]
  <2>1. cursor[r] \in 0 .. Len(log) /\ limit \in Nat
    BY <1>0, RingBufferAssumption DEF TypeOK, Window
  <2> QED BY <2>1, ReadAfterIs
<1>2. /\ cursor' = [cursor EXCEPT ![r] = a.next]
      /\ last' = [last EXCEPT ![r] = [after |-> a.after, next |-> a.next, loss |-> a.loss,
                                      more |-> a.more]]
      /\ got' = [got EXCEPT ![r] = @ \cup a.chunks]
      /\ told' = [told EXCEPT ![r] = IF a.loss > 0 THEN @ \cup (1 .. first - 1) ELSE @]
      /\ UNCHANGED <<log, hits, first, current, dropped, wpc, tokens>>
  BY DEF Read, buffer
<1> HIDE DEF a
<1>3. cursor[r] \in Nat /\ a.next \in 0 .. MaxChunks /\ a.next <= Len(log) /\ a.after \in Nat
  BY <1>0, <1>1 DEF TypeOK
<1>4. TypeOK'
  <2>1. cursor' \in [Reader -> 0 .. MaxChunks] BY <1>0, <1>2, <1>3 DEF TypeOK
  <2>2. last' \in [Reader -> [after : Nat, next : Nat, loss : Nat, more : BOOLEAN]]
    BY <1>0, <1>1, <1>2, <1>3 DEF TypeOK
  <2>3. got' \in [Reader -> SUBSET Seqs]
    <3>1. a.chunks \in SUBSET Seqs BY <1>0, <1>1 DEF Seqs
    <3> QED BY <1>0, <1>2, <3>1 DEF TypeOK
  <2>4. told' \in [Reader -> SUBSET Seqs]
    <3>1. (1 .. first - 1) \in SUBSET Seqs BY <1>0 DEF Seqs, TypeOK
    <3> QED BY <1>0, <1>2, <3>1 DEF TypeOK
  <2> QED BY <1>0, <1>2, <2>1, <2>2, <2>3, <2>4 DEF TypeOK
<1>5. Window' BY <1>0, <1>2, <1>3 DEF Window, TypeOK
<1>6. NoSilentGap'
  <2> SUFFICES ASSUME NEW q \in Reader, NEW i \in 1 .. cursor'[q]
               PROVE  i \in got'[q] \cup told'[q]
    BY DEF NoSilentGap
  <2>1. CASE q # r
    BY <1>0, <1>2, <2>1 DEF TypeOK, RingInv, ReadersServed, NoSilentGap
  <2>2. CASE q = r /\ i <= cursor[r]
    <3>1. i \in got[r] \cup told[r]
      BY <1>3, <2>2 DEF RingInv, ReadersServed, NoSilentGap
    <3> QED BY <1>0, <1>2, <2>2, <3>1 DEF TypeOK
  <2>3. CASE q = r /\ ~(i <= cursor[r])
    <3>1. cursor'[r] = a.next BY <1>0, <1>2 DEF TypeOK
    <3>2. i \in cursor[r] + 1 .. a.next BY <1>3, <2>3, <3>1
    <3>3. i \in a.chunks \/ (a.loss > 0 /\ i \in 1 .. first - 1) BY <1>0, <1>1, <3>2
    <3> QED BY <1>0, <1>2, <2>3, <3>3 DEF TypeOK
  <2> QED BY <2>1, <2>2, <2>3
<1>7. ReadProgress'
  <2> SUFFICES ASSUME NEW q \in Reader, last'[q].more, last'[q].loss = 0
               PROVE  last'[q].next > last'[q].after
    BY DEF ReadProgress
  <2>1. CASE q # r
    BY <1>0, <1>2, <2>1 DEF TypeOK, RingInv, ReadersServed, ReadProgress
  <2>2. CASE q = r
    <3>1. last'[r] = [after |-> a.after, next |-> a.next, loss |-> a.loss, more |-> a.more]
      BY <1>0, <1>2 DEF TypeOK
    <3> QED BY <1>1, <2>2, <3>1
  <2> QED BY <2>1, <2>2
<1>8. Accounting' /\ NoLostWakeup'
  BY <1>2 DEF RingInv, ReadersServed, Accounting, NoLostWakeup, Sees, ReadAfter, Marked, Fits
<1> QED BY <1>4, <1>5, <1>6, <1>7, <1>8 DEF RingInv, ReadersServed

(* wait.go, WaitRegex: a waiter goes on waiting only where it has looked   *)
(* and seen nothing.                                                       *)
LEMMA WaitInv ==
    ASSUME RingInv, NEW w \in Waiter,
           Register(w) \/ CheckFirst(w) \/ Notified(w) \/ Timeout(w)
    PROVE  RingInv'
<1>0. UNCHANGED <<log, hits, first, current, dropped, cursor, last, got, told>>
  BY DEF Register, CheckFirst, Notified, Timeout, buffer, readers
<1>1. Window' /\ NoSilentGap' /\ ReadProgress' /\ Accounting'
  BY <1>0 DEF RingInv, ReadersServed, Window, NoSilentGap, ReadProgress, Accounting
<1>2. \A v \in Waiter : Sees(v)' = Sees(v)
  BY <1>0 DEF Sees, ReadAfter, Marked, Fits
<1>3. wpc \in [Waiter -> {"idle", "registered", "waiting", "matched", "timeout"}]
      /\ tokens \in [Waiter -> 0 .. ChanCap] /\ ChanCap \in Nat
  BY RingBufferAssumption DEF RingInv, ReadersServed, TypeOK
<1>4. /\ wpc' \in [Waiter -> {"idle", "registered", "waiting", "matched", "timeout"}]
      /\ tokens' \in [Waiter -> 0 .. ChanCap]
  BY <1>3 DEF Register, CheckFirst, Notified, Timeout
<1>5. TypeOK' BY <1>0, <1>4 DEF RingInv, ReadersServed, TypeOK
<1>6. NoLostWakeup'
  <2> SUFFICES ASSUME NEW v \in Waiter, wpc'[v] = "waiting", Sees(v) PROVE tokens'[v] > 0
    BY <1>2 DEF NoLostWakeup
  <2>1. CASE v = w BY <1>3, <2>1 DEF Register, CheckFirst, Notified, Timeout
  <2>2. CASE v # w
    <3>1. wpc[v] = "waiting" /\ tokens'[v] = tokens[v]
      BY <1>3, <2>2 DEF Register, CheckFirst, Notified, Timeout
    <3> QED BY <3>1 DEF RingInv, NoLostWakeup
  <2> QED BY <2>1, <2>2
<1> QED BY <1>1, <1>5, <1>6 DEF RingInv, ReadersServed

(* buffer.go, wait.go: what every reachable state of the scrollback        *)
(* satisfies; the theorems below are its consequences.                     *)
LEMMA RingInvariant == Spec => []RingInv
<1>1. Init => RingInv
  <2> SUFFICES ASSUME Init PROVE RingInv
    OBVIOUS
  <2>1. log = <<>> /\ Len(log) = 0 /\ log \in Seq(Size) /\ log \in Seq(Nat) BY DEF Init
  <2>2. Total(log)[0] = 0 BY <2>1, TotalIs
  <2>3. Accounting BY <2>1, <2>2, RingBufferAssumption DEF Init, Accounting, Bytes
  <2>4. TypeOK BY <2>1, RingBufferAssumption DEF Init, TypeOK, Seqs
  <2>5. NoSilentGap /\ ReadProgress /\ Window /\ NoLostWakeup
    BY <2>1 DEF Init, NoSilentGap, ReadProgress, Window, NoLostWakeup
  <2> QED BY <2>3, <2>4, <2>5 DEF RingInv, ReadersServed
<1>2. RingInv /\ [Next]_vars => RingInv'
  <2> SUFFICES ASSUME RingInv, [Next]_vars PROVE RingInv'
    OBVIOUS
  <2>1. CASE Next BY <2>1, AppendInv, ReadInv, WaitInv DEF Next
  <2>2. CASE UNCHANGED vars
    BY <2>2 DEF vars, RingInv, ReadersServed, TypeOK, Window, NoSilentGap, ReadProgress,
                Accounting, NoLostWakeup, Sees, ReadAfter, Marked, Fits
  <2> QED BY <2>1, <2>2
<1> QED BY <1>1, <1>2, PTL DEF Spec

(* buffer.go: a client that polls is told of every loss, gets further      *)
(* where there is more and nothing is lost, and the byte counts are those  *)
(* of the chunks, for any sizes, capacity, limits and interleaving.        *)
THEOREM RingReadersServed == Spec => []ReadersServed
<1>1. RingInv => ReadersServed BY DEF RingInv
<1> QED BY <1>1, RingInvariant, PTL

(* wait.go: a waiter that would see a match has a notification, also when  *)
(* its channel was full.                                                   *)
THEOREM RingNoLostWakeup == Spec => []NoLostWakeup
<1>1. RingInv => NoLostWakeup BY DEF RingInv
<1> QED BY <1>1, RingInvariant, PTL

-----------------------------------------------------------------------------
(* EventHub.                                                               *)

Number == 1 .. MaxSeq
Client == [at : {"out", "stream", "live", "ended"}, queue : Seq(Events), seen : Events]
Elements(q) == {q[i] : i \in 1 .. Len(q)}
Ascending(q) == \A i, j \in 1 .. Len(q) : i < j => q[i] < q[j]

(* The greatest number in a log.                                           *)
Greatest(h) == IF h = <<>> THEN 0 ELSE h[Len(h)]

(* The events that are acknowledged or about to be.                        *)
Sure == {e \in Number :
           acks[e] > 0 \/ \E p \in Pub : pub[p].at = "global" /\ pub[p].ev = e}

(* A log is in order and within its bound; it holds every such event, but  *)
(* for those before it when it is full.                                    *)
LogOK(h) == h \in Seq(Number) /\ Len(h) <= MaxReplay /\ Ascending(h)
Covers(h, known) ==
    \A e \in known : e \in Elements(h) \/ (Len(h) = MaxReplay /\ e < h[1])

(* hub.go, disk.go: the file and the replay buffer, and the number the     *)
(* stream goes on from.                                                    *)
Logs == /\ LogOK(disk) /\ Covers(disk, Sure) /\ LogOK(history)
        /\ \A e \in Elements(history) \cup Sure : e <= Greatest(disk)
        /\ stream \in {"open", "detached"} => Covers(history, Sure)
        /\ stream = "open" => Greatest(disk) <= lastSeq

(* Who is being served, while the hub and its stream go down.              *)
Served ==
    /\ hub = "open" => stream \in {"none", "open"}
    /\ hub = "closing" => stream \in {"none", "detached"}
    /\ hub \in {"globals", "closed"} => stream \in {"none", "closed"}
    /\ \A s \in Sub : sub[s].at = "live" => stream \in {"open", "detached"}
    /\ hub = "closed" => \A s \in GlobalSub : sub[s].at # "live"
    /\ \A s \in Subscriber : sub[s].at = "live" => Len(sub[s].queue) <= Capacity

(* Up to where a client that gets x next must have everything: a number up *)
(* to itself, the notice for event n up to n - 1.                          *)
Reach(x) == IF x <= MaxSeq THEN x ELSE IF x > MaxSeq + 1 THEN x - MaxSeq - 2 ELSE 0

(* What a client was given, came too late for, or was led past.            *)
Had(s) == received[s] \cup evicted[s] \cup Skipped(s)

(* An event that a client has been given, or will find in its channel, has *)
(* every earlier one before it; a channel that is served misses none.      *)
GapFree(c, known, top, had) ==
    /\ \A e \in Number : e > top /\ e <= c.seen => e \in had
    /\ \A i \in 1 .. Len(c.queue) : Reach(c.queue[i]) <= top
    /\ \A e \in known : e <= c.seen => e \in had
    /\ \A e \in known, i \in 1 .. Len(c.queue) : e <= Reach(c.queue[i]) =>
           e \in had \/ \E j \in 1 .. i : c.queue[j] = e
    /\ c.at = "live" => \A e \in known : e \in had \cup Elements(c.queue)
Gapless == \A s \in Sub : GapFree(sub[s], Sure, Greatest(disk), Had(s))

(* A number has one publication.                                           *)
Fresh == /\ SequenceIsFresh
         /\ \A p \in Pub : pub[p].at = "global" =>
              /\ pub[p].ev \in 0 .. MaxSeq
              /\ pub[p].ev # 0 => acks[pub[p].ev] = 0
              /\ \A o \in Pub : pub[o].at = "global" /\ pub[o].ev = pub[p].ev /\ pub[p].ev # 0
                                  => o = p

HistoryTypes == /\ received \in [Subscriber -> SUBSET Events]
                /\ evicted \in [Subscriber -> SUBSET Events]
                /\ acks \in [Number -> Nat]

HubInv == HubTypeOK /\ HistoryTypes /\ Logs /\ Served /\ Gapless /\ Fresh

(* hub.go, Subscribe: the events after number n, in order.                 *)
LEMMA LaterThanIs ==
    ASSUME NEW h, LogOK(h), NEW n \in Nat
    PROVE  /\ LaterThan(h, n) \in Seq(Number) /\ Len(LaterThan(h, n)) <= Len(h)
           /\ Ascending(LaterThan(h, n))
           /\ Elements(LaterThan(h, n)) = {e \in Elements(h) : e > n}
<1>0. h \in Seq(Number) /\ Len(h) \in Nat /\ Ascending(h) BY DEF LogOK
(* The loop has taken the sequence t from the first m events.              *)
<1> DEFINE Step(f, i) == IF h[i] > n THEN Append(f[i - 1], h[i]) ELSE f[i - 1]
           Upto(m) == \E f \in [0 .. m -> Seq(Number)] :
                         f[0] = <<>> /\ \A i \in 1 .. m : f[i] = Step(f, i)
           Bad == {m \in 0 .. Len(h) : ~Upto(m)}
<1>1. Upto(0)
  <2> DEFINE z == [i \in 0 .. 0 |-> <<>>]
  <2>1. z \in [0 .. 0 -> Seq(Number)] /\ z[0] = <<>> OBVIOUS
  <2>2. \A i \in 1 .. 0 : z[i] = Step(z, i) OBVIOUS
  <2> HIDE DEF z, Step
  <2> QED BY <2>1, <2>2
<1>2. ASSUME NEW m \in 0 .. Len(h) - 1, Upto(m) PROVE Upto(m + 1)
  <2>1. PICK f \in [0 .. m -> Seq(Number)] :
            f[0] = <<>> /\ \A i \in 1 .. m : f[i] = Step(f, i)
    BY <1>2
  <2> DEFINE new == IF h[m + 1] > n THEN Append(f[m], h[m + 1]) ELSE f[m]
             g == [i \in 0 .. m + 1 |-> IF i = m + 1 THEN new ELSE f[i]]
  <2>2. m \in 0 .. m /\ f[m] \in Seq(Number) /\ h[m + 1] \in Number BY <1>0
  <2>3. new \in Seq(Number) BY <2>2
  <2> HIDE DEF new
  <2>4. g \in [0 .. m + 1 -> Seq(Number)] BY <2>3
  <2>5. g[0] = <<>> BY <2>1
  <2>6. ASSUME NEW i \in 1 .. m + 1 PROVE g[i] = Step(g, i)
    <3>1. i - 1 \in 0 .. m /\ g[i - 1] = f[i - 1] OBVIOUS
    <3>2. CASE i = m + 1 BY <3>1, <3>2 DEF new
    <3>3. CASE i \in 1 .. m BY <2>1, <3>1, <3>3
    <3> QED BY <3>2, <3>3
  <2> HIDE DEF g, Step
  <2> QED BY <2>4, <2>5, <2>6
<1> HIDE DEF Upto
<1>3. Bad = {}
  <2> SUFFICES ASSUME Bad # {} PROVE FALSE
    OBVIOUS
  <2>0. Bad \in SUBSET (0 .. Len(h)) OBVIOUS
  <2> HIDE DEF Bad
  <2>1. PICK m \in Bad : m = 0 \/ (m # 0 /\ m - 1 \in (0 .. Len(h)) \ Bad)
    BY <1>0, <2>0, FirstIn
  <2> USE DEF Bad
  <2>2. m # 0 BY <1>1
  <2>3. m - 1 \in 0 .. Len(h) - 1 /\ Upto(m - 1) BY <1>0, <2>1, <2>2
  <2>4. Upto((m - 1) + 1) BY <1>2, <2>3
  <2>5. (m - 1) + 1 = m OBVIOUS
  <2> QED BY <2>4, <2>5
<1>4. PICK f \in [0 .. Len(h) -> Seq(Number)] :
          f[0] = <<>> /\ \A i \in 1 .. Len(h) : f[i] = Step(f, i)
  <2>1. Len(h) \in 0 .. Len(h) BY <1>0
  <2>2. Upto(Len(h)) BY <1>3, <2>1
  <2> QED BY <2>2 DEF Upto
<1> DEFINE Eq(T) == T = [i \in 0 .. Len(h) |->
                           IF i = 0 THEN <<>>
                           ELSE IF h[i] > n THEN Append(T[i - 1], h[i]) ELSE T[i - 1]]
           T == CHOOSE t : Eq(t)
<1>5. Eq(f)
  <2>1. f = [i \in 0 .. Len(h) |-> f[i]] OBVIOUS
  <2>2. ASSUME NEW i \in 0 .. Len(h)
        PROVE  f[i] = IF i = 0 THEN <<>>
                      ELSE IF h[i] > n THEN Append(f[i - 1], h[i]) ELSE f[i - 1]
    <3>1. CASE i = 0 BY <1>4, <3>1
    <3>2. CASE i # 0
      <4>1. i \in 1 .. Len(h) BY <1>0, <3>2
      <4> QED BY <1>4, <3>2, <4>1
    <3> QED BY <3>1, <3>2
  <2> QED BY <2>1, <2>2
<1>6. LaterThan(h, n) = T[Len(h)] BY DEF LaterThan
<1>7. Eq(T) BY <1>5
<1>8. T[0] = <<>> /\ \A i \in 1 .. Len(h) : T[i] = Step(T, i)
  <2>1. \A i \in 0 .. Len(h) : T[i] = IF i = 0 THEN <<>>
                           ELSE IF h[i] > n THEN Append(T[i - 1], h[i]) ELSE T[i - 1]
    BY <1>7
  <2> HIDE DEF T
  <2> QED BY <1>0, <2>1
<1> HIDE DEF T, Eq
(* What holds of the part taken from the first m events.                   *)
<1> DEFINE Part(t, m) == /\ t \in Seq(Number) /\ Len(t) <= m /\ Ascending(t)
                         /\ \A i \in 1 .. Len(t) : t[i] > n /\ \E k \in 1 .. m : t[i] = h[k]
                         /\ \A k \in 1 .. m : h[k] > n => \E i \in 1 .. Len(t) : t[i] = h[k]
<1>9. Part(<<>>, 0) BY DEF Ascending
<1>10. ASSUME NEW m \in 1 .. Len(h), NEW t, Part(t, m - 1)
       PROVE  Part(IF h[m] > n THEN Append(t, h[m]) ELSE t, m)
  <2>0. t \in Seq(Number) /\ Len(t) \in Nat /\ h[m] \in Number /\ m \in Nat BY <1>0, <1>10
  <2>1. CASE h[m] > n
    <3> DEFINE u == Append(t, h[m])
    <3>1. /\ u \in Seq(Number) /\ Len(u) = Len(t) + 1 /\ u[Len(t) + 1] = h[m]
          /\ \A i \in 1 .. Len(t) : u[i] = t[i]
      BY <2>0
    <3> HIDE DEF u
    <3>2. \A i \in 1 .. Len(t) : t[i] < h[m]
      <4> SUFFICES ASSUME NEW i \in 1 .. Len(t) PROVE t[i] < h[m]
        OBVIOUS
      <4>1. PICK k \in 1 .. m - 1 : t[i] = h[k] BY <1>10
      <4>2. k \in 1 .. Len(h) /\ k < m BY <1>0, <2>0
      <4> QED BY <1>0, <4>1, <4>2 DEF Ascending
    <3>3. Ascending(u)
      <4> SUFFICES ASSUME NEW i \in 1 .. Len(u), NEW j \in 1 .. Len(u), i < j PROVE u[i] < u[j]
        BY DEF Ascending
      <4>1. i \in 1 .. Len(t) BY <2>0, <3>1
      <4>2. CASE j \in 1 .. Len(t) BY <1>10, <3>1, <4>1, <4>2 DEF Ascending
      <4>3. CASE j = Len(t) + 1 BY <3>1, <3>2, <4>1, <4>3
      <4>4. j \in 1 .. Len(t) + 1 BY <3>1
      <4>5. j \in 1 .. Len(t) \/ j = Len(t) + 1 BY <2>0, <4>4
      <4> QED BY <4>2, <4>3, <4>5
    <3>4. ASSUME NEW i \in 1 .. Len(u) PROVE u[i] > n /\ \E k \in 1 .. m : u[i] = h[k]
      <4>1. CASE i \in 1 .. Len(t)
        <5>1. PICK k \in 1 .. m - 1 : t[i] = h[k] BY <1>10, <4>1
        <5>2. k \in 1 .. m BY <2>0
        <5> QED BY <1>10, <3>1, <4>1, <5>1, <5>2
      <4>2. CASE i = Len(t) + 1 BY <2>0, <2>1, <3>1, <4>2
      <4> QED BY <2>0, <3>1, <4>1, <4>2
    <3>5. ASSUME NEW k \in 1 .. m, h[k] > n PROVE \E i \in 1 .. Len(u) : u[i] = h[k]
      <4>1. CASE k = m BY <2>0, <3>1, <4>1
      <4>2. CASE k # m
        <5>1. k \in 1 .. m - 1 BY <2>0, <4>2
        <5>2. PICK i \in 1 .. Len(t) : t[i] = h[k] BY <1>10, <3>5, <5>1
        <5> QED BY <2>0, <3>1, <5>2
      <4> QED BY <4>1, <4>2
    <3>6. Len(u) <= m BY <1>10, <2>0, <3>1
    <3> QED BY <2>1, <3>1, <3>3, <3>4, <3>5, <3>6 DEF u
  <2>2. CASE ~(h[m] > n)
    <3>1. \A i \in 1 .. Len(t) : t[i] > n /\ \E k \in 1 .. m : t[i] = h[k]
      <4> SUFFICES ASSUME NEW i \in 1 .. Len(t) PROVE t[i] > n /\ \E k \in 1 .. m : t[i] = h[k]
        OBVIOUS
      <4>1. PICK k \in 1 .. m - 1 : t[i] = h[k] BY <1>10
      <4>2. k \in 1 .. m BY <2>0
      <4> QED BY <1>10, <4>1, <4>2
    <3>2. ASSUME NEW k \in 1 .. m, h[k] > n PROVE \E i \in 1 .. Len(t) : t[i] = h[k]
      <4>1. k \in 1 .. m - 1 BY <2>0, <2>2, <3>2
      <4> QED BY <1>10, <3>2, <4>1
    <3>3. Len(t) <= m BY <1>10, <2>0
    <3> QED BY <1>10, <2>2, <3>1, <3>2, <3>3
  <2> QED BY <2>1, <2>2
<1> DEFINE Odd == {m \in 0 .. Len(h) : ~Part(T[m], m)}
<1> HIDE DEF Part
<1>11. Odd = {}
  <2> SUFFICES ASSUME Odd # {} PROVE FALSE
    OBVIOUS
  <2>0. Odd \in SUBSET (0 .. Len(h)) OBVIOUS
  <2> HIDE DEF Odd
  <2>1. PICK m \in Odd : m = 0 \/ (m # 0 /\ m - 1 \in (0 .. Len(h)) \ Odd)
    BY <1>0, <2>0, FirstIn
  <2> USE DEF Odd
  <2>2. m # 0 BY <1>8, <1>9
  <2>3. m \in 1 .. Len(h) /\ Part(T[m - 1], m - 1) BY <1>0, <2>1, <2>2
  <2>4. Part(Step(T, m), m) BY <1>10, <2>3
  <2>5. T[m] = Step(T, m) BY <1>8, <2>3
  <2> HIDE DEF Step
  <2> QED BY <2>4, <2>5
<1>12. Part(T[Len(h)], Len(h)) BY <1>0, <1>11
<1> DEFINE t == T[Len(h)]
<1>13. Elements(t) = {e \in Elements(h) : e > n}
  <2> HIDE DEF t
  <2>0. Part(t, Len(h)) BY <1>12 DEF t
  <2>1. ASSUME NEW e \in Elements(t) PROVE e \in Elements(h) /\ e > n
    <3>1. PICK i \in 1 .. Len(t) : e = t[i] BY DEF Elements
    <3>2. PICK k \in 1 .. Len(h) : t[i] = h[k] BY <2>0 DEF Part
    <3> QED BY <2>0, <3>1, <3>2 DEF Part, Elements
  <2>2. ASSUME NEW e \in Elements(h), e > n PROVE e \in Elements(t)
    <3>1. PICK k \in 1 .. Len(h) : e = h[k] BY DEF Elements
    <3>2. PICK i \in 1 .. Len(t) : t[i] = h[k] BY <2>0, <2>2, <3>1 DEF Part
    <3> QED BY <3>1, <3>2 DEF Elements
  <2> QED BY <2>1, <2>2
<1> QED BY <1>6, <1>12, <1>13 DEF Part

(* disk.go: a log within its bound is read back as it is.                  *)
LEMMA NewestIs ==
    ASSUME NEW h, LogOK(h)
    PROVE  Newest(h, MaxReplay) = h
<1>1. h \in Seq(Number) /\ Len(h) <= MaxReplay /\ MaxReplay \in Nat
  BY EventHubAssumption DEF LogOK
<1>2. Newest(h, MaxReplay) = SubSeq(h, 1, Len(h))
  <2>1. Len(h) \in Nat /\ ~(Len(h) > MaxReplay) BY <1>1
  <2> QED BY <2>1 DEF Newest
<1>3. SubSeq(h, 1, Len(h)) = h BY <1>1, SubSeqFull
<1> QED BY <1>2, <1>3

(* disk.go, hub.go: one more event, and the oldest goes if the log is full *)
LEMMA NewestOfAppend ==
    ASSUME NEW h, LogOK(h), NEW n \in Number, \A e \in Elements(h) : e < n,
           NEW t, t = Newest(Append(h, n), MaxReplay)
    PROVE  /\ LogOK(t) /\ t # <<>> /\ Greatest(t) = n
           /\ n \in Elements(t) /\ Elements(t) \subseteq Elements(h) \cup {n}
           /\ \A known \in SUBSET Nat : Covers(h, known) => Covers(t, known \cup {n})
<1> DEFINE u == Append(h, n)
           k == IF Len(h) < MaxReplay THEN 0 ELSE 1
<1>0. h \in Seq(Number) /\ Len(h) \in Nat /\ Len(h) <= MaxReplay /\ MaxReplay \in Nat \ {0}
      /\ Number \subseteq Nat /\ Ascending(h)
  BY EventHubAssumption DEF LogOK, Number
<1>1. /\ u \in Seq(Number) /\ Len(u) = Len(h) + 1 /\ u[Len(h) + 1] = n
      /\ \A i \in 1 .. Len(h) : u[i] = h[i]
  BY <1>0
<1> HIDE DEF u
<1>2. t = SubSeq(u, 1 + k, Len(u))
  <2>1. (IF Len(u) > MaxReplay THEN Len(u) - MaxReplay + 1 ELSE 1) = 1 + k BY <1>0, <1>1
  <2>2. t = SubSeq(u, IF Len(u) > MaxReplay THEN Len(u) - MaxReplay + 1 ELSE 1, Len(u))
    BY DEF Newest, u
  <2> HIDE DEF k
  <2> QED BY <2>1, <2>2
<1>3. k \in {0, 1} /\ (k = 1 <=> Len(h) = MaxReplay) BY <1>0
<1> HIDE DEF k
<1>4. /\ t \in Seq(Number) /\ Len(t) = Len(h) + 1 - k
      /\ \A i \in 1 .. Len(h) + 1 - k : t[i] = u[i + k]
  <2>1. /\ 1 + k \in 1 .. Len(u) + 1 /\ Len(u) \in k .. Len(u) /\ 1 + k <= Len(u) + 1
        /\ 1 + k \in Nat /\ Len(u) \in Nat
    BY <1>0, <1>1, <1>3
  <2>2. \A i \in 1 + k .. Len(u) : u[i] \in Number BY <1>1, <1>3
  <2> QED BY <1>0, <1>1, <1>2, <1>3, <2>1, <2>2, SubSeqProperties
<1>5. \A i \in 1 .. Len(h) : h[i] \in Elements(h) BY DEF Elements
<1>6. Ascending(u)
  <2> SUFFICES ASSUME NEW i \in 1 .. Len(u), NEW j \in 1 .. Len(u), i < j PROVE u[i] < u[j]
    BY DEF Ascending
  <2>1. i \in 1 .. Len(h) /\ (j \in 1 .. Len(h) \/ j = Len(h) + 1) BY <1>0, <1>1
  <2>2. CASE j \in 1 .. Len(h) BY <1>0, <1>1, <2>1, <2>2 DEF Ascending
  <2>3. CASE j = Len(h) + 1 BY <1>1, <1>5, <2>1, <2>3
  <2> QED BY <2>1, <2>2, <2>3
<1>7. Ascending(t)
  <2> SUFFICES ASSUME NEW i \in 1 .. Len(t), NEW j \in 1 .. Len(t), i < j PROVE t[i] < t[j]
    BY DEF Ascending
  <2>1. i + k \in 1 .. Len(u) /\ j + k \in 1 .. Len(u) /\ i + k < j + k
    BY <1>0, <1>1, <1>3, <1>4
  <2> QED BY <1>4, <1>6, <2>1 DEF Ascending
<1>8. Len(t) \in 1 .. MaxReplay /\ t[Len(t)] = n
  <2>1. Len(t) \in 1 .. MaxReplay BY <1>0, <1>3, <1>4
  <2>2. Len(t) + k = Len(h) + 1 /\ Len(t) \in 1 .. Len(h) + 1 - k BY <1>0, <1>3, <1>4
  <2>3. t[Len(t)] = u[Len(t) + k] BY <1>4, <2>2
  <2> QED BY <1>1, <2>1, <2>2, <2>3
<1>9. LogOK(t) /\ t # <<>> /\ Greatest(t) = n /\ n \in Elements(t)
  BY <1>0, <1>4, <1>7, <1>8 DEF LogOK, Greatest, Elements
<1>10. Elements(t) \subseteq Elements(h) \cup {n}
  <2> SUFFICES ASSUME NEW i \in 1 .. Len(t) PROVE t[i] \in Elements(h) \cup {n}
    BY DEF Elements
  <2>1. i + k \in 1 .. Len(h) \/ i + k = Len(h) + 1 BY <1>0, <1>3, <1>4
  <2> QED BY <1>1, <1>4, <1>5, <2>1
<1>11. ASSUME NEW known \in SUBSET Nat, Covers(h, known), NEW e \in known
       PROVE  e \in Elements(t) \/ (Len(t) = MaxReplay /\ e < t[1])
  <2>1. t[1] = u[1 + k] /\ 1 + k \in 1 .. Len(u) BY <1>0, <1>1, <1>3, <1>4, <1>8
  <2>2. CASE e \in Elements(h)
    <3>1. PICK i \in 1 .. Len(h) : e = h[i] BY <2>2 DEF Elements
    <3>2. CASE i - k \in 1 .. Len(t)
      <4>1. t[i - k] = u[i] BY <1>0, <1>3, <1>4, <3>2
      <4> QED BY <1>1, <3>1, <3>2, <4>1 DEF Elements
    <3>3. CASE i - k \notin 1 .. Len(t)
      <4>1. k = 1 /\ i = 1 /\ Len(t) = MaxReplay BY <1>0, <1>3, <1>4, <3>3
      <4>2. u[1] < u[2]
        <5>1. 1 \in 1 .. Len(u) /\ 2 \in 1 .. Len(u) BY <1>0, <1>1, <4>1
        <5> QED BY <1>6, <5>1 DEF Ascending
      <4> QED BY <1>1, <2>1, <3>1, <4>1, <4>2
    <3> QED BY <3>2, <3>3
  <2>3. CASE Len(h) = MaxReplay /\ e < h[1]
    <3>1. k = 1 /\ Len(t) = MaxReplay BY <1>0, <1>3, <1>4, <2>3
    <3>2. u[1] < u[2] /\ u[1] = h[1] /\ u[1] \in Nat /\ u[2] \in Nat
      <4>1. 1 \in 1 .. Len(u) /\ 2 \in 1 .. Len(u) /\ 1 \in 1 .. Len(h) BY <1>0, <1>1, <2>3
      <4>3. \A i \in 1 .. Len(u) : u[i] \in Number BY <1>1
      <4>2. \A i \in 1 .. Len(u) : u[i] \in Nat BY <1>0, <4>3
      <4> QED BY <1>1, <1>6, <4>1, <4>2 DEF Ascending
    <3>3. t[1] = u[2] BY <2>1, <3>1
    <3> QED BY <1>11, <2>3, <3>1, <3>2, <3>3
  <2> QED BY <1>11, <2>2, <2>3 DEF Covers
<1>12. ASSUME NEW known \in SUBSET Nat, Covers(h, known) PROVE Covers(t, known \cup {n})
  BY <1>9, <1>11, <1>12 DEF Covers
<1> QED BY <1>9, <1>10, <1>12

(* hub.go, send: a channel gets the event, or a full one is closed, with   *)
(* the overflow notice or without.                                         *)
LEMMA SentIs ==
    ASSUME NEW c \in Client, NEW e \in 0 .. MaxSeq, NEW raced \in BOOLEAN,
           Len(c.queue) <= Capacity + 1, c.at = "live" => Len(c.queue) <= Capacity
    PROVE  LET d == Sent(c, e, raced) IN
           /\ d \in Client /\ Len(d.queue) <= Capacity + 1 /\ d.seen = c.seen
           /\ c.at # "live" => d = c
           /\ d.at = "live" => /\ c.at = "live" /\ Len(d.queue) <= Capacity
                               /\ d.queue = Append(c.queue, e)
           /\ c.at = "live" /\ d.at # "live" =>
                /\ d.at = "ended"
                /\ d.queue = c.queue \/ d.queue = Append(c.queue, Overflow(e))
<1> DEFINE d == Sent(c, e, raced)
<1>0. c.queue \in Seq(Events) /\ Len(c.queue) \in Nat /\ Capacity \in Nat /\ e \in Events
      /\ Overflow(e) \in Events
  BY EventHubAssumption DEF Client, Capacity, Overflow, Events, Ephemeral
<1>1. CASE c.at # "live" BY <1>1 DEF Sent
<1>2. CASE c.at = "live" /\ Len(c.queue) < Capacity
  <2>1. d = [c EXCEPT !.queue = Append(@, e)] BY <1>2 DEF Sent
  <2>2. d.queue = Append(c.queue, e) /\ d.at = "live" /\ d.seen = c.seen /\ d \in Client
    <3>1. Append(c.queue, e) \in Seq(Events) BY <1>0
    <3>2. d = [at |-> c.at, queue |-> Append(c.queue, e), seen |-> c.seen] BY <2>1 DEF Client
    <3> HIDE DEF d
    <3> QED BY <1>2, <3>1, <3>2 DEF Client
  <2>3. Len(Append(c.queue, e)) = Len(c.queue) + 1 BY <1>0
  <2> HIDE DEF d
  <2> QED BY <1>0, <1>2, <2>2, <2>3 DEF d
<1>3. CASE c.at = "live" /\ ~(Len(c.queue) < Capacity)
  <2>1. d = [c EXCEPT !.at = "ended", !.queue = IF raced THEN Append(@, Overflow(e)) ELSE @]
    BY <1>3 DEF Sent
  <2>2. /\ d.at = "ended" /\ d.seen = c.seen /\ d \in Client
        /\ d.queue = c.queue \/ d.queue = Append(c.queue, Overflow(e))
    <3>1. Append(c.queue, Overflow(e)) \in Seq(Events) BY <1>0
    <3>2. PICK q \in {c.queue, Append(c.queue, Overflow(e))} :
              d = [at |-> "ended", queue |-> q, seen |-> c.seen]
      BY <2>1 DEF Client
    <3>3. q \in Seq(Events) BY <1>0, <3>1
    <3> HIDE DEF d
    <3> QED BY <3>2, <3>3 DEF Client
  <2>3. Len(Append(c.queue, Overflow(e))) = Len(c.queue) + 1 BY <1>0
  <2>4. Len(d.queue) <= Capacity + 1 BY <1>0, <1>3, <2>2, <2>3
  <2> HIDE DEF d
  <2> QED BY <1>3, <2>2, <2>4 DEF d
<1> QED BY <1>1, <1>2, <1>3

(* A client's queue gets one more element, which asks for no more than the *)
(* client has or finds before it.                                          *)
LEMMA GapAppend ==
    ASSUME NEW c \in Client, NEW d \in Client, d.seen = c.seen,
           NEW known \in SUBSET Number, NEW known2 \in SUBSET Number,
           NEW top \in Nat, NEW top2 \in Nat, top <= top2, NEW had,
           GapFree(c, known, top, had),
           \A e \in known2 : e \in known \/ e > top,
           NEW x \in Events, d.queue = Append(c.queue, x), Reach(x) <= top2,
           \A e \in known2 : e <= Reach(x) => e = x \/ (c.at = "live" /\ e \in known),
           d.at = "live" => c.at = "live" /\ known2 \subseteq known \cup {x}
    PROVE  GapFree(d, known2, top2, had)
<1>0. /\ c.queue \in Seq(Events) /\ d.queue \in Seq(Events) /\ Len(c.queue) \in Nat
      /\ c.seen \in Nat /\ Events \subseteq Nat /\ Number \subseteq Nat /\ Number \subseteq Events
  BY EventHubAssumption DEF Client, Events, Overflow, Ephemeral, Number
<1>1. /\ \A e \in Number : e > top2 /\ e <= d.seen => e \in had
      /\ \A e \in known2 : e <= d.seen => e \in had
  <2>1. \A e \in Number : e > top2 => e > top BY <1>0
  <2>2. \A e \in Number : e > top /\ e <= c.seen => e \in had BY DEF GapFree
  <2>3. \A e \in known : e <= c.seen => e \in had BY DEF GapFree
  <2> QED BY <2>1, <2>2, <2>3
<1>r. \A y \in Events : Reach(y) \in Nat BY <1>0, EventHubAssumption DEF Reach
(* What an old element asks for, it has.                                   *)
<1>2. ASSUME NEW i \in 1 .. Len(c.queue)
      PROVE  /\ Reach(c.queue[i]) <= top2
             /\ \A e \in known2 : e <= Reach(c.queue[i]) =>
                    e \in had \/ \E j \in 1 .. i : c.queue[j] = e
  <2>0. c.queue[i] \in Events BY <1>0
  <2>1. Reach(c.queue[i]) <= top /\ Reach(c.queue[i]) \in Nat BY <1>r, <2>0 DEF GapFree
  <2>2. ASSUME NEW e \in known2, e <= Reach(c.queue[i]) PROVE e \in known
    <3>1. e \in Nat BY <1>0
    <3> QED BY <2>1, <2>2, <3>1
  <2>3. \A e \in known : e <= Reach(c.queue[i]) => e \in had \/ \E j \in 1 .. i : c.queue[j] = e
    BY DEF GapFree
  <2> QED BY <2>1, <2>2, <2>3
<1>3. /\ Len(d.queue) = Len(c.queue) + 1 /\ d.queue[Len(c.queue) + 1] = x
      /\ \A i \in 1 .. Len(c.queue) : d.queue[i] = c.queue[i]
  BY <1>0
<1>4. ASSUME NEW i \in 1 .. Len(d.queue)
      PROVE  /\ Reach(d.queue[i]) <= top2
             /\ \A e \in known2 : e <= Reach(d.queue[i]) =>
                    e \in had \/ \E j \in 1 .. i : d.queue[j] = e
  <2>1. CASE i \in 1 .. Len(c.queue)
    <3>1. \A j \in 1 .. i : j \in 1 .. Len(c.queue) BY <1>0, <2>1
    <3>2. d.queue[i] = c.queue[i] /\ \A j \in 1 .. i : d.queue[j] = c.queue[j]
      BY <1>3, <2>1, <3>1
    <3>3. /\ Reach(c.queue[i]) <= top2
          /\ \A e \in known2 : e <= Reach(c.queue[i]) =>
                 e \in had \/ \E j \in 1 .. i : c.queue[j] = e
      BY <1>2, <2>1
    <3> QED BY <3>2, <3>3
  <2>2. CASE i = Len(c.queue) + 1
    <3>1. d.queue[i] = x BY <1>3, <2>2
    <3>2. ASSUME NEW e \in known2, e <= Reach(x)
          PROVE  e \in had \/ \E j \in 1 .. i : d.queue[j] = e
      <4>1. CASE e = x BY <1>0, <1>3, <2>2, <4>1
      <4>2. CASE c.at = "live" /\ e \in known
        <5>1. e \in had \/ \E j \in 1 .. Len(c.queue) : c.queue[j] = e
          BY <4>2 DEF GapFree, Elements
        <5> QED BY <1>0, <1>3, <2>2, <5>1
      <4> QED BY <3>2, <4>1, <4>2
    <3> QED BY <3>1, <3>2
  <2>3. i \in 1 .. Len(c.queue) \/ i = Len(c.queue) + 1 BY <1>0, <1>3
  <2> QED BY <2>1, <2>2, <2>3
<1>5. ASSUME d.at = "live", NEW e \in known2 PROVE e \in had \cup Elements(d.queue)
  <2>1. CASE e = x BY <1>0, <1>3, <2>1 DEF Elements
  <2>2. CASE e \in known
    <3>1. e \in had \/ \E j \in 1 .. Len(c.queue) : c.queue[j] = e
      BY <1>5, <2>2 DEF GapFree, Elements
    <3> QED BY <1>0, <1>3, <3>1 DEF Elements
  <2> QED BY <1>5, <2>1, <2>2
<1> QED BY <1>1, <1>4, <1>5 DEF GapFree

(* A client's queue that stays, is emptied or gets one more element: what  *)
(* it needs to stay without a gap.                                         *)
LEMMA GapSent ==
    ASSUME NEW c \in Client, NEW d \in Client, d.seen = c.seen,
           NEW known \in SUBSET Number, NEW known2 \in SUBSET Number,
           NEW top \in Nat, NEW top2 \in Nat, top <= top2, NEW had,
           GapFree(c, known, top, had),
           \A e \in known2 : e \in known \/ e > top,
           \/ d.queue = <<>> /\ d.at # "live"
           \/ d.queue = c.queue /\ (d.at = "live" => c.at = "live" /\ known2 \subseteq known)
           \/ \E x \in Events :
                /\ d.queue = Append(c.queue, x) /\ Reach(x) = 0
                /\ d.at = "live" => c.at = "live" /\ known2 \subseteq known
           \/ \E n \in Number : /\ d.queue = Append(c.queue, n) /\ n <= top2 /\ c.at = "live"
                                /\ known2 \subseteq known \cup {n}
    PROVE  GapFree(d, known2, top2, had)
<1>0. /\ c.queue \in Seq(Events) /\ d.queue \in Seq(Events) /\ Len(c.queue) \in Nat
      /\ c.seen \in Nat /\ Events \subseteq Nat /\ Number \subseteq Nat /\ Number \subseteq Events
  BY EventHubAssumption DEF Client, Events, Overflow, Ephemeral, Number
<1>1. /\ \A e \in Number : e > top2 /\ e <= d.seen => e \in had
      /\ \A e \in known2 : e <= d.seen => e \in had
  <2>1. \A e \in Number : e > top2 => e > top BY <1>0
  <2>2. \A e \in Number : e > top /\ e <= c.seen => e \in had BY DEF GapFree
  <2>3. \A e \in known : e <= c.seen => e \in had BY DEF GapFree
  <2> QED BY <2>1, <2>2, <2>3
<1>r. \A y \in Events : Reach(y) \in Nat BY <1>0, EventHubAssumption DEF Reach
(* What an old element asks for, it has.                                   *)
<1>2. ASSUME NEW i \in 1 .. Len(c.queue)
      PROVE  /\ Reach(c.queue[i]) <= top2
             /\ \A e \in known2 : e <= Reach(c.queue[i]) =>
                    e \in had \/ \E j \in 1 .. i : c.queue[j] = e
  <2>0. c.queue[i] \in Events BY <1>0
  <2>1. Reach(c.queue[i]) <= top /\ Reach(c.queue[i]) \in Nat BY <1>r, <2>0 DEF GapFree
  <2>2. ASSUME NEW e \in known2, e <= Reach(c.queue[i]) PROVE e \in known
    <3>1. e \in Nat BY <1>0
    <3> QED BY <2>1, <2>2, <3>1
  <2>3. \A e \in known : e <= Reach(c.queue[i]) => e \in had \/ \E j \in 1 .. i : c.queue[j] = e
    BY DEF GapFree
  <2> QED BY <2>1, <2>2, <2>3
<1>3. CASE d.queue = <<>> /\ d.at # "live"
  BY <1>1, <1>3 DEF GapFree
<1>4. CASE d.queue = c.queue /\ (d.at = "live" => c.at = "live" /\ known2 \subseteq known)
  <2>1. d.at = "live" => \A e \in known2 : e \in had \cup Elements(d.queue)
    BY <1>4 DEF GapFree
  <2> QED BY <1>1, <1>2, <1>4, <2>1 DEF GapFree
<1>5. CASE \E x \in Events :
             /\ d.queue = Append(c.queue, x) /\ Reach(x) = 0
             /\ d.at = "live" => c.at = "live" /\ known2 \subseteq known
  <2>1. PICK x \in Events :
             /\ d.queue = Append(c.queue, x) /\ Reach(x) = 0
             /\ d.at = "live" => c.at = "live" /\ known2 \subseteq known
    BY <1>5
  <2>2. d.at = "live" => c.at = "live" /\ known2 \subseteq known \cup {x} BY <2>1
  <2>3. Reach(x) <= top2 /\ \A e \in known2 : ~(e <= Reach(x)) BY <2>1 DEF Number
  <2> QED BY <2>1, <2>2, <2>3, GapAppend
<1>6. CASE \E n \in Number : /\ d.queue = Append(c.queue, n) /\ n <= top2 /\ c.at = "live"
                             /\ known2 \subseteq known \cup {n}
  <2>1. PICK n \in Number : /\ d.queue = Append(c.queue, n) /\ n <= top2 /\ c.at = "live"
                            /\ known2 \subseteq known \cup {n}
    BY <1>6
  <2>2. n \in Events BY <1>0
  <2>3. Reach(n) = n BY EventHubAssumption DEF Number, Reach
  <2> QED BY <2>1, <2>2, <2>3, GapAppend
<1> QED BY <1>3, <1>4, <1>5, <1>6

(* hub.go, send: the notice for event n asks for the events before it.     *)
LEMMA GapNotice ==
    ASSUME NEW c \in Client, NEW d \in Client, d.seen = c.seen,
           NEW known \in SUBSET Number, NEW known2 \in SUBSET Number,
           NEW top \in Nat, NEW top2 \in Nat, top <= top2, NEW had,
           GapFree(c, known, top, had),
           \A e \in known2 : e \in known \/ e > top,
           \E n \in Number :
                /\ d.queue = Append(c.queue, Overflow(n)) /\ n <= top2 /\ c.at = "live"
                /\ d.at # "live" /\ known2 \subseteq known \cup {n}
    PROVE  GapFree(d, known2, top2, had)
<1>0. Number \subseteq Nat BY DEF Number
<1>1. PICK n \in Number :
           /\ d.queue = Append(c.queue, Overflow(n)) /\ n <= top2 /\ c.at = "live"
           /\ d.at # "live" /\ known2 \subseteq known \cup {n}
  OBVIOUS
<1>2. n \in Nat /\ Overflow(n) \in Events
  BY EventHubAssumption DEF Number, Events, Ephemeral, Overflow
<1>3. Reach(Overflow(n)) = n - 1 BY EventHubAssumption DEF Number, Reach, Overflow
<1>4. Reach(Overflow(n)) <= top2 BY <1>1, <1>2, <1>3
<1>5. ASSUME NEW e \in known2, e <= Reach(Overflow(n)) PROVE e \in known
  <2>1. e \in Nat BY <1>0
  <2> QED BY <1>1, <1>2, <1>3, <1>5, <2>1
<1>6. PICK x \in Events : x = Overflow(n) BY <1>2
<1> QED BY <1>1, <1>4, <1>5, <1>6, GapAppend

(* handlers_events.go, streamSSEEvents: the client takes the next event.   *)
LEMMA GapReceive ==
    ASSUME NEW c \in Client, NEW d \in Client, c.queue # <<>>,
           d.at = c.at, d.queue = Tail(c.queue),
           d.seen = Id(Head(c.queue)),
           NEW known \in SUBSET Number, NEW top \in Nat, NEW had, NEW had2,
           had \cup {Head(c.queue)} \subseteq had2,
           Head(c.queue) > MaxSeq => {d.seen - 1, d.seen} \subseteq had2,
           GapFree(c, known, top, had)
    PROVE  GapFree(d, known, top, had2)
<1> DEFINE q == c.queue
           t == Tail(c.queue)
<1>0. q \in Seq(Events) /\ q # <<>> /\ Len(q) \in Nat \ {0} /\ 1 \in 1 .. Len(q)
  BY DEF Client
<1>1. /\ t \in Seq(Events) /\ Len(t) = Len(q) - 1 /\ Head(q) = q[1]
      /\ \A i \in 1 .. Len(t) : t[i] = q[i + 1] /\ i + 1 \in 1 .. Len(q)
  BY <1>0
<1>2. /\ \A i \in 1 .. Len(q) : Reach(q[i]) <= top
      /\ \A e \in known, i \in 1 .. Len(q) : e <= Reach(q[i]) =>
           e \in had \/ \E j \in 1 .. i : q[j] = e
      /\ c.at = "live" => \A e \in known : e \in had \cup Elements(q)
  BY DEF GapFree
<1>3. d.queue = t /\ q[1] \in had2 /\ had \subseteq had2 BY <1>1
<1> HIDE DEF q, t
<1>v. /\ q[1] \in Nat /\ MaxSeq \in Nat /\ Number \subseteq Nat /\ known \subseteq Nat
      /\ Number = 1 .. MaxSeq
  <2>1. q[1] \in Events BY <1>0
  <2>2. Events \subseteq Nat /\ Number \subseteq Nat
    BY EventHubAssumption DEF Events, Ephemeral, Overflow, Number
  <2> QED BY <2>1, <2>2, EventHubAssumption DEF Number
(* The first element asks for nothing more.                                *)
<1>f. ASSUME NEW e \in known, e <= Reach(q[1]) PROVE e \in had2
  <2>1. e \in had \/ \E j \in 1 .. 1 : q[j] = e BY <1>0, <1>2, <1>f
  <2>2. \A j \in 1 .. 1 : j = 1 OBVIOUS
  <2> QED BY <1>3, <2>1, <2>2
<1>4. /\ \A e \in Number : e > top /\ e <= d.seen => e \in had2
      /\ \A e \in known : e <= d.seen => e \in had2
  <2>0. d.seen = Id(q[1]) /\ (q[1] > MaxSeq => {d.seen - 1, d.seen} \subseteq had2)
    BY <1>1 DEF q
  <2>3. Reach(q[1]) <= top BY <1>0, <1>2
  <2>1. CASE q[1] <= MaxSeq
    <3>1. d.seen = q[1] /\ Reach(q[1]) = q[1] BY <2>0, <2>1 DEF Id, Reach
    <3> QED BY <1>v, <1>f, <2>3, <3>1
  <2>2. CASE q[1] > MaxSeq
    <3>1. d.seen = q[1] - MaxSeq /\ d.seen \in Nat BY <1>v, <2>0, <2>2 DEF Id
    <3>2. Reach(q[1]) = (IF d.seen > 1 THEN d.seen - 2 ELSE 0)
      BY <1>v, <2>2, <3>1 DEF Reach
    <3>3. ASSUME NEW e \in Nat, e > 0, e <= d.seen
          PROVE  e \in had2 \/ e <= Reach(q[1])
      <4>1. e = d.seen - 1 \/ e = d.seen \/ e <= Reach(q[1]) BY <3>1, <3>2, <3>3
      <4> QED BY <2>0, <2>2, <4>1
    <3>4. \A e \in Number : e \in Nat /\ e > 0 BY <1>v
    <3>5. ASSUME NEW e \in Number, e > top, e <= d.seen PROVE e \in had2
      <4>1. Reach(q[1]) \in Nat BY <3>1, <3>2
      <4>2. ~(e <= Reach(q[1])) BY <2>3, <3>4, <3>5, <4>1
      <4> QED BY <3>3, <3>4, <3>5, <4>2
    <3>6. ASSUME NEW e \in known, e <= d.seen PROVE e \in had2
      BY <1>f, <3>3, <3>4, <3>6
    <3> QED BY <3>5, <3>6
  <2> QED BY <1>v, <2>1, <2>2
<1>5. \A i \in 1 .. Len(t) : Reach(t[i]) <= top BY <1>1, <1>2
(* An element before the one at i + 1 is the first, or was before t[i].    *)
<1>6. ASSUME NEW e, NEW i \in 1 .. Len(t), \E j \in 1 .. i + 1 : q[j] = e
      PROVE  e \in had2 \/ \E j \in 1 .. i : t[j] = e
  <2>1. PICK j \in 1 .. i + 1 : q[j] = e BY <1>6
  <2>2. CASE j = 1 BY <1>3, <2>1, <2>2
  <2>3. CASE j # 1
    <3>1. j - 1 \in 1 .. i /\ j - 1 \in 1 .. Len(t) /\ (j - 1) + 1 = j BY <1>0, <1>1, <2>3
    <3>2. t[j - 1] = q[j] BY <1>1, <3>1
    <3> QED BY <2>1, <3>1, <3>2
  <2> QED BY <2>2, <2>3
<1>7. ASSUME NEW e \in known, NEW i \in 1 .. Len(t), e <= Reach(t[i])
      PROVE  e \in had2 \/ \E j \in 1 .. i : t[j] = e
  <2>1. t[i] = q[i + 1] /\ i + 1 \in 1 .. Len(q) BY <1>1
  <2>2. e \in had \/ \E j \in 1 .. i + 1 : q[j] = e BY <1>2, <1>7, <2>1
  <2> QED BY <1>3, <1>6, <2>2
<1>8. ASSUME d.at = "live", NEW e \in known PROVE e \in had2 \cup Elements(t)
  <2>1. e \in had \cup Elements(q) BY <1>2, <1>8
  <2>2. CASE e \in Elements(q)
    <3>1. PICK j \in 1 .. Len(q) : q[j] = e BY <2>2 DEF Elements
    <3>2. CASE j = 1 BY <1>3, <3>1, <3>2
    <3>3. CASE j # 1
      <4>1. j - 1 \in 1 .. Len(t) /\ (j - 1) + 1 = j BY <1>0, <1>1, <3>3
      <4>2. t[j - 1] = q[j] BY <1>1, <4>1
      <4> QED BY <3>1, <4>1, <4>2 DEF Elements
    <3> QED BY <3>2, <3>3
  <2> QED BY <1>3, <2>1, <2>2
<1>9. d.at = "live" => \A e \in known : e \in had2 \cup Elements(t) BY <1>8
<1>10. \A e \in known, i \in 1 .. Len(t) : e <= Reach(t[i]) =>
           e \in had2 \/ \E j \in 1 .. i : t[j] = e
  BY <1>7
<1> HIDE DEF t
<1>11. /\ \A i \in 1 .. Len(d.queue) : Reach(d.queue[i]) <= top
       /\ \A e \in known, i \in 1 .. Len(d.queue) : e <= Reach(d.queue[i]) =>
              e \in had2 \/ \E j \in 1 .. i : d.queue[j] = e
       /\ d.at = "live" => \A e \in known : e \in had2 \cup Elements(d.queue)
  <2>1. d.queue = t BY <1>3
  <2>2. \A i \in 1 .. Len(d.queue) : Reach(d.queue[i]) <= top
    BY <1>5, <2>1
  <2>3. \A e \in known, i \in 1 .. Len(d.queue) : e <= Reach(d.queue[i]) =>
              e \in had2 \/ \E j \in 1 .. i : d.queue[j] = e
    BY <1>10, <2>1
  <2>4. Elements(d.queue) = Elements(t) BY <2>1
  <2>5. d.at = "live" => \A e \in known : e \in had2 \cup Elements(d.queue)
    BY <1>9, <2>4
  <2> QED BY <2>2, <2>3, <2>5
<1> QED BY <1>4, <1>11 DEF GapFree

(* hub.go, Subscribe: the client gets what it has not seen of the log.     *)
LEMMA GapSubscribe ==
    ASSUME NEW c \in Client, NEW d \in Client, NEW h, LogOK(h),
           d.seen = c.seen, d.queue = LaterThan(h, c.seen),
           NEW known \in SUBSET Number, NEW top \in Nat, NEW had, NEW had2,
           Covers(h, known), \A e \in Elements(h) : e <= top, had \subseteq had2,
           \A e \in Number : Len(h) = MaxReplay /\ e < h[1] => e \in had2,
           GapFree(c, known, top, had)
    PROVE  GapFree(d, known, top, had2)
<1> DEFINE q == LaterThan(h, c.seen)
<1>0. Number \subseteq Nat /\ c.seen \in Nat
  BY EventHubAssumption DEF Number, Client, Events, Overflow, Ephemeral
<1>1. q \in Seq(Number) /\ Ascending(q) /\ Elements(q) = {e \in Elements(h) : e > c.seen}
  BY <1>0, LaterThanIs
<1> HIDE DEF q
<1>2. ASSUME NEW e \in known PROVE e \in had2 \cup Elements(q)
  <2>1. CASE e <= c.seen BY <2>1 DEF GapFree
  <2>2. CASE ~(e <= c.seen)
    <3>1. e \in Nat /\ e > c.seen BY <1>0, <2>2
    <3>2. CASE e \in Elements(h) BY <1>1, <3>1, <3>2
    <3>3. CASE Len(h) = MaxReplay /\ e < h[1] BY <3>3
    <3> QED BY <3>2, <3>3 DEF Covers
  <2> QED BY <2>1, <2>2
<1>3. /\ d.queue = q /\ \A e \in Number : e > top /\ e <= d.seen => e \in had2
      /\ \A e \in known : e <= d.seen => e \in had2
  BY DEF GapFree, q
<1>r. \A i \in 1 .. Len(q) : Reach(q[i]) = q[i]
  <2>1. \A n \in Number : Reach(n) = n BY EventHubAssumption DEF Number, Reach
  <2> QED BY <1>1, <2>1
<1>4. \A i \in 1 .. Len(q) : q[i] <= top BY <1>1 DEF Elements
<1>5. ASSUME NEW e \in known, NEW i \in 1 .. Len(q), e <= q[i]
      PROVE  e \in had2 \/ \E j \in 1 .. i : q[j] = e
  <2>1. CASE e \in Elements(q)
    <3>1. PICK j \in 1 .. Len(q) : q[j] = e BY <2>1 DEF Elements
    <3>2. ~(i < j)
      <4>1. i < j => q[i] < q[j] BY <1>1 DEF Ascending
      <4>3. q[i] \in Number /\ e \in Number BY <1>1
      <4>2. q[i] \in Nat /\ e \in Nat BY <1>0, <4>3
      <4> QED BY <1>5, <3>1, <4>1, <4>2
    <3>3. j \in 1 .. i BY <1>1, <3>2
    <3> QED BY <3>1, <3>3
  <2> QED BY <1>2, <2>1
<1> QED BY <1>2, <1>3, <1>r, <1>4, <1>5 DEF GapFree

(* A publisher brings no new event, a client's channel no new number.      *)
PubKept(p) == pub'[p].at = "global" =>
    (pub[p].at = "global" /\ pub'[p].ev = pub[p].ev) \/ pub'[p].ev = 0
SubKept(s) ==
    /\ sub'[s] \in Client /\ sub'[s].seen = sub[s].seen
    /\ \/ sub'[s].queue = <<>> /\ sub'[s].at # "live"
       \/ /\ sub'[s].at = "live" => sub[s].at = "live"
          /\ \/ sub'[s].queue = sub[s].queue
             \/ \E x \in Events : sub'[s].queue = Append(sub[s].queue, x) /\ Reach(x) = 0

(* The types, in the form the proofs use.                                  *)
LEMMA HubShapes ==
    ASSUME HubInv
    PROVE  /\ Number \subseteq Nat /\ Events \subseteq Nat /\ Number \subseteq Events
           /\ Ephemeral \in Events /\ Ephemeral \in 0 .. MaxSeq /\ Ephemeral \notin Number
           /\ Overflow(Ephemeral) \in Events
           /\ Reach(Ephemeral) = 0 /\ Reach(Overflow(Ephemeral)) = 0
           /\ Capacity \in Nat /\ MaxReplay <= Capacity
           /\ Sure \in SUBSET Number /\ Greatest(disk) \in Nat
           /\ sub \in [Subscriber -> Client] /\ Sub \subseteq Subscriber
           /\ pub \in [Pub -> [at : {"idle", "stream", "failed", "global"}, ev : Events]]
<1>1. disk \in Seq(Number) BY DEF HubInv, Logs, LogOK
<1>2. /\ Number \subseteq Nat /\ Events \subseteq Nat /\ Number \subseteq Events
      /\ Ephemeral \in Events /\ Ephemeral \in 0 .. MaxSeq /\ Ephemeral \notin Number
      /\ Overflow(Ephemeral) \in Events
      /\ Reach(Ephemeral) = 0 /\ Reach(Overflow(Ephemeral)) = 0
  BY EventHubAssumption DEF Number, Events, Overflow, Ephemeral, Reach
<1>3. Capacity \in Nat /\ MaxReplay <= Capacity BY EventHubAssumption DEF Capacity
<1>4. Greatest(disk) \in Nat
  <2>1. CASE disk = <<>> BY <2>1 DEF Greatest
  <2>2. CASE disk # <<>>
    <3>1. Len(disk) \in 1 .. Len(disk) BY <1>1, <2>2
    <3>2. disk[Len(disk)] \in Number BY <1>1, <3>1
    <3> QED BY <1>2, <2>2, <3>2 DEF Greatest
  <2> QED BY <2>1, <2>2
<1> QED BY <1>2, <1>3, <1>4 DEF HubInv, HubTypeOK, Client, Sure, Subscriber

(* What every number of a log is bounded by.                               *)
LEMMA GreatestBounds ==
    ASSUME NEW h, LogOK(h), NEW e \in Elements(h)
    PROVE  e <= Greatest(h) /\ Greatest(h) \in Elements(h)
<1>0. h \in Seq(Number) /\ Number \subseteq Nat /\ Ascending(h)
  BY EventHubAssumption DEF LogOK, Number
<1>1. PICK i \in 1 .. Len(h) : e = h[i] BY DEF Elements
<1>2. h # <<>> /\ Len(h) \in Nat /\ Len(h) \in 1 .. Len(h) BY <1>0
<1>3. Greatest(h) = h[Len(h)] BY <1>2 DEF Greatest
<1>4. i = Len(h) \/ h[i] < h[Len(h)] BY <1>0, <1>2 DEF Ascending
<1>5. h[i] \in Nat /\ h[Len(h)] \in Nat
  <2>1. h[i] \in Number /\ h[Len(h)] \in Number BY <1>0, <1>2
  <2> QED BY <1>0, <2>1
<1> QED BY <1>1, <1>2, <1>3, <1>4, <1>5 DEF Elements

(* No event is about to be acknowledged that was not, and none twice.      *)
LEMMA PubQuiet ==
    ASSUME HubInv, UNCHANGED acks, \A p \in Pub : PubKept(p)
    PROVE  Sure' \subseteq Sure /\ Fresh'
<1>1. Sure' \subseteq Sure BY DEF Sure, PubKept, Number
<1>2. Fresh' BY EventHubAssumption DEF HubInv, Fresh, SequenceIsFresh, PubKept
<1> QED BY <1>1, <1>2

(* Channels that get no number stay without a gap.                         *)
LEMMA SubQuiet ==
    ASSUME HubInv, UNCHANGED <<disk, received, evicted>>, Sure' \subseteq Sure,
           \A s \in Sub : SubKept(s)
    PROVE  Gapless'
<1> SUFFICES ASSUME NEW s \in Sub
             PROVE  GapFree(sub'[s], Sure', Greatest(disk), Had(s))
  BY DEF Gapless, Had, Skipped
<1> DEFINE had == Had(s)
<1>1. /\ sub[s] \in Client /\ sub'[s] \in Client /\ sub'[s].seen = sub[s].seen
      /\ Sure \in SUBSET Number /\ Sure' \in SUBSET Number
      /\ Greatest(disk) \in Nat /\ Greatest(disk) <= Greatest(disk)
      /\ GapFree(sub[s], Sure, Greatest(disk), had)
      /\ \A e \in Sure' : e \in Sure \/ e > Greatest(disk)
  <2>1. sub[s] \in Client /\ Sure \in SUBSET Number /\ Greatest(disk) \in Nat BY HubShapes
  <2>2. GapFree(sub[s], Sure, Greatest(disk), had) BY DEF HubInv, Gapless
  <2>3. sub'[s] \in Client /\ sub'[s].seen = sub[s].seen BY DEF SubKept
  <2> HIDE DEF had
  <2> QED BY <2>1, <2>2, <2>3
<1> HIDE DEF had
<1>2. \/ sub'[s].queue = <<>> /\ sub'[s].at # "live"
      \/ /\ sub'[s].queue = sub[s].queue
         /\ sub'[s].at = "live" => sub[s].at = "live" /\ Sure' \subseteq Sure
      \/ \E x \in Events :
           /\ sub'[s].queue = Append(sub[s].queue, x) /\ Reach(x) = 0
           /\ sub'[s].at = "live" => sub[s].at = "live" /\ Sure' \subseteq Sure
  BY DEF SubKept
<1>3. GapFree(sub'[s], Sure', Greatest(disk), had)
  BY <1>1, <1>2, GapSent
<1> QED BY <1>3 DEF had

(* The logs stay good for the events that are sure, while nobody opens.    *)
LEMMA LogsQuiet ==
    ASSUME HubInv, UNCHANGED <<disk, history, lastSeq>>, Sure' \subseteq Sure,
           stream' \in {"open", "detached"} => stream \in {"open", "detached"},
           stream' = "open" => stream = "open"
    PROVE  Logs'
BY DEF HubInv, Logs, Covers, LogOK

(* What is left to show of a step that gives nobody a number.              *)
LEMMA HubQuiet ==
    ASSUME HubInv, UNCHANGED <<disk, received, evicted, acks>>,
           \A p \in Pub : PubKept(p), \A s \in Sub : SubKept(s),
           HubTypeOK', Served', Sure' \subseteq Sure => Logs'
    PROVE  HubInv'
<1>1. Sure' \subseteq Sure /\ Fresh' BY PubQuiet
<1>2. Gapless' BY <1>1, SubQuiet
<1>3. HistoryTypes' BY DEF HubInv, HistoryTypes
<1> QED BY <1>1, <1>2, <1>3 DEF HubInv

(* A channel that is left alone is kept.                                   *)
LEMMA SubStays ==
    ASSUME HubInv, NEW s \in Sub, sub'[s] = sub[s]
    PROVE  SubKept(s)
<1>1. sub[s] \in Client BY HubShapes
<1> QED BY <1>1 DEF SubKept

(* hub.go, getOrCreateStream and loadOrCreateStream.                       *)
LEMMA HubGetStream ==
    ASSUME HubInv, GetStream
    PROVE  /\ hub = "open" /\ stream' = "open" /\ lastSeq' \in 0 .. MaxSeq
           /\ history' \in Seq(Events) /\ (Sure' \subseteq Sure => Logs')
<1>0. /\ hub = "open" /\ hub' = hub /\ disk' = disk /\ lastSeq \in 0 .. MaxSeq
      /\ history \in Seq(Events)
  BY DEF GetStream, HubInv, HubTypeOK
<1>1. CASE stream = "open" /\ UNCHANGED <<stream, lastSeq, history>>
  <2>1. Sure' \subseteq Sure => Logs' BY <1>0, <1>1, LogsQuiet
  <2> QED BY <1>0, <1>1, <2>1
<1>2. CASE /\ stream = "none" /\ Readable /\ stream' = "open"
           /\ history' = Newest(disk, MaxReplay) /\ lastSeq' = ResumedAfter(history')
  <2>1. LogOK(disk) BY DEF HubInv, Logs
  <2>2. history' = disk BY <1>2, <2>1, NewestIs
  <2>3. lastSeq' = Greatest(disk) BY <1>2, <2>2 DEF ResumedAfter, Greatest, Last
  <2>4. Greatest(disk) \in 0 .. MaxSeq
    <3>1. CASE disk = <<>> BY <3>1, EventHubAssumption DEF Greatest
    <3>2. CASE disk # <<>>
      <4>1. disk \in Seq(Number) BY <2>1 DEF LogOK
      <4>2. disk[Len(disk)] \in Number BY <3>2, <4>1
      <4> QED BY <3>2, <4>2, EventHubAssumption DEF Greatest, Number
    <3> QED BY <3>1, <3>2
  <2>5. ASSUME Sure' \subseteq Sure PROVE Logs'
    <3>1. LogOK(disk') /\ Covers(disk', Sure') /\ LogOK(history') /\ Covers(history', Sure')
      BY <1>0, <2>1, <2>2, <2>5 DEF HubInv, Logs, Covers
    <3>2. \A e \in Elements(history') \cup Sure' : e <= Greatest(disk')
      <4>1. \A e \in Elements(disk) : e <= Greatest(disk) BY <2>1, GreatestBounds
      <4> QED BY <1>0, <2>2, <2>5, <4>1 DEF HubInv, Logs
    <3>3. Greatest(disk') <= lastSeq' BY <1>0, <2>3, <2>4
    <3> QED BY <3>1, <3>2, <3>3 DEF Logs
  <2>6. history' \in Seq(Events) BY <1>0, <2>2 DEF HubInv, HubTypeOK
  <2> QED BY <1>0, <1>2, <2>3, <2>4, <2>5, <2>6
<1> QED BY <1>1, <1>2 DEF GetStream

(* hub.go, Publish: the stream is there.                                   *)
LEMMA HubGet ==
    ASSUME HubInv, NEW p \in Pub, Get(p)
    PROVE  HubInv'
<1>1. GetStream /\ UNCHANGED <<disk, received, evicted, acks, sub, corrupt, writeFaults, hub>>
  BY DEF Get, GetStream, readerState
<1>2. /\ hub = "open" /\ stream' = "open" /\ lastSeq' \in 0 .. MaxSeq
      /\ history' \in Seq(Events) /\ (Sure' \subseteq Sure => Logs')
  BY <1>1, HubGetStream
<1>3. /\ pub' = [pub EXCEPT ![p].at = "stream"]
      /\ pub \in [Pub -> [at : {"idle", "stream", "failed", "global"}, ev : Events]]
  BY HubShapes DEF Get
<1>4. /\ pub' \in [Pub -> [at : {"idle", "stream", "failed", "global"}, ev : Events]]
      /\ \A q \in Pub : PubKept(q)
  BY <1>3 DEF PubKept
<1>5. \A s \in Sub : SubKept(s) BY <1>1, SubStays
<1>6. HubTypeOK' BY <1>1, <1>2, <1>4 DEF HubInv, HubTypeOK
<1>7. Served' BY <1>1, <1>2 DEF HubInv, Served
<1> QED BY <1>1, <1>2, <1>4, <1>5, <1>6, <1>7, HubQuiet

(* hub.go, Subscribe: the stream is there.                                 *)
LEMMA HubSubscribeGet ==
    ASSUME HubInv, NEW s \in Sub, SubscribeGet(s)
    PROVE  HubInv'
<1>1. GetStream /\ UNCHANGED <<disk, received, evicted, acks, pub, corrupt, writeFaults, hub>>
  BY DEF SubscribeGet, GetStream
<1>2. /\ hub = "open" /\ stream' = "open" /\ lastSeq' \in 0 .. MaxSeq
      /\ history' \in Seq(Events) /\ (Sure' \subseteq Sure => Logs')
  BY <1>1, HubGetStream
<1>3. /\ sub' = [sub EXCEPT ![s].at = "stream"] /\ sub[s].at = "out"
      /\ sub \in [Subscriber -> Client] /\ s \in Subscriber /\ sub[s] \in Client
  BY HubShapes DEF SubscribeGet
<1>4. /\ sub' \in [Subscriber -> Client] /\ \A r \in Subscriber : r # s => sub'[r] = sub[r]
      /\ sub'[s].at = "stream" /\ sub'[s].queue = sub[s].queue /\ sub'[s].seen = sub[s].seen
  BY <1>3 DEF Client
<1>5. \A q \in Pub : PubKept(q) BY <1>1 DEF PubKept
<1>6. ASSUME NEW r \in Sub PROVE SubKept(r)
  <2>1. CASE r = s
    <3>1. sub'[s] \in Client BY <1>3, <1>4
    <3> QED BY <1>4, <2>1, <3>1 DEF SubKept
  <2>2. CASE r # s
    <3>1. r \in Subscriber BY DEF Subscriber
    <3> QED BY <1>4, <2>2, <3>1, SubStays
  <2> QED BY <2>1, <2>2
<1>7. \A r \in Subscriber : Len(sub'[r].queue) <= Capacity + 1
  BY <1>4 DEF HubInv, HubTypeOK
<1>8. HubTypeOK' BY <1>1, <1>2, <1>4, <1>7 DEF HubInv, HubTypeOK, Client
<1>9. Served'
  <2>1. \A r \in Subscriber : sub'[r].at = "live" => Len(sub'[r].queue) <= Capacity
    BY <1>4 DEF HubInv, Served
  <2> QED BY <1>1, <1>2, <2>1 DEF HubInv, Served
<1> QED BY <1>1, <1>2, <1>5, <1>6, <1>8, <1>9, HubQuiet

PubType == [Pub -> [at : {"idle", "stream", "failed", "global"}, ev : Events]]

(* hub.go: the steps that leave the logs alone and give nobody a number.   *)
LEMMA HubStep ==
    ASSUME HubInv, UNCHANGED <<eventLog, received, evicted, acks>>,
           pub' \in PubType, \A p \in Pub : PubKept(p),
           sub' \in [Subscriber -> Client], \A s \in Sub : SubKept(s),
           \A s \in Subscriber : Len(sub'[s].queue) <= Capacity + 1,
           stream' \in {"none", "open", "detached", "closed"},
           hub' \in {"open", "closing", "globals", "closed"},
           stream' \in {"open", "detached"} => stream \in {"open", "detached"},
           stream' = "open" => stream = "open", Served'
    PROVE  HubInv'
<1>1. UNCHANGED <<disk, history, lastSeq, corrupt>> BY DEF eventLog
<1>2. HubTypeOK' BY <1>1 DEF HubInv, HubTypeOK, PubType, Client
<1>3. Sure' \subseteq Sure => Logs' BY <1>1, LogsQuiet
<1> QED BY <1>1, <1>2, <1>3, HubQuiet

(* The step of one publisher that neither serves nor fills a channel.      *)
LEMMA HubPubStep ==
    ASSUME HubInv, NEW p \in Pub, NEW a \in {"idle", "stream", "failed"},
           pub' = [pub EXCEPT ![p].at = a],
           UNCHANGED <<eventLog, sub, received, evicted, acks, stream, hub>>
    PROVE  HubInv'
<1>1. pub \in PubType /\ sub \in [Subscriber -> Client] BY HubShapes DEF PubType
<1>2. pub' \in PubType /\ \A q \in Pub : PubKept(q) BY <1>1 DEF PubType, PubKept
<1>3. \A s \in Sub : SubKept(s) BY SubStays
<1>4. /\ stream' \in {"none", "open", "detached", "closed"}
      /\ hub' \in {"open", "closing", "globals", "closed"}
      /\ \A s \in Subscriber : Len(sub'[s].queue) <= Capacity + 1
      /\ sub' \in [Subscriber -> Client]
  BY <1>1 DEF HubInv, HubTypeOK
<1>5. Served' BY DEF HubInv, Served
<1> QED BY <1>2, <1>3, <1>4, <1>5, HubStep

(* The step of one client that leaves, or whose channel is empty.          *)
LEMMA HubSubStep ==
    ASSUME HubInv, NEW s \in Subscriber, NEW c \in Client,
           sub' = [sub EXCEPT ![s] = c],
           s \in Sub => c.seen = sub[s].seen /\ c.at # "live" /\ c.queue \in {<<>>, sub[s].queue},
           Len(c.queue) <= Capacity, c.at = "live" => hub # "closed",
           UNCHANGED <<eventLog, pub, received, evicted, acks, stream, hub>>
    PROVE  HubInv'
<1>1. pub \in PubType /\ sub \in [Subscriber -> Client] /\ Sub \subseteq Subscriber
  BY HubShapes DEF PubType
<1>2. \A q \in Pub : PubKept(q) BY DEF PubKept
<1>3. /\ sub' \in [Subscriber -> Client] /\ sub'[s] = c
      /\ \A r \in Subscriber : r # s => sub'[r] = sub[r]
  BY <1>1
<1>4. ASSUME NEW r \in Sub PROVE SubKept(r)
  <2>1. CASE r = s BY <1>3, <2>1 DEF SubKept
  <2>2. CASE r # s BY <1>1, <1>3, <2>2, SubStays
  <2> QED BY <2>1, <2>2
<1>5. Len(c.queue) \in Nat /\ Capacity \in Nat BY HubShapes DEF Client
<1>6. /\ stream' \in {"none", "open", "detached", "closed"}
      /\ hub' \in {"open", "closing", "globals", "closed"}
      /\ \A r \in Subscriber : Len(sub'[r].queue) <= Capacity + 1
  BY <1>3, <1>5 DEF HubInv, HubTypeOK
<1>7. Served'
  <2>1. \A r \in Sub : sub'[r].at = "live" => stream' \in {"open", "detached"}
    BY <1>1, <1>3 DEF HubInv, Served
  <2>2. \A r \in Subscriber : sub'[r].at = "live" => Len(sub'[r].queue) <= Capacity
    BY <1>3 DEF HubInv, Served
  <2>3. hub' = "closed" => \A r \in GlobalSub : sub'[r].at # "live"
    BY <1>3 DEF HubInv, Served, Subscriber
  <2> QED BY <2>1, <2>2, <2>3 DEF HubInv, Served
<1> QED BY <1>1, <1>2, <1>3, <1>4, <1>6, <1>7, HubStep

(* A client is its fields.                                                 *)
LEMMA SameClient ==
    ASSUME NEW c \in Client, NEW d \in Client,
           c.at = d.at, c.queue = d.queue, c.seen = d.seen
    PROVE  c = d
BY DEF Client

(* hub.go, SubscribeGlobal.                                                *)
LEMMA HubSubscribeGlobal ==
    ASSUME HubInv, NEW s \in GlobalSub, SubscribeGlobal(s)
    PROVE  HubInv'
<1> DEFINE c == [at |-> IF hub = "open" THEN "live" ELSE "ended", seen |-> 0, queue |-> <<>>]
<1>1. s \in Subscriber /\ s \notin Sub BY EventHubAssumption DEF Subscriber
<1>2. 0 \in Events /\ Capacity \in Nat BY HubShapes DEF Ephemeral
<1>3. c \in Client /\ Len(c.queue) <= Capacity BY <1>2 DEF Client
<1>4. c.at = "live" => hub # "closed" OBVIOUS
<1>5. /\ sub' = [sub EXCEPT ![s] = c]
      /\ UNCHANGED <<eventLog, pub, received, evicted, acks, stream, hub>>
  BY DEF SubscribeGlobal
<1> HIDE DEF c
<1> QED BY <1>1, <1>3, <1>4, <1>5, HubSubStep

(* handlers_events.go: the client or the handler goes.                     *)
LEMMA HubLeave ==
    ASSUME HubInv, NEW s \in Subscriber, Leave(s)
    PROVE  HubInv'
<1> DEFINE c == [at |-> "out", queue |-> <<>>, seen |-> sub[s].seen]
<1>1. sub \in [Subscriber -> Client] /\ sub[s] \in Client /\ Capacity \in Nat BY HubShapes
<1>2. c \in Client /\ Len(c.queue) <= Capacity BY <1>1 DEF Client
<1>3. /\ sub' = [sub EXCEPT ![s].at = "out", ![s].queue = <<>>]
      /\ UNCHANGED <<eventLog, pub, received, evicted, acks, stream, hub>>
  BY DEF Leave
<1>4. sub' = [sub EXCEPT ![s] = c]
  <2>1. sub' = [sub EXCEPT ![s] = [sub[s] EXCEPT !.at = "out", !.queue = <<>>]] BY <1>1, <1>3
  <2>2. [sub[s] EXCEPT !.at = "out", !.queue = <<>>] = c
    <3> DEFINE d == [sub[s] EXCEPT !.at = "out", !.queue = <<>>]
    <3>0. <<>> \in Seq(Events) OBVIOUS
    <3>1. d.at = "out" /\ d.queue = <<>> /\ d.seen = sub[s].seen /\ d \in Client
      BY <1>1, <3>0 DEF Client
    <3>2. c.at = "out" /\ c.queue = <<>> /\ c.seen = sub[s].seen OBVIOUS
    <3> HIDE DEF c, d
    <3>3. d = c BY <1>2, <3>1, <3>2, SameClient
    <3> QED BY <3>3 DEF d
  <2> HIDE DEF c
  <2> QED BY <2>1, <2>2
<1>5. c.seen = sub[s].seen /\ c.at = "out" /\ c.queue = <<>> OBVIOUS
<1> HIDE DEF c
<1> QED BY <1>2, <1>3, <1>4, <1>5, HubSubStep

(* What closing a channel does.                                            *)
LEMMA ClosedIs ==
    ASSUME NEW c \in Client
    PROVE  /\ Closed(c) \in Client /\ Closed(c).queue = c.queue /\ Closed(c).seen = c.seen
           /\ Closed(c).at # "live"
BY DEF Closed, Client

(* hub.go, Close: steps that close channels.                               *)
LEMMA HubClosing ==
    ASSUME HubInv, NEW to \in SUBSET Subscriber,
           sub' = [s \in Subscriber |-> IF s \in to THEN Closed(sub[s]) ELSE sub[s]],
           UNCHANGED <<eventLog, pub, received, evicted, acks>>,
           \/ hub = "open" /\ hub' = "closing" /\ to = {}
                /\ stream' = IF stream = "open" THEN "detached" ELSE stream
           \/ hub = "closing" /\ hub' = "globals" /\ (stream = "detached" => Sub \subseteq to)
                /\ stream' = IF stream = "detached" THEN "closed" ELSE stream
           \/ hub = "globals" /\ hub' = "closed" /\ stream' = stream /\ GlobalSub \subseteq to
    PROVE  HubInv'
<1>1. pub \in PubType /\ sub \in [Subscriber -> Client] /\ Sub \subseteq Subscriber
  BY HubShapes DEF PubType
<1>2. \A q \in Pub : PubKept(q) BY DEF PubKept
<1>3. \A s \in Subscriber : /\ sub'[s] \in Client /\ sub'[s].queue = sub[s].queue
                            /\ sub'[s].seen = sub[s].seen
                            /\ sub'[s].at = "live" => sub[s].at = "live" /\ s \notin to
  <2> SUFFICES ASSUME NEW s \in Subscriber
               PROVE  /\ sub'[s] \in Client /\ sub'[s].queue = sub[s].queue
                      /\ sub'[s].seen = sub[s].seen
                      /\ sub'[s].at = "live" => sub[s].at = "live" /\ s \notin to
    OBVIOUS
  <2>0. sub[s] \in Client BY <1>1
  <2>1. CASE s \in to
    <3>1. sub'[s] = Closed(sub[s]) BY <2>1
    <3> QED BY <2>0, <3>1, ClosedIs
  <2>2. CASE s \notin to BY <2>0, <2>2
  <2> QED BY <2>1, <2>2
<1>4. sub' \in [Subscriber -> Client]
  <2>1. sub' = [s \in Subscriber |-> sub'[s]] OBVIOUS
  <2> QED BY <1>3, <2>1
<1>5. \A s \in Sub : SubKept(s) BY <1>1, <1>3 DEF SubKept
<1>6. \A s \in Subscriber : Len(sub'[s].queue) <= Capacity + 1
  BY <1>3 DEF HubInv, HubTypeOK
<1>7. /\ stream' \in {"none", "open", "detached", "closed"}
      /\ hub' \in {"open", "closing", "globals", "closed"}
      /\ stream' \in {"open", "detached"} => stream \in {"open", "detached"}
      /\ stream' = "open" => stream = "open"
  BY DEF HubInv, HubTypeOK, Served
<1>8. Served'
  <2>1. \A s \in Sub : sub'[s].at = "live" => sub[s].at = "live" /\ s \notin to
    BY <1>1, <1>3
  <2>2. \A s \in GlobalSub : sub'[s].at = "live" => sub[s].at = "live" /\ s \notin to
    BY <1>3 DEF Subscriber
  <2>3. \A s \in Subscriber : sub'[s].at = "live" => Len(sub'[s].queue) <= Capacity
    BY <1>3 DEF HubInv, Served
  <2>4. \A s \in Sub : sub'[s].at = "live" => stream' \in {"open", "detached"}
    BY <2>1 DEF HubInv, Served
  <2>5. /\ hub' = "open" => stream' \in {"none", "open"}
        /\ hub' = "closing" => stream' \in {"none", "detached"}
        /\ hub' \in {"globals", "closed"} => stream' \in {"none", "closed"}
    BY DEF HubInv, Served
  <2>6. hub' = "closed" => \A s \in GlobalSub : sub'[s].at # "live" BY <2>2
  <2> QED BY <2>3, <2>4, <2>5, <2>6 DEF Served
<1> QED BY <1>1, <1>2, <1>4, <1>5, <1>6, <1>7, <1>8, HubStep

(* hub.go, Close: the three parts of it.                                   *)
LEMMA HubClose ==
    ASSUME HubInv, Close \/ CloseStream \/ CloseGlobals
    PROVE  HubInv'
<1>0. sub = [s \in Subscriber |-> sub[s]] /\ Sub \subseteq Subscriber
  BY HubShapes
<1>1. CASE Close
  <2> DEFINE to == {}
  <2>0. to \in SUBSET Subscriber /\ to = {} OBVIOUS
  <2>1. sub' = [s \in Subscriber |-> IF s \in to THEN Closed(sub[s]) ELSE sub[s]]
    BY <1>0, <1>1 DEF Close, readerState
  <2>2. UNCHANGED <<eventLog, pub, received, evicted, acks>> BY <1>1 DEF Close, readerState
  <2>3. hub = "open" /\ hub' = "closing" /\ stream' = IF stream = "open" THEN "detached" ELSE stream
    BY <1>1 DEF Close
  <2> HIDE DEF to
  <2> QED BY <2>0, <2>1, <2>2, <2>3, HubClosing
<1>2. CASE CloseStream
  <2> DEFINE to == IF stream = "detached" THEN Sub ELSE {}
  <2>1. to \in SUBSET Subscriber BY <1>0
  <2>2. sub' = [s \in Subscriber |-> IF s \in to THEN Closed(sub[s]) ELSE sub[s]]
    BY <1>2 DEF CloseStream
  <2>3. /\ UNCHANGED <<eventLog, pub, received, evicted, acks>>
        /\ hub = "closing" /\ hub' = "globals" /\ (stream = "detached" => Sub \subseteq to)
        /\ stream' = IF stream = "detached" THEN "closed" ELSE stream
    BY <1>2 DEF CloseStream
  <2> HIDE DEF to
  <2> QED BY <2>1, <2>2, <2>3, HubClosing
<1>3. CASE CloseGlobals
  <2>1. GlobalSub \in SUBSET Subscriber BY DEF Subscriber
  <2>2. /\ sub' = [s \in Subscriber |-> IF s \in GlobalSub THEN Closed(sub[s]) ELSE sub[s]]
        /\ UNCHANGED <<eventLog, pub, received, evicted, acks>>
        /\ hub = "globals" /\ hub' = "closed" /\ stream' = stream
    BY <1>3 DEF CloseGlobals
  <2> QED BY <2>1, <2>2, HubClosing
<1> QED BY <1>1, <1>2, <1>3

(* hub.go, Subscribe: replay and registration.                             *)
LEMMA HubSubscribe ==
    ASSUME HubInv, NEW s \in Sub, Subscribe(s)
    PROVE  HubInv'
<1> DEFINE h == IF history = <<>> THEN Newest(disk, MaxReplay) ELSE history
           lost == {e \in 1 .. MaxSeq : Len(h) = MaxReplay /\ e < h[1]}
<1>0. /\ sub \in [Subscriber -> Client] /\ s \in Subscriber /\ sub[s] \in Client
      /\ sub[s].seen \in Nat /\ MaxReplay \in Nat /\ MaxReplay <= Capacity /\ Capacity \in Nat
      /\ Number \subseteq Events /\ Greatest(disk) \in Nat /\ Sure \in SUBSET Number
      /\ Sub \subseteq Subscriber
  <2>1. sub \in [Subscriber -> Client] /\ Events \subseteq Nat /\ Sub \subseteq Subscriber BY HubShapes
  <2>2. sub[s] \in Client /\ sub[s].seen \in Events BY <2>1 DEF Client
  <2> QED BY <2>1, <2>2, HubShapes, EventHubAssumption
<1>1. UNCHANGED <<eventLog, pub, received, acks, stream, hub>> /\ UNCHANGED <<disk, history, lastSeq>>
  BY DEF Subscribe, eventLog
<1>2. CASE sub' = [sub EXCEPT ![s].at = "out"] /\ UNCHANGED evicted /\ sub[s].at = "stream"
  <2> DEFINE c == [at |-> "out", queue |-> sub[s].queue, seen |-> sub[s].seen]
  <2>1. c \in Client BY <1>0 DEF Client
  <2>2. sub' = [sub EXCEPT ![s] = c]
    <3>1. sub' = [sub EXCEPT ![s] = [sub[s] EXCEPT !.at = "out"]] BY <1>0, <1>2
    <3>2. [sub[s] EXCEPT !.at = "out"] = c BY <1>0 DEF Client
    <3> HIDE DEF c
    <3> QED BY <3>1, <3>2
  <2>3. c.seen = sub[s].seen /\ c.at = "out" /\ c.queue = sub[s].queue OBVIOUS
  <2>5. UNCHANGED <<eventLog, pub, received, evicted, acks, stream, hub>> BY <1>1, <1>2
  <2>6. \A q \in Pub : PubKept(q) BY <1>1 DEF PubKept
  <2> HIDE DEF c
  <2>7. /\ sub' \in [Subscriber -> Client] /\ sub'[s] = c
        /\ \A r \in Subscriber : r # s => sub'[r] = sub[r]
    BY <1>0, <2>1, <2>2
  <2>8. ASSUME NEW r \in Sub PROVE SubKept(r)
    <3>1. CASE r = s BY <2>1, <2>3, <2>7, <3>1 DEF SubKept
    <3>2. CASE r # s BY <1>0, <2>7, <3>2, SubStays
    <3> QED BY <3>1, <3>2
  <2>9. \A r \in Subscriber : Len(sub'[r].queue) <= Capacity + 1
    BY <2>3, <2>7 DEF HubInv, HubTypeOK
  <2>10. Served'
    <3>1. \A r \in Subscriber : sub'[r].at = "live" => sub'[r] = sub[r] BY <2>3, <2>7
    <3> QED BY <1>0, <1>1, <3>1 DEF HubInv, Served, Subscriber
  <2>11. pub' \in PubType BY <1>1, HubShapes DEF PubType
  <2>12. /\ stream' \in {"none", "open", "detached", "closed"}
         /\ hub' \in {"open", "closing", "globals", "closed"}
    BY <1>1 DEF HubInv, HubTypeOK
  <2> QED BY <1>1, <2>5, <2>6, <2>7, <2>8, <2>9, <2>10, <2>11, <2>12, HubStep
<1>3. CASE /\ AdmitsSubscriber
           /\ sub' = [sub EXCEPT ![s] = [at |-> "live", seen |-> sub[s].seen,
                                         queue |-> Replayed(h, sub[s].seen)]]
           /\ evicted' = [evicted EXCEPT ![s] = @ \cup lost]
  <2> DEFINE c == [at |-> "live", seen |-> sub[s].seen, queue |-> LaterThan(h, sub[s].seen)]
  <2>1. LogOK(h) /\ Covers(h, Sure) /\ \A e \in Elements(h) : e <= Greatest(disk)
    <3>0. LogOK(disk) /\ LogOK(history) /\ Covers(disk, Sure) /\ Covers(history, Sure)
      BY <1>3 DEF HubInv, Logs, AdmitsSubscriber
    <3>1. Newest(disk, MaxReplay) = disk BY <3>0, NewestIs
    <3>2. \A e \in Elements(disk) : e <= Greatest(disk) BY <3>0, GreatestBounds
    <3>3. \A e \in Elements(history) : e <= Greatest(disk) BY DEF HubInv, Logs
    <3>4. CASE history = <<>>
      <4>1. h = disk BY <3>1, <3>4
      <4> QED BY <3>0, <3>2, <4>1
    <3>5. CASE history # <<>>
      <4>1. h = history BY <3>5
      <4> QED BY <3>0, <3>3, <4>1
    <3> QED BY <3>4, <3>5
  <2>2. lost = {e \in Number : Len(h) = MaxReplay /\ e < h[1]} BY DEF Number
  <2>3. sub' = [sub EXCEPT ![s] = c] /\ evicted' = [evicted EXCEPT ![s] = @ \cup lost]
    BY <1>3 DEF Replayed
  <2> HIDE DEF h
  <2>4. LaterThan(h, sub[s].seen) \in Seq(Number) /\ Len(LaterThan(h, sub[s].seen)) <= Len(h)
    BY <1>0, <2>1, LaterThanIs
  <2>5. LaterThan(h, sub[s].seen) \in Seq(Events)
    BY <1>0, <2>4
  <2>6. c \in Client /\ c.at = "live" /\ c.seen = sub[s].seen /\ c.queue = LaterThan(h, sub[s].seen)
    BY <1>0, <2>5 DEF Client
  <2>7. Len(c.queue) <= Capacity /\ Len(c.queue) <= Capacity + 1
    <3>1. Len(h) \in Nat /\ Len(h) <= MaxReplay /\ Len(LaterThan(h, sub[s].seen)) \in Nat
      BY <2>1, <2>4 DEF LogOK
    <3> HIDE DEF c
    <3> QED BY <1>0, <2>4, <2>6, <3>1
  <2> HIDE DEF c
  <2>8. /\ evicted \in [Subscriber -> SUBSET Events] /\ received \in [Subscriber -> SUBSET Events]
        /\ acks \in [Number -> Nat] /\ lost \in SUBSET Events
    BY <1>0, <2>2 DEF HubInv, HistoryTypes
  <2> HIDE DEF lost
  <2>9. /\ sub' \in [Subscriber -> Client] /\ sub'[s] = c
        /\ \A r \in Subscriber : r # s => sub'[r] = sub[r]
        /\ evicted' \in [Subscriber -> SUBSET Events] /\ evicted'[s] = evicted[s] \cup lost
        /\ \A r \in Subscriber : r # s => evicted'[r] = evicted[r]
    BY <1>0, <2>3, <2>6, <2>8
  <2>10. HistoryTypes' BY <1>1, <2>8, <2>9 DEF HistoryTypes
  <2>11. \A q \in Pub : PubKept(q) BY <1>1 DEF PubKept
  <2>12. Sure' \subseteq Sure /\ Fresh' BY <1>1, <2>11, PubQuiet
  <2>13. Sure' = Sure BY <1>1 DEF Sure
  <2>14. Logs' BY <1>1, <2>12, LogsQuiet
  <2>15. \A r \in Subscriber : Len(sub'[r].queue) <= Capacity + 1
    BY <2>7, <2>9 DEF HubInv, HubTypeOK
  <2>16. HubTypeOK' BY <1>1, <2>9, <2>15 DEF HubInv, HubTypeOK, Client, eventLog
  <2>17. Served'
    <3>1. \A r \in Sub : sub'[r].at = "live" => stream' \in {"open", "detached"}
      BY <1>0, <1>1, <1>3, <2>9 DEF HubInv, Served, AdmitsSubscriber
    <3>2. \A r \in Subscriber : sub'[r].at = "live" => Len(sub'[r].queue) <= Capacity
      BY <2>7, <2>9 DEF HubInv, Served
    <3>3. \A r \in GlobalSub : sub'[r] = sub[r]
      BY <2>9, EventHubAssumption DEF Subscriber
    <3> QED BY <1>1, <3>1, <3>2, <3>3 DEF HubInv, Served
  <2>18. ASSUME NEW r \in Sub PROVE GapFree(sub'[r], Sure, Greatest(disk), Had(r)')
    <3>0. GapFree(sub[r], Sure, Greatest(disk), Had(r)) BY DEF HubInv, Gapless
    <3>1. CASE r = s
      <4>0. Had(s)' = received[s] \cup evicted'[s] \cup Skipped(s) BY <1>1 DEF Had, Skipped
      <4>1. \A e \in Number : Len(h) = MaxReplay /\ e < h[1] => e \in Had(s)'
        BY <2>2, <2>9, <4>0
      <4>2. Had(s) \subseteq Had(s)' BY <2>9, <4>0 DEF Had
      <4>3. GapFree(sub[s], Sure, Greatest(disk), Had(s)) BY <3>0, <3>1
      <4>5. PICK had, had2 : had = Had(s) /\ had2 = Had(s)' OBVIOUS
      <4>4. GapFree(c, Sure, Greatest(disk), had2)
        BY <1>0, <2>1, <2>6, <4>1, <4>2, <4>3, <4>5, GapSubscribe
      <4> QED BY <2>9, <3>1, <4>4, <4>5
    <3>2. CASE r # s
      <4>1. sub'[r] = sub[r] /\ evicted'[r] = evicted[r] BY <1>0, <2>9, <3>2
      <4>2. Had(r)' = Had(r) BY <1>1, <4>1 DEF Had, Skipped
      <4> QED BY <3>0, <4>1, <4>2
    <3> QED BY <3>1, <3>2
  <2>19. Gapless' BY <1>1, <2>13, <2>18 DEF Gapless
  <2> QED BY <2>10, <2>12, <2>14, <2>16, <2>17, <2>19 DEF HubInv
<1> QED BY <1>2, <1>3 DEF Subscribe

(* handlers_events.go, streamSSEEvents.                                    *)
LEMMA HubReceive ==
    ASSUME HubInv, NEW s \in Subscriber, Receive(s)
    PROVE  HubInv'
<1> DEFINE e == Head(sub[s].queue)
           seen2 == IF s \in Sub THEN Id(e) ELSE sub[s].seen
           c == [at |-> sub[s].at, queue |-> Tail(sub[s].queue), seen |-> seen2]
           taken == IF s \in Sub THEN received[s] \cup {e} ELSE received[s]
<1>0. /\ sub \in [Subscriber -> Client] /\ sub[s] \in Client /\ Sub \subseteq Subscriber
      /\ Greatest(disk) \in Nat /\ Sure \in SUBSET Number /\ Capacity \in Nat
  BY HubShapes
<1>1. /\ UNCHANGED <<eventLog, pub, evicted, acks, stream, hub>>
      /\ UNCHANGED <<disk, history, lastSeq>> /\ sub[s].queue # <<>>
  BY DEF Receive, eventLog
<1>2. sub[s].queue \in Seq(Events) /\ sub[s].seen \in Events BY <1>0 DEF Client
<1>3. /\ e \in Events /\ Tail(sub[s].queue) \in Seq(Events)
      /\ Len(Tail(sub[s].queue)) = Len(sub[s].queue) - 1 /\ Len(sub[s].queue) \in Nat
  BY <1>1, <1>2
<1>i. Id(e) \in Events
  BY <1>3, EventHubAssumption DEF Id, Events, Ephemeral, Overflow
<1>4. sub' = [sub EXCEPT ![s] = c] /\ received' = [received EXCEPT ![s] = taken]
  <2>1. received' = [received EXCEPT ![s] = IF s \in Sub THEN @ \cup {e} ELSE @]
    BY DEF Receive
  <2>2. sub' = [sub EXCEPT ![s].queue = Tail(@),
                           ![s].seen = IF s \in Sub THEN Id(e) ELSE @]
    BY DEF Receive
  <2> HIDE DEF e
  <2>3. sub' = [sub EXCEPT ![s] = [sub[s] EXCEPT !.queue = Tail(sub[s].queue), !.seen = seen2]]
    BY <1>0, <2>2
  <2>4. [sub[s] EXCEPT !.queue = Tail(sub[s].queue), !.seen = seen2] = c
    <3> HIDE DEF seen2
    <3> DEFINE d == [sub[s] EXCEPT !.queue = Tail(sub[s].queue), !.seen = seen2]
    <3>0. seen2 \in Events BY <1>2, <1>i DEF seen2
    <3>1. d.at = sub[s].at /\ d.queue = Tail(sub[s].queue) /\ d.seen = seen2 /\ d \in Client
      BY <1>0, <1>3, <3>0 DEF Client
    <3>2. c.at = sub[s].at /\ c.queue = Tail(sub[s].queue) /\ c.seen = seen2 /\ c \in Client
      BY <1>0, <1>3, <3>0 DEF Client
    <3> HIDE DEF c, d
    <3>3. d = c BY <3>1, <3>2, SameClient
    <3> QED BY <3>3 DEF d
  <2> HIDE DEF c, seen2
  <2> QED BY <2>1, <2>3, <2>4
<1>5. c \in Client /\ c.at = sub[s].at /\ c.queue = Tail(sub[s].queue) /\ c.seen = seen2
  BY <1>0, <1>2, <1>3, <1>i DEF Client
<1> HIDE DEF c
<1>6. /\ received \in [Subscriber -> SUBSET Events] /\ taken \in SUBSET Events
      /\ received[s] \subseteq taken
  BY <1>3 DEF HubInv, HistoryTypes
<1>7. s \in Sub => received[s] \cup {e} \subseteq taken OBVIOUS
<1> HIDE DEF taken
<1>8. /\ sub' \in [Subscriber -> Client] /\ sub'[s] = c
      /\ \A r \in Subscriber : r # s => sub'[r] = sub[r]
      /\ received' \in [Subscriber -> SUBSET Events] /\ received'[s] = taken
      /\ \A r \in Subscriber : r # s => received'[r] = received[r]
  BY <1>0, <1>4, <1>5, <1>6
<1>9. HistoryTypes' BY <1>1, <1>8 DEF HubInv, HistoryTypes
<1>10. \A q \in Pub : PubKept(q) BY <1>1 DEF PubKept
<1>11. Sure' \subseteq Sure /\ Fresh' BY <1>1, <1>10, PubQuiet
<1>12. Sure' = Sure BY <1>1 DEF Sure
<1>13. Logs' BY <1>1, <1>11, LogsQuiet
<1>14. /\ Len(c.queue) <= Capacity + 1
       /\ sub[s].at = "live" => Len(c.queue) <= Capacity
  <2>1. Len(sub[s].queue) <= Capacity + 1 /\ (sub[s].at = "live" => Len(sub[s].queue) <= Capacity)
    BY DEF HubInv, HubTypeOK, Served
  <2> QED BY <1>0, <1>3, <1>5, <2>1
<1>15. \A r \in Subscriber : Len(sub'[r].queue) <= Capacity + 1
  BY <1>8, <1>14 DEF HubInv, HubTypeOK
<1>16. HubTypeOK' BY <1>1, <1>8, <1>15 DEF HubInv, HubTypeOK, Client, eventLog
<1>17. Served'
  <2>1. \A r \in Subscriber : sub'[r].at = sub[r].at BY <1>5, <1>8
  <2>2. \A r \in Subscriber : sub'[r].at = "live" => Len(sub'[r].queue) <= Capacity
    BY <1>5, <1>8, <1>14 DEF HubInv, Served
  <2> QED BY <1>1, <2>1, <2>2 DEF HubInv, Served, Subscriber
<1>18. ASSUME NEW r \in Sub PROVE GapFree(sub'[r], Sure, Greatest(disk), Had(r)')
  <2>0. GapFree(sub[r], Sure, Greatest(disk), Had(r)) BY DEF HubInv, Gapless
  <2>1. CASE r = s
    <3>1. s \in Sub BY <2>1
    <3>2. c.seen = Id(Head(sub[s].queue)) BY <1>5, <3>1
    <3>3. received[s] \cup {e} \subseteq received'[s] BY <1>7, <1>8, <3>1
    <3>4. Had(s) \cup {Head(sub[s].queue)} \subseteq Had(s)'
      BY <1>1, <3>3 DEF Had, Skipped
    <3>5. Head(sub[s].queue) > MaxSeq => {c.seen - 1, c.seen} \subseteq Had(s)'
      <4>1. ASSUME e > MaxSeq PROVE {Id(e) - 1, Id(e)} \subseteq Skipped(s)'
        BY <3>3, <4>1 DEF Skipped
      <4> QED BY <3>2, <4>1 DEF Had
    <3>6. GapFree(sub[s], Sure, Greatest(disk), Had(s)) BY <2>0, <2>1
    <3>7. PICK had, had2 : had = Had(s) /\ had2 = Had(s)' OBVIOUS
    <3>8. GapFree(c, Sure, Greatest(disk), had2)
      <4> HIDE DEF e
      <4> QED BY <1>0, <1>1, <1>5, <3>2, <3>4, <3>5, <3>6, <3>7, GapReceive
    <3> QED BY <1>8, <2>1, <3>7, <3>8
  <2>2. CASE r # s
    <3>1. sub'[r] = sub[r] /\ received'[r] = received[r] BY <1>0, <1>8, <2>2
    <3>2. Had(r)' = Had(r) BY <1>1, <3>1 DEF Had, Skipped
    <3> QED BY <2>0, <3>1, <3>2
  <2> QED BY <2>1, <2>2
<1>19. Gapless' BY <1>1, <1>12, <1>18 DEF Gapless
<1> QED BY <1>9, <1>11, <1>13, <1>16, <1>17, <1>19 DEF HubInv

(* hub.go, broadcast: what becomes of the channels of those addressed.     *)
LEMMA BroadcastIs ==
    ASSUME HubInv, NEW e \in 0 .. MaxSeq, NEW to \in SUBSET Subscriber, Broadcast(e, to)
    PROVE  /\ sub' \in [Subscriber -> Client]
           /\ \A s \in Subscriber :
                /\ Len(sub'[s].queue) <= Capacity + 1 /\ sub'[s].seen = sub[s].seen
                /\ sub'[s].at = "live" => sub[s].at = "live" /\ Len(sub'[s].queue) <= Capacity
                /\ s \notin to \/ sub[s].at # "live" => sub'[s] = sub[s]
                /\ s \in to /\ sub'[s].at = "live" => sub'[s].queue = Append(sub[s].queue, e)
                /\ sub'[s].at # "live" => \/ sub'[s].queue = sub[s].queue
                                          \/ sub'[s].queue = Append(sub[s].queue, Overflow(e))
<1>1. PICK raced \in BOOLEAN :
          sub' = [s \in Subscriber |-> IF s \in to THEN Sent(sub[s], e, raced) ELSE sub[s]]
  BY DEF Broadcast
<1>2. ASSUME NEW s \in Subscriber
      PROVE  /\ sub'[s] \in Client
             /\ Len(sub'[s].queue) <= Capacity + 1 /\ sub'[s].seen = sub[s].seen
             /\ sub'[s].at = "live" => sub[s].at = "live" /\ Len(sub'[s].queue) <= Capacity
             /\ s \notin to \/ sub[s].at # "live" => sub'[s] = sub[s]
             /\ s \in to /\ sub'[s].at = "live" => sub'[s].queue = Append(sub[s].queue, e)
             /\ sub'[s].at # "live" => \/ sub'[s].queue = sub[s].queue
                                       \/ sub'[s].queue = Append(sub[s].queue, Overflow(e))
  <2>0. /\ sub[s] \in Client /\ Len(sub[s].queue) <= Capacity + 1
        /\ sub[s].at = "live" => Len(sub[s].queue) <= Capacity
    BY HubShapes DEF HubInv, HubTypeOK, Served
  <2>1. CASE s \notin to
    <3>1. sub'[s] = sub[s] BY <1>1, <2>1
    <3> QED BY <2>0, <2>1, <3>1
  <2>2. CASE s \in to
    <3>1. sub'[s] = Sent(sub[s], e, raced) BY <1>1, <2>2
    <3> DEFINE c == sub[s]
               d == Sent(sub[s], e, raced)
    <3>2. /\ d \in Client /\ Len(d.queue) <= Capacity + 1 /\ d.seen = c.seen
          /\ c.at # "live" => d = c
          /\ d.at = "live" => /\ c.at = "live" /\ Len(d.queue) <= Capacity
                              /\ d.queue = Append(c.queue, e)
          /\ c.at = "live" /\ d.at # "live" =>
               /\ d.at = "ended"
               /\ d.queue = c.queue \/ d.queue = Append(c.queue, Overflow(e))
      <4> HIDE DEF c
      <4>1. c \in Client /\ Len(c.queue) <= Capacity + 1 /\ (c.at = "live" => Len(c.queue) <= Capacity)
        BY <2>0 DEF c
      <4>2. d = Sent(c, e, raced) BY DEF c
      <4> HIDE DEF d
      <4> QED BY <4>1, <4>2, SentIs
    <3>3. sub'[s] = d BY <3>1
    <3> HIDE DEF d
    <3> QED BY <2>2, <3>2, <3>3
  <2> QED BY <2>1, <2>2
<1>3. sub' \in [Subscriber -> Client]
  <2>1. sub' = [s \in Subscriber |-> sub'[s]] BY <1>1
  <2> QED BY <1>2, <2>1
<1> QED BY <1>2, <1>3

(* hub.go, BroadcastEphemeral: a terminal event without a number.          *)
LEMMA HubBroadcastEphemeral ==
    ASSUME HubInv, NEW p \in Pub, BroadcastEphemeral(p)
    PROVE  HubInv'
<1>0. /\ pub \in PubType /\ Sub \subseteq Subscriber
      /\ Ephemeral \in Events /\ Ephemeral \in 0 .. MaxSeq /\ Overflow(Ephemeral) \in Events
      /\ Reach(Ephemeral) = 0 /\ Reach(Overflow(Ephemeral)) = 0
      /\ UNCHANGED <<eventLog, received, evicted, acks, stream, hub>>
  BY HubShapes DEF PubType, BroadcastEphemeral
<1>1. CASE pub' = [pub EXCEPT ![p].at = "idle"] /\ UNCHANGED sub
  <2>1. "idle" \in {"idle", "stream", "failed"} OBVIOUS
  <2> QED BY <1>0, <1>1, <2>1, HubPubStep
<1>2. CASE /\ pub' = [pub EXCEPT ![p] = [at |-> "global", ev |-> Ephemeral]]
           /\ Broadcast(Ephemeral, IF stream = "open" THEN Sub ELSE {})
  <2> DEFINE to == IF stream = "open" THEN Sub ELSE {}
  <2>1. to \in SUBSET Subscriber /\ Broadcast(Ephemeral, to) BY <1>0, <1>2
  <2> HIDE DEF to
  <2>2. /\ sub' \in [Subscriber -> Client]
        /\ \A s \in Subscriber :
             /\ Len(sub'[s].queue) <= Capacity + 1 /\ sub'[s].seen = sub[s].seen
             /\ sub'[s].at = "live" => sub[s].at = "live" /\ Len(sub'[s].queue) <= Capacity
             /\ s \notin to \/ sub[s].at # "live" => sub'[s] = sub[s]
             /\ s \in to /\ sub'[s].at = "live" => sub'[s].queue = Append(sub[s].queue, Ephemeral)
             /\ sub'[s].at # "live" => \/ sub'[s].queue = sub[s].queue
                                       \/ sub'[s].queue = Append(sub[s].queue, Overflow(Ephemeral))
    BY <1>0, <2>1, BroadcastIs
  <2>3. ASSUME NEW s \in Sub PROVE SubKept(s)
    <3>0. s \in Subscriber /\ sub'[s] \in Client BY <1>0, <2>2
    <3>1. CASE s \notin to BY <2>2, <3>0, <3>1, SubStays
    <3>2. CASE s \in to BY <1>0, <2>2, <3>0, <3>2 DEF SubKept
    <3> QED BY <3>1, <3>2
  <2>4. pub' \in PubType /\ \A q \in Pub : PubKept(q)
    BY <1>0, <1>2 DEF PubType, PubKept, Ephemeral
  <2>5. Served' BY <1>0, <2>2 DEF HubInv, Served, Subscriber
  <2>6. /\ stream' \in {"none", "open", "detached", "closed"}
        /\ hub' \in {"open", "closing", "globals", "closed"}
        /\ \A s \in Subscriber : Len(sub'[s].queue) <= Capacity + 1
    BY <1>0, <2>2 DEF HubInv, HubTypeOK
  <2> QED BY <1>0, <2>2, <2>3, <2>4, <2>5, <2>6, HubStep
<1> QED BY <1>1, <1>2 DEF BroadcastEphemeral

(* hub.go, Publish: the second half, and the answer to the caller.         *)
LEMMA HubPublishGlobal ==
    ASSUME HubInv, NEW p \in Pub, PublishGlobal(p)
    PROVE  HubInv'
<1>0. /\ pub \in PubType /\ Sub \subseteq Subscriber /\ GlobalSub \in SUBSET Subscriber
      /\ pub[p].ev \in 0 .. MaxSeq /\ pub[p].at = "global"
      /\ UNCHANGED <<eventLog, received, evicted, stream, hub>>
      /\ UNCHANGED <<disk, history, lastSeq, corrupt>>
  <2>1. pub[p].at = "global" BY DEF PublishGlobal
  <2>2. pub[p].ev \in 0 .. MaxSeq BY <2>1 DEF HubInv, Fresh
  <2> QED BY <2>1, <2>2, HubShapes DEF PubType, PublishGlobal, Subscriber, eventLog
<1>1. /\ sub' \in [Subscriber -> Client]
      /\ \A s \in Subscriber :
           /\ Len(sub'[s].queue) <= Capacity + 1 /\ sub'[s].seen = sub[s].seen
           /\ sub'[s].at = "live" => sub[s].at = "live" /\ Len(sub'[s].queue) <= Capacity
           /\ s \notin GlobalSub \/ sub[s].at # "live" => sub'[s] = sub[s]
  BY <1>0, BroadcastIs DEF PublishGlobal
<1>2. \A s \in Sub : SubKept(s)
  <2> SUFFICES ASSUME NEW s \in Sub PROVE SubKept(s)
    OBVIOUS
  <2>1. s \in Subscriber /\ s \notin GlobalSub BY <1>0, EventHubAssumption
  <2>2. sub'[s] = sub[s] BY <1>1, <2>1
  <2> QED BY <2>2, SubStays
<1>3. /\ pub' \in PubType /\ pub'[p].at = "idle"
      /\ \A q \in Pub : q # p => pub'[q] = pub[q]
  BY <1>0 DEF PublishGlobal, PubType
<1>4. /\ acks \in [Number -> Nat]
      /\ \/ pub[p].ev = 0 /\ acks' = acks
         \/ /\ pub[p].ev \in Number /\ acks[pub[p].ev] = 0
            /\ acks' = [acks EXCEPT ![pub[p].ev] = @ + 1]
  <2>1. acks \in [Number -> Nat] BY DEF HubInv, HistoryTypes
  <2>2. pub[p].ev \in 0 .. MaxSeq /\ (pub[p].ev # 0 => acks[pub[p].ev] = 0)
    BY <1>0 DEF HubInv, Fresh
  <2>3. pub[p].ev = 0 \/ pub[p].ev \in Number BY <2>2, EventHubAssumption DEF Number
  <2> QED BY <2>1, <2>2, <2>3 DEF PublishGlobal, Ephemeral
<1>5. /\ acks' \in [Number -> Nat]
      /\ \A e \in Number : acks'[e] = IF e = pub[p].ev THEN 1 ELSE acks[e]
  <2>1. Number \subseteq Nat /\ 0 \notin Number BY HubShapes DEF Ephemeral
  <2> QED BY <1>4, <2>1
<1>6. Sure' \subseteq Sure
  <2> SUFFICES ASSUME NEW e \in Number,
                      acks'[e] > 0 \/ \E q \in Pub : pub'[q].at = "global" /\ pub'[q].ev = e
               PROVE  e \in Sure
    BY DEF Sure, Number
  <2>1. CASE e = pub[p].ev BY <1>0, <2>1 DEF Sure
  <2>2. CASE e # pub[p].ev BY <1>3, <1>5, <2>2 DEF Sure
  <2> QED BY <2>1, <2>2
<1>7. Fresh'
  <2>1. SequenceIsFresh'
    <3> SUFFICES ASSUME NEW e \in Number PROVE acks'[e] <= 1
      BY DEF SequenceIsFresh, Number
    <3>1. acks[e] <= 1 BY DEF HubInv, Fresh, SequenceIsFresh, Number
    <3> QED BY <1>5, <3>1
  <2>2. ASSUME NEW q \in Pub, pub'[q].at = "global"
        PROVE  /\ pub'[q].ev \in 0 .. MaxSeq
               /\ pub'[q].ev # 0 => acks'[pub'[q].ev] = 0
               /\ \A o \in Pub : pub'[o].at = "global" /\ pub'[o].ev = pub'[q].ev /\ pub'[q].ev # 0
                                   => o = q
    <3>1. q # p /\ pub'[q] = pub[q] /\ pub[q].at = "global" BY <1>3, <2>2
    <3>2. pub[q].ev \in 0 .. MaxSeq /\ (pub[q].ev # 0 => acks[pub[q].ev] = 0)
      BY <3>1 DEF HubInv, Fresh
    <3>3. pub[q].ev # 0 => pub[q].ev # pub[p].ev BY <1>0, <3>1 DEF HubInv, Fresh
    <3>4. pub[q].ev # 0 => pub[q].ev \in Number BY <3>2, EventHubAssumption DEF Number
    <3>5. \A o \in Pub : pub[o].at = "global" /\ pub[o].ev = pub[q].ev /\ pub[q].ev # 0 => o = q
      BY <3>1 DEF HubInv, Fresh
    <3>6. \A o \in Pub : pub'[o].at = "global" => pub'[o] = pub[o] BY <1>3
    <3>7. pub[q].ev # 0 => acks'[pub[q].ev] = 0 BY <1>5, <3>2, <3>3, <3>4
    <3> QED BY <3>1, <3>2, <3>5, <3>6, <3>7
  <2> QED BY <2>1, <2>2 DEF Fresh
<1>8. Gapless' BY <1>0, <1>2, <1>6, SubQuiet
<1>9. Logs' BY <1>0, <1>6, LogsQuiet
<1>10. HistoryTypes' BY <1>0, <1>5 DEF HubInv, HistoryTypes
<1>11. HubTypeOK' BY <1>0, <1>1, <1>3 DEF HubInv, HubTypeOK, PubType, Client
<1>12. Served'  BY <1>0, <1>1 DEF HubInv, Served, Subscriber
<1> QED BY <1>7, <1>8, <1>9, <1>10, <1>11, <1>12 DEF HubInv

(* A new daemon over the same file.                                        *)
LEMMA HubRestart ==
    ASSUME HubInv, Restart
    PROVE  HubInv'
<1>0. /\ pub \in PubType /\ sub \in [Subscriber -> Client] /\ Sub \subseteq Subscriber
      /\ Ephemeral \in Events /\ Capacity \in Nat
      /\ UNCHANGED <<disk, corrupt, received, evicted, acks>>
      /\ stream' = "none" /\ hub' = "open" /\ lastSeq' = 0 /\ history' = <<>>
      /\ pub' = [p \in Pub |-> [at |-> "idle", ev |-> Ephemeral]]
      /\ sub' = [s \in Subscriber |-> [sub[s] EXCEPT !.at = "out", !.queue = <<>>]]
  BY HubShapes DEF PubType, Restart
<1>1. pub' \in PubType /\ \A p \in Pub : PubKept(p) BY <1>0 DEF PubType, PubKept
<1>2. ASSUME NEW s \in Subscriber
      PROVE  /\ sub'[s] \in Client /\ sub'[s].at = "out" /\ sub'[s].queue = <<>>
             /\ sub'[s].seen = sub[s].seen
  <2>0. <<>> \in Seq(Events) OBVIOUS
  <2>1. sub[s] \in Client BY <1>0
  <2>2. sub'[s] = [sub[s] EXCEPT !.at = "out", !.queue = <<>>] BY <1>0
  <2> QED BY <2>0, <2>1, <2>2 DEF Client
<1>3. sub' \in [Subscriber -> Client]
  <2>1. sub' = [s \in Subscriber |-> sub'[s]] BY <1>0
  <2> QED BY <1>2, <2>1
<1>4. \A s \in Sub : SubKept(s) BY <1>0, <1>2 DEF SubKept
<1>5. HubTypeOK'
  <2>1. \A s \in Subscriber : Len(sub'[s].queue) <= Capacity + 1
    <3>1. Len(<<>>) = 0 OBVIOUS
    <3>2. Capacity \in Nat BY <1>0
    <3> QED BY <1>2, <3>1, <3>2
  <2>2. lastSeq' \in 0 .. MaxSeq /\ history' \in Seq(Events)
    <3>1. <<>> \in Seq(Events) OBVIOUS
    <3>2. 0 \in 0 .. MaxSeq BY EventHubAssumption
    <3>3. lastSeq' = 0 /\ history' = <<>> BY <1>0
    <3> QED BY <3>1, <3>2, <3>3
  <2> QED BY <1>0, <1>1, <1>3, <2>1, <2>2 DEF HubInv, HubTypeOK, PubType, Client
<1>6. Served' BY <1>0, <1>2 DEF Served, Subscriber
<1>7. ASSUME Sure' \subseteq Sure PROVE Logs'
  <2>1. LogOK(history') /\ Elements(history') = {}
    <3>1. <<>> \in Seq(Number) /\ Len(<<>>) <= MaxReplay BY EventHubAssumption
    <3>2. Ascending(<<>>) BY DEF Ascending
    <3>3. Elements(<<>>) = {} BY DEF Elements
    <3> QED BY <1>0, <3>1, <3>2, <3>3 DEF LogOK
  <2> QED BY <1>0, <1>7, <2>1 DEF HubInv, Logs, Covers
<1> QED BY <1>0, <1>1, <1>4, <1>5, <1>6, <1>7, HubQuiet

(* The numbers a stream hands out are above all that its logs hold.        *)
LEMMA NextNumber ==
    ASSUME HubInv, stream = "open", lastSeq < MaxSeq
    PROVE  /\ lastSeq + 1 \in Number /\ lastSeq + 1 \notin Sure
           /\ Greatest(disk) < lastSeq + 1
           /\ \A e \in Elements(disk) : e < lastSeq + 1
           /\ \A e \in Elements(history) : e < lastSeq + 1
           /\ LogOK(disk) /\ LogOK(history) /\ Covers(disk, Sure) /\ Covers(history, Sure)
<1>1. LogOK(disk) /\ LogOK(history) /\ Covers(disk, Sure) /\ Covers(history, Sure)
  BY DEF HubInv, Logs
<1>2. lastSeq \in Nat /\ MaxSeq \in Nat /\ Greatest(disk) \in Nat /\ Greatest(disk) <= lastSeq
  BY HubShapes, EventHubAssumption DEF HubInv, HubTypeOK, Logs
<1>3. lastSeq + 1 \in Number /\ Greatest(disk) < lastSeq + 1 BY <1>2 DEF Number
<1>4. Number \subseteq Nat /\ Sure \subseteq Number BY HubShapes
<1>5. ASSUME NEW h, LogOK(h), NEW e \in Elements(h) PROVE e \in Nat
  <2>1. h \in Seq(Number) BY <1>5 DEF LogOK
  <2>2. PICK i \in 1 .. Len(h) : e = h[i] BY DEF Elements
  <2>3. h[i] \in Number BY <2>1
  <2> QED BY <1>4, <2>2, <2>3
<1>6. ASSUME NEW e \in Nat, e <= Greatest(disk) PROVE e < lastSeq + 1
  BY <1>2, <1>6
<1>7. \A e \in Elements(disk) : e < lastSeq + 1
  BY <1>1, <1>5, <1>6, GreatestBounds
<1>8. \A e \in Elements(history) : e < lastSeq + 1
  BY <1>1, <1>5, <1>6 DEF HubInv, Logs
<1>9. lastSeq + 1 \notin Sure
  <2>1. \A e \in Sure : e \in Nat /\ e <= Greatest(disk) BY <1>4 DEF HubInv, Logs
  <2> QED BY <1>2, <2>1
<1> QED BY <1>1, <1>3, <1>7, <1>8, <1>9

(* hub.go, Publish: the event is in the file and in the buffer.            *)
LEMMA HubPublished ==
    ASSUME HubInv, NEW p \in Pub, NEW n, n = lastSeq + 1,
           hub = "open", stream = "open", lastSeq < MaxSeq,
           lastSeq' = n, disk' = Newest(Append(disk, n), MaxReplay),
           history' = Newest(Append(history, n), MaxReplay),
           pub' = [pub EXCEPT ![p] = [at |-> "global", ev |-> n]], Broadcast(n, Sub),
           UNCHANGED <<corrupt, stream, hub, received, evicted, acks>>
    PROVE  HubInv'
<1>1. /\ n \in Number /\ n \notin Sure /\ Greatest(disk) < n
      /\ \A e \in Elements(disk) : e < n
      /\ \A e \in Elements(history) : e < n
      /\ LogOK(disk) /\ LogOK(history) /\ Covers(disk, Sure) /\ Covers(history, Sure)
  BY NextNumber
<1>2. /\ Number \subseteq Nat /\ Number \subseteq Events /\ Sure \in SUBSET Number
      /\ Sub \in SUBSET Subscriber /\ pub \in PubType /\ sub \in [Subscriber -> Client]
      /\ n \in 0 .. MaxSeq /\ Greatest(disk) \in Nat /\ n \in Nat
  <2>1. n \in 0 .. MaxSeq BY <1>1, EventHubAssumption DEF Number
  <2> QED BY <1>1, <2>1, HubShapes DEF PubType
<1>3. /\ sub' \in [Subscriber -> Client]
      /\ \A s \in Subscriber :
           /\ Len(sub'[s].queue) <= Capacity + 1 /\ sub'[s].seen = sub[s].seen
           /\ sub'[s].at = "live" => sub[s].at = "live" /\ Len(sub'[s].queue) <= Capacity
           /\ s \notin Sub \/ sub[s].at # "live" => sub'[s] = sub[s]
           /\ s \in Sub /\ sub'[s].at = "live" => sub'[s].queue = Append(sub[s].queue, n)
           /\ sub'[s].at # "live" => \/ sub'[s].queue = sub[s].queue
                                     \/ sub'[s].queue = Append(sub[s].queue, Overflow(n))
  BY <1>1, <1>2, BroadcastIs
<1>4. /\ pub' \in PubType /\ pub'[p] = [at |-> "global", ev |-> n]
      /\ \A q \in Pub : q # p => pub'[q] = pub[q]
  BY <1>1, <1>2 DEF PubType
<1>5. Sure' \subseteq Sure \cup {n} /\ Sure' \in SUBSET Number
  BY <1>4 DEF Sure, Number
<1>6. /\ LogOK(disk') /\ Greatest(disk') = n /\ Covers(disk', Sure \cup {n})
      /\ LogOK(history') /\ Elements(history') \subseteq Elements(history) \cup {n}
      /\ Covers(history', Sure \cup {n})
  <2>1. Sure \in SUBSET Nat BY <1>2
  <2>2. LogOK(disk') /\ Greatest(disk') = n /\ Covers(disk', Sure \cup {n})
    BY <1>1, <2>1, NewestOfAppend
  <2>3. /\ LogOK(history') /\ Elements(history') \subseteq Elements(history) \cup {n}
        /\ Covers(history', Sure \cup {n})
    BY <1>1, <2>1, NewestOfAppend
  <2> QED BY <2>2, <2>3
<1>7. Logs'
  <2>1. Covers(disk', Sure') /\ Covers(history', Sure') BY <1>5, <1>6 DEF Covers
  <2>2. \A e \in Elements(history') \cup Sure' : e <= n
    <3>1. \A e \in Sure : e \in Nat /\ e <= Greatest(disk) BY <1>2 DEF HubInv, Logs
    <3>2. \A e \in Sure : e <= n BY <1>1, <1>2, <3>1
    <3>3. \A e \in Elements(history) : e <= Greatest(disk) BY DEF HubInv, Logs
    <3>4. \A e \in Elements(history) : e \in Nat
      <4> SUFFICES ASSUME NEW i \in 1 .. Len(history) PROVE history[i] \in Nat
        BY DEF Elements
      <4>1. history[i] \in Number BY <1>1 DEF LogOK
      <4> QED BY <1>2, <4>1
    <3>5. \A e \in Elements(history) : e <= n BY <1>1, <1>2, <3>4
    <3>6. n <= n BY <1>2
    <3> QED BY <1>5, <1>6, <3>2, <3>5, <3>6
  <2>3. Greatest(disk') <= lastSeq' BY <1>2, <1>6
  <2>4. \A e \in Elements(history') \cup Sure' : e <= Greatest(disk') BY <1>6, <2>2
  <2> QED BY <1>6, <2>1, <2>3, <2>4 DEF Logs
<1>8. Gapless'
  <2> SUFFICES ASSUME NEW s \in Sub
               PROVE  GapFree(sub'[s], Sure', n, Had(s))
    BY <1>6 DEF Gapless, Had, Skipped
  <2>1. /\ s \in Subscriber /\ sub[s] \in Client /\ sub'[s] \in Client /\ sub'[s].seen = sub[s].seen
        /\ GapFree(sub[s], Sure, Greatest(disk), Had(s))
    BY <1>2, <1>3 DEF HubInv, Gapless
  <2>2. Greatest(disk) <= n /\ n <= n /\ \A e \in Sure' : e \in Sure \/ e > Greatest(disk)
    BY <1>1, <1>2, <1>5
  <2>3. \/ sub'[s].queue = sub[s].queue /\ sub'[s].at # "live"
        \/ \E m \in Number : /\ sub'[s].queue = Append(sub[s].queue, m) /\ m <= n
                             /\ sub[s].at = "live" /\ Sure' \subseteq Sure \cup {m}
        \/ \E m \in Number :
             /\ sub'[s].queue = Append(sub[s].queue, Overflow(m)) /\ m <= n /\ sub[s].at = "live"
             /\ sub'[s].at # "live" /\ Sure' \subseteq Sure \cup {m}
    <3>1. CASE sub[s].at # "live"
      <4>1. sub'[s] = sub[s] BY <1>3, <2>1, <3>1
      <4> QED BY <3>1, <4>1
    <3>2. CASE sub[s].at = "live" /\ sub'[s].at = "live"
      BY <1>1, <1>3, <1>5, <2>1, <2>2, <3>2
    <3>3. CASE sub[s].at = "live" /\ sub'[s].at # "live"
      BY <1>1, <1>3, <1>5, <2>1, <2>2, <3>3
    <3> QED BY <3>1, <3>2, <3>3
  <2> DEFINE had == Had(s)
  <2>5. /\ GapFree(sub[s], Sure, Greatest(disk), had) /\ Sure \in SUBSET Number
        /\ Sure' \in SUBSET Number /\ Greatest(disk) \in Nat /\ n \in Nat
    BY <1>2, <1>5, <2>1
  <2> HIDE DEF had
  <2>6. GapFree(sub'[s], Sure', n, had)
    <3>1. CASE \E m \in Number :
                 /\ sub'[s].queue = Append(sub[s].queue, Overflow(m)) /\ m <= n
                 /\ sub[s].at = "live"
                 /\ sub'[s].at # "live" /\ Sure' \subseteq Sure \cup {m}
      BY <2>1, <2>2, <2>5, <3>1, GapNotice
    <3>2. CASE \/ sub'[s].queue = sub[s].queue /\ sub'[s].at # "live"
               \/ \E m \in Number : /\ sub'[s].queue = Append(sub[s].queue, m) /\ m <= n
                                    /\ sub[s].at = "live" /\ Sure' \subseteq Sure \cup {m}
      BY <2>1, <2>2, <2>5, <3>2, GapSent
    <3> QED BY <2>3, <3>1, <3>2
  <2> QED BY <2>6 DEF had
<1>9. Fresh'
  <2>0. acks \in [Number -> Nat] BY DEF HubInv, HistoryTypes
  <2>1. SequenceIsFresh' BY DEF HubInv, Fresh, SequenceIsFresh
  <2>2. acks[n] = 0 /\ n \in 0 .. MaxSeq
    <3>1. ~(acks[n] > 0) BY <1>1 DEF Sure
    <3>2. n \in 0 .. MaxSeq BY <1>1, EventHubAssumption DEF Number
    <3> QED BY <1>1, <2>0, <3>1, <3>2
  <2>3. ASSUME NEW q \in Pub, q # p, pub'[q].at = "global"
        PROVE  pub'[q] = pub[q] /\ pub[q].at = "global" /\ pub[q].ev # n
    BY <1>1, <1>4, <2>3 DEF Sure
  <2>4. ASSUME NEW q \in Pub, pub'[q].at = "global"
        PROVE  /\ pub'[q].ev \in 0 .. MaxSeq
               /\ pub'[q].ev # 0 => acks'[pub'[q].ev] = 0
               /\ \A o \in Pub : pub'[o].at = "global" /\ pub'[o].ev = pub'[q].ev /\ pub'[q].ev # 0
                                   => o = q
    <3>1. CASE q = p
      <4>1. pub'[q].ev = n BY <1>4, <3>1
      <4>2. \A o \in Pub : pub'[o].at = "global" /\ pub'[o].ev = n => o = q
        BY <2>3, <3>1
      <4> QED BY <2>2, <4>1, <4>2
    <3>2. CASE q # p
      <4>1. pub'[q] = pub[q] /\ pub[q].at = "global" /\ pub[q].ev # n BY <2>3, <2>4, <3>2
      <4>2. /\ pub[q].ev \in 0 .. MaxSeq
            /\ pub[q].ev # 0 => acks[pub[q].ev] = 0
            /\ \A o \in Pub : pub[o].at = "global" /\ pub[o].ev = pub[q].ev /\ pub[q].ev # 0
                                => o = q
        BY <4>1 DEF HubInv, Fresh
      <4>3. ASSUME NEW o \in Pub, pub'[o].at = "global", pub'[o].ev = pub'[q].ev, pub'[q].ev # 0
            PROVE  o = q
        <5>1. o # p BY <1>4, <4>1, <4>3
        <5>2. pub'[o] = pub[o] /\ pub[o].at = "global" BY <2>3, <4>3, <5>1
        <5> QED BY <4>1, <4>2, <4>3, <5>2
      <4> QED BY <4>1, <4>2, <4>3
    <3> QED BY <3>1, <3>2
  <2> QED BY <2>1, <2>4 DEF Fresh
<1>10. HistoryTypes' BY DEF HubInv, HistoryTypes
<1>11. HubTypeOK'
  <2>1. disk' \in Seq(Events) /\ history' \in Seq(Events)
    <3>1. disk' \in Seq(Number) /\ history' \in Seq(Number) BY <1>6 DEF LogOK
    <3>2. Number \subseteq Events BY <1>2
    <3>3. disk' \in Seq(Events) BY <3>1, <3>2
    <3>4. history' \in Seq(Events) BY <3>1, <3>2
    <3> QED BY <3>3, <3>4
  <2>2. lastSeq' \in 0 .. MaxSeq BY <1>1, EventHubAssumption DEF Number
  <2> QED BY <1>3, <1>4, <2>1, <2>2 DEF HubInv, HubTypeOK, PubType, Client
<1>12. Served' BY <1>3 DEF HubInv, Served, Subscriber
<1> QED BY <1>7, <1>8, <1>9, <1>10, <1>11, <1>12 DEF HubInv

(* hub.go, Publish: the number is spent; the event may be in the file.     *)
LEMMA HubNotPublished ==
    ASSUME HubInv, NEW p \in Pub, NEW n, n = lastSeq + 1,
           hub = "open", stream = "open", lastSeq < MaxSeq, lastSeq' = n,
           disk' = disk \/ disk' = Newest(Append(disk, n), MaxReplay),
           corrupt' \in BOOLEAN,
           pub' = [pub EXCEPT ![p].at = "failed"],
           UNCHANGED <<history, sub, stream, hub, received, evicted, acks>>
    PROVE  HubInv'
<1>1. /\ n \in Number /\ n \notin Sure /\ Greatest(disk) < n
      /\ \A e \in Elements(disk) : e < n
      /\ LogOK(disk) /\ LogOK(history) /\ Covers(disk, Sure) /\ Covers(history, Sure)
  BY NextNumber
<1>2. /\ Number \subseteq Nat /\ Number \subseteq Events /\ Sure \in SUBSET Number
      /\ pub \in PubType /\ sub \in [Subscriber -> Client] /\ Sub \subseteq Subscriber
      /\ Greatest(disk) \in Nat /\ n \in Nat
  BY <1>1, HubShapes DEF PubType
<1>3. pub' \in PubType /\ \A q \in Pub : PubKept(q) BY <1>2 DEF PubType, PubKept
<1>4. Sure' \subseteq Sure /\ Fresh' BY <1>3, PubQuiet
<1>5. /\ LogOK(disk') /\ Covers(disk', Sure') /\ Greatest(disk') \in {Greatest(disk), n}
  <2>1. CASE disk' = disk BY <1>1, <1>4, <2>1 DEF Covers
  <2>2. CASE disk' = Newest(Append(disk, n), MaxReplay)
    <3>1. Sure \in SUBSET Nat BY <1>2
    <3>2. LogOK(disk') /\ Greatest(disk') = n /\ Covers(disk', Sure \cup {n})
      BY <1>1, <2>2, <3>1, NewestOfAppend
    <3> QED BY <1>4, <3>2 DEF Covers
  <2> QED BY <2>1, <2>2
<1>6. /\ Greatest(disk') \in Nat /\ Greatest(disk) <= Greatest(disk') /\ Greatest(disk') <= n
  BY <1>1, <1>2, <1>5
<1>7. Logs'
  <2>1. Covers(history', Sure') BY <1>1, <1>4 DEF Covers
  <2>2. \A e \in Elements(history) \cup Sure : e \in Nat /\ e <= Greatest(disk)
    <3>1. \A e \in Elements(history) : e \in Nat
      <4> SUFFICES ASSUME NEW i \in 1 .. Len(history) PROVE history[i] \in Nat
        BY DEF Elements
      <4>1. history[i] \in Number BY <1>1 DEF LogOK
      <4> QED BY <1>2, <4>1
    <3> QED BY <1>2, <3>1 DEF HubInv, Logs
  <2>3. \A e \in Elements(history) \cup Sure : e <= Greatest(disk') BY <1>2, <1>6, <2>2
  <2>4. \A e \in Elements(history') \cup Sure' : e <= Greatest(disk') BY <1>4, <2>3
  <2> QED BY <1>1, <1>5, <1>6, <2>1, <2>4 DEF Logs
<1>8. Gapless'
  <2> SUFFICES ASSUME NEW s \in Sub
               PROVE  GapFree(sub[s], Sure', Greatest(disk'), Had(s))
    BY DEF Gapless, Had, Skipped
  <2>1. /\ sub[s] \in Client /\ Sure' \in SUBSET Number
        /\ GapFree(sub[s], Sure, Greatest(disk), Had(s))
        /\ \A e \in Sure' : e \in Sure \/ e > Greatest(disk)
    BY <1>2, <1>4 DEF HubInv, Gapless
  <2>2. PICK had : had = Had(s) OBVIOUS
  <2> QED BY <1>2, <1>4, <1>6, <2>1, <2>2, GapSent
<1>9. HistoryTypes' BY DEF HubInv, HistoryTypes
<1>10. HubTypeOK'
  <2>1. disk' \in Seq(Events) BY <1>2, <1>5 DEF LogOK
  <2>2. lastSeq' \in 0 .. MaxSeq BY <1>1, EventHubAssumption DEF Number
  <2> QED BY <1>3, <2>1, <2>2 DEF HubInv, HubTypeOK, PubType
<1>11. Served' BY DEF HubInv, Served
<1> QED BY <1>4, <1>7, <1>8, <1>9, <1>10, <1>11 DEF HubInv

(* hub.go, Publish, under stream.mu.                                       *)
LEMMA HubPublishLocked ==
    ASSUME HubInv, NEW p \in Pub, PublishLocked(p)
    PROVE  HubInv'
<1>0. UNCHANGED <<stream, hub, received, evicted, acks>> BY DEF PublishLocked
<1>1. CASE pub' = [pub EXCEPT ![p].at = "idle"] /\ UNCHANGED <<eventLog, sub>>
  <2>1. "idle" \in {"idle", "stream", "failed"} OBVIOUS
  <2> QED BY <1>0, <1>1, <2>1, HubPubStep
<1>2. CASE hub = "open" /\ stream = "open" /\ lastSeq < MaxSeq /\ lastSeq' = lastSeq + 1
  <2> DEFINE n == lastSeq + 1
  <2>1. CASE /\ Readable /\ Persisted(lastSeq') /\ UNCHANGED writeFaults
             /\ history' = Newest(Append(history, lastSeq'), MaxReplay)
             /\ pub' = [pub EXCEPT ![p] = [at |-> "global", ev |-> lastSeq']]
             /\ Broadcast(lastSeq', Sub)
    <3>1. /\ disk' = Newest(Append(disk, n), MaxReplay) /\ UNCHANGED corrupt
          /\ history' = Newest(Append(history, n), MaxReplay)
          /\ pub' = [pub EXCEPT ![p] = [at |-> "global", ev |-> n]]
          /\ Broadcast(n, Sub) /\ lastSeq' = n
      BY <1>2, <2>1 DEF Persisted
    <3>2. n = lastSeq + 1 OBVIOUS
    <3> HIDE DEF n
    <3> QED BY <1>0, <1>2, <3>1, <3>2, HubPublished
  <2>2. CASE /\ NotPersisted(lastSeq') /\ UNCHANGED <<history, sub>>
             /\ pub' = [pub EXCEPT ![p].at = "failed"]
    <3>1. /\ disk' = disk \/ disk' = Newest(Append(disk, n), MaxReplay)
          /\ corrupt' \in BOOLEAN /\ lastSeq' = n
      BY <1>2, <2>2 DEF NotPersisted, Persisted, HubInv, HubTypeOK
    <3>2. n = lastSeq + 1 OBVIOUS
    <3> HIDE DEF n
    <3> QED BY <1>0, <1>2, <2>2, <3>1, <3>2, HubNotPublished
  <2> QED BY <1>2, <2>1, <2>2 DEF PublishLocked
<1> QED BY <1>1, <1>2 DEF PublishLocked

(* The hub as it starts.                                                   *)
LEMMA HubStart == HubInit => HubInv
<1> SUFFICES ASSUME HubInit PROVE HubInv
  OBVIOUS
<1>0. /\ 0 \in Events /\ Number \subseteq Nat /\ 0 \in 0 .. MaxSeq /\ Capacity \in Nat
      /\ MaxReplay \in Nat
  BY EventHubAssumption DEF Events, Ephemeral, Overflow, Number, Capacity
<1>1. <<>> \in Seq(Events) /\ <<>> \in Seq(Number) /\ Len(<<>>) = 0 OBVIOUS
<1>2. HubTypeOK
  <2>1. sub \in [Subscriber -> [at : {"out", "stream", "live", "ended"},
                                queue : Seq(Events), seen : Events]]
    BY <1>0, <1>1 DEF HubInit
  <2>2. \A s \in Subscriber : Len(sub[s].queue) <= Capacity + 1
    <3>1. \A s \in Subscriber : sub[s].queue = <<>> BY DEF HubInit
    <3> QED BY <1>0, <1>1, <3>1
  <2> QED BY <1>0, <1>1, <2>1, <2>2 DEF HubInit, HubTypeOK, Ephemeral
<1>3. HistoryTypes BY DEF HubInit, HistoryTypes, Number
<1>4. Sure = {}
  <2> SUFFICES ASSUME NEW e \in Number PROVE e \notin Sure
    BY DEF Sure
  <2>1. acks[e] = 0 BY DEF HubInit, Number
  <2>2. \A p \in Pub : pub[p].at # "global" BY DEF HubInit
  <2> QED BY <2>1, <2>2 DEF Sure
<1>5. LogOK(<<>>) /\ Elements(<<>>) = {}
  <2>1. Ascending(<<>>) BY DEF Ascending
  <2>2. Elements(<<>>) = {} BY DEF Elements
  <2> QED BY <1>0, <1>1, <2>1, <2>2 DEF LogOK
<1>6. Logs BY <1>4, <1>5 DEF HubInit, Logs, Covers
<1>7. Served
  <2>1. \A s \in Subscriber : sub[s].at = "out" BY DEF HubInit
  <2> QED BY <2>1 DEF HubInit, Served, Subscriber
<1>8. Gapless
  <2> SUFFICES ASSUME NEW s \in Sub
               PROVE  GapFree(sub[s], Sure, Greatest(disk), Had(s))
    BY DEF Gapless
  <2>1. sub[s].at = "out" /\ sub[s].queue = <<>> /\ sub[s].seen = 0 BY DEF HubInit, Subscriber
  <2>2. Greatest(disk) = 0 BY DEF HubInit, Greatest
  <2>3. \A e \in Number : ~(e <= 0) BY DEF Number
  <2> QED BY <1>1, <1>4, <2>1, <2>2, <2>3 DEF GapFree
<1>9. Fresh
  <2>1. \A e \in 1 .. MaxSeq : acks[e] <= 1 BY DEF HubInit
  <2>2. \A p \in Pub : pub[p].at # "global" BY DEF HubInit
  <2> QED BY <2>1, <2>2 DEF Fresh, SequenceIsFresh
<1> QED BY <1>2, <1>3, <1>6, <1>7, <1>8, <1>9 DEF HubInv

(* The inductive invariant of the event hub: what the logs hold, who is    *)
(* served, and that no channel has a gap before anything it will deliver.  *)
THEOREM HubInvariant == HubSpec => []HubInv
<1>1. HubInit => HubInv BY HubStart
<1>2. HubInv /\ [HubNext]_hvars => HubInv'
  <2> SUFFICES ASSUME HubInv, [HubNext]_hvars PROVE HubInv'
    OBVIOUS
  <2>1. ASSUME NEW p \in Pub, Get(p) PROVE HubInv' BY <2>1, HubGet
  <2>2. ASSUME NEW p \in Pub, PublishLocked(p) PROVE HubInv' BY <2>2, HubPublishLocked
  <2>3. ASSUME NEW p \in Pub, PublishGlobal(p) PROVE HubInv' BY <2>3, HubPublishGlobal
  <2>4. ASSUME NEW p \in Pub, BroadcastEphemeral(p) PROVE HubInv'
    BY <2>4, HubBroadcastEphemeral
  <2>5. ASSUME NEW s \in Sub, SubscribeGet(s) PROVE HubInv' BY <2>5, HubSubscribeGet
  <2>6. ASSUME NEW s \in Sub, Subscribe(s) PROVE HubInv' BY <2>6, HubSubscribe
  <2>7. ASSUME NEW s \in GlobalSub, SubscribeGlobal(s) PROVE HubInv'
    BY <2>7, HubSubscribeGlobal
  <2>8. ASSUME NEW s \in Subscriber, Receive(s) PROVE HubInv' BY <2>8, HubReceive
  <2>9. ASSUME NEW s \in Subscriber, Leave(s) PROVE HubInv' BY <2>9, HubLeave
  <2>10. CASE Close \/ CloseStream \/ CloseGlobals BY <2>10, HubClose
  <2>11. CASE Restart BY <2>11, HubRestart
  <2>12. CASE UNCHANGED hvars
    BY <2>12 DEF hvars, eventLog, readerState, HubInv, HubTypeOK, HistoryTypes, Logs, Served,
                 Gapless, Had, Skipped, Fresh, SequenceIsFresh, Sure
  <2> QED BY <2>1, <2>2, <2>3, <2>4, <2>5, <2>6, <2>7, <2>8, <2>9, <2>10, <2>11, <2>12
          DEF HubNext
<1> QED BY <1>1, <1>2, PTL DEF HubSpec

(* hub.go: what the hub promises its clients, for any publishers and       *)
(* subscribers and any sizes of the buffers: a client that comes back      *)
(* misses no acknowledged event but the two an overflow notice it got      *)
(* leads past, no number is acknowledged twice, and Close leaves no        *)
(* channel open, over restarts, overflows, failed writes.                  *)
THEOREM HubKeepsPromises == HubSpec => []HubHolds
<1>1. HubInv => HubHolds
  <2> SUFFICES ASSUME HubInv PROVE HubHolds
    OBVIOUS
  <2>1. NoAckedGap
    <3> SUFFICES ASSUME NEW s \in Sub, NEW e \in 1 .. MaxSeq, acks[e] > 0, e <= sub[s].seen
                 PROVE  e \in Had(s)
      BY DEF NoAckedGap, Had
    <3>1. e \in Sure BY DEF Sure, Number
    <3> QED BY <3>1 DEF HubInv, Gapless, GapFree
  <2>2. CloseLeavesNobody BY DEF HubInv, Served, CloseLeavesNobody, Subscriber
  <2> QED BY <2>1, <2>2 DEF HubInv, Fresh, HubHolds
<1> QED BY <1>1, HubInvariant, PTL

-----------------------------------------------------------------------------
(* Lease.                                                                  *)

Live(t) == alive[ProcOf[t]]

(* A living task that is in the middle of a section has the lock.          *)
InSection == \A t \in Task :
    Live(t) /\ pc[t] \in {"writeLease", "writeGen", "tombstone", "remove"}
    => mutex = t

(* From the lease write to its removal a living session owns the file.     *)
Owns == \A s \in Session :
    Live(s) /\ pc[s] \in {"writeGen", "held", "releasing", "tombstone", "remove"}
    => lease.own = s /\ lease.gen = gen[s]

(* A lease is only replaced or removed by others when its owner is dead.   *)
Vacant == lease.own # None => ~Live(lease.own)
TakesVacant ==
    /\ \A s \in Session : Live(s) /\ pc[s] = "writeLease" => Vacant
    /\ \A t \in Scan : Live(t) /\ pc[t] \in {"tombstone", "remove"}
                       => Vacant /\ lease.own # None

(* The two files together remember the largest generation handed out: a    *)
(* lease is never behind the generation file, and is removed only when the *)
(* generation file has caught up.                                          *)
Remembered ==
    /\ \A g \in issued : g <= genFile \/ g <= lease.gen
    /\ lease.own # None => genFile <= lease.gen
    /\ lease.own = None => lease.gen = 0
    /\ \A t \in Task : Live(t) /\ pc[t] = "remove" => genFile = lease.gen
    /\ \A s \in Session : Live(s) /\ pc[s] = "writeLease"
                          => genFile < gen[s] /\ lease.gen < gen[s]

(* A generation about to be handed out is new.                             *)
AboveAll == \A s \in Session : Live(s) /\ pc[s] \in {"writeLease", "writeGen"}
                            => \A g \in issued : g < gen[s]

LeaseInv ==
    LeaseTypeOK /\ InSection /\ Owns /\ TakesVacant /\ Remembered /\ AboveAll /\ NeverFenced

(* No lease, no generation and every task idle: the invariant holds.       *)
LEMMA InitLease == LeaseInit => LeaseInv
<1> SUFFICES ASSUME LeaseInit PROVE LeaseInv
  OBVIOUS
<1> USE LeaseAssumption DEF LeaseInit, NoLease, Gens
<1>1. LeaseTypeOK BY DEF LeaseTypeOK, PCs, Results, Task
<1>2. InSection /\ Owns /\ TakesVacant BY DEF InSection, Owns, TakesVacant, Task
<1>3. Remembered /\ AboveAll /\ NeverFenced BY DEF Remembered, AboveAll, NeverFenced, Task
<1> QED BY <1>1, <1>2, <1>3 DEF LeaseInv

(* The generation Decide computes does not wrap.                           *)
LEMMA NextGen == ASSUME LeaseTypeOK, BaseGen # MaxGen
                 PROVE  /\ (BaseGen + 1) % (MaxGen + 1) = BaseGen + 1
                        /\ BaseGen + 1 \in Gens
                        /\ genFile <= BaseGen /\ lease.gen <= BaseGen
<1>1. BaseGen \in 0 .. MaxGen /\ genFile <= BaseGen /\ lease.gen <= BaseGen
  BY LeaseAssumption DEF BaseGen, LeaseTypeOK, Gens
<1>2. BaseGen + 1 \in 0 .. MaxGen BY <1>1, LeaseAssumption
<1>3. \A x \in 0 .. MaxGen : x % (MaxGen + 1) = x BY LeaseAssumption
<1> QED BY <1>1, <1>2, <1>3 DEF Gens

(* Every step keeps the types; a generation stays within its width.        *)
LEMMA LeaseNextType == LeaseTypeOK /\ [LeaseNext]_leaseVars => LeaseTypeOK'
<1> SUFFICES ASSUME LeaseTypeOK, [LeaseNext]_leaseVars PROVE LeaseTypeOK'
  OBVIOUS
<1> USE LeaseAssumption DEF LeaseTypeOK, PCs, Results, Task, Goto, Report, Finish, At
<1>1. ASSUME NEW s \in Session, StartAcquire(s) PROVE LeaseTypeOK'
  BY <1>1 DEF StartAcquire
<1>2. ASSUME NEW s \in Session, Decide(s) PROVE LeaseTypeOK'
  BY <1>2, NextGen DEF Decide, Refusal
<1>3. ASSUME NEW s \in Session, WriteLease(s) PROVE LeaseTypeOK'
  BY <1>3 DEF FailedWrite, WriteLease
<1>4. ASSUME NEW s \in Session, WriteGen(s) PROVE LeaseTypeOK'
  BY <1>4 DEF FailedWrite, WriteGen
<1>5. ASSUME NEW s \in Session, StartRelease(s) \/ CompareOwner(s) PROVE LeaseTypeOK'
  BY <1>5 DEF StartRelease, CompareOwner
<1>6. ASSUME NEW t \in Task, Tombstone(t) \/ RemoveLease(t) PROVE LeaseTypeOK'
  <2>1. CASE Tombstone(t) BY <2>1 DEF FailedWrite, Tombstone
  <2>2. CASE RemoveLease(t)
    <3>1. NoLease \in [own : Session \cup {None}, gen : Gens, exp : Nat]
      BY DEF NoLease, Gens
    <3> QED BY <2>2, <3>1 DEF RemoveLease
  <2> QED BY <1>6, <2>1, <2>2
<1>7. ASSUME NEW t \in Task, ScanLease(t) \/ LockTimeout(t) PROVE LeaseTypeOK'
  BY <1>7 DEF ScanLease, LockTimeout
<1>8. ASSUME Tick PROVE LeaseTypeOK'
  BY <1>8 DEF Tick
<1>9. ASSUME NEW p \in Proc, Exit(p) PROVE LeaseTypeOK'
  BY <1>9 DEF Exit
<1>10. CASE UNCHANGED leaseVars
  BY <1>10 DEF leaseVars
<1> QED BY <1>1, <1>2, <1>3, <1>4, <1>5, <1>6, <1>7, <1>8, <1>9, <1>10
        DEF LeaseNext, SessionStep, Work

(* An answer "dead" about a process of the same runtime is true.           *)
LEMMA DeadIsDead ==
    ASSUME LeaseTypeOK, NEW t \in Task, NEW p \in Proc,
           RuntimeOf[p] = RuntimeOf[ProcOf[t]], FALSE \in LivenessAnswers(t, p)
    PROVE  ~alive[p]
  BY DEF LivenessAnswers, LeaseTypeOK

(* Every step of Acquire, Release, the reclaim scan, a death or a tick     *)
(* preserves the invariant.                                                *)
LEMMA LeaseNextInv == LeaseInv /\ [LeaseNext]_leaseVars => LeaseInv'
<1> SUFFICES ASSUME LeaseInv, [LeaseNext]_leaseVars PROVE LeaseInv'
  OBVIOUS
<1>0. LeaseTypeOK /\ LeaseTypeOK'
  BY LeaseNextType DEF LeaseInv
<1> USE LeaseAssumption, <1>0 DEF LeaseInv, LeaseTypeOK, Task, Goto, Report, Finish, At, Live
<1> DEFINE Rest == InSection /\ Owns /\ TakesVacant /\ Remembered /\ AboveAll /\ NeverFenced
<1>1. ASSUME NEW s \in Session, StartAcquire(s) PROVE Rest'
  BY <1>1 DEF StartAcquire, InSection, Owns, TakesVacant, Vacant, Remembered, AboveAll, NeverFenced
<1>2. ASSUME NEW s \in Session, Decide(s) PROVE Rest'
  <2>1. PICK says \in IF lease.own = None THEN {FALSE}
                      ELSE LivenessAnswers(s, ProcOf[lease.own]) :
          \/ mutex' = None /\ pc' = [pc EXCEPT ![s] = "done"] /\ gen' = gen
          \/ /\ CanAcquire(s, says) /\ BaseGen # MaxGen /\ mutex' = s
             /\ gen' = [gen EXCEPT ![s] = (BaseGen + 1) % (MaxGen + 1)]
             /\ pc' = [pc EXCEPT ![s] = "writeLease"]
    BY <1>2 DEF Decide
  <2>2. CASE pc' = [pc EXCEPT ![s] = "done"] /\ gen' = gen /\ mutex' = None
    BY <1>2, <2>2 DEF Decide, Refusal, LockFree, InSection, Owns, TakesVacant, Vacant,
        Remembered, AboveAll, NeverFenced
  <2>3. CASE /\ CanAcquire(s, says) /\ BaseGen # MaxGen /\ mutex' = s
             /\ gen' = [gen EXCEPT ![s] = (BaseGen + 1) % (MaxGen + 1)]
             /\ pc' = [pc EXCEPT ![s] = "writeLease"]
    <3>1. gen'[s] = BaseGen + 1 /\ genFile < gen'[s] /\ lease.gen < gen'[s]
      <4>1. BaseGen \in Nat /\ gen'[s] = BaseGen + 1 BY <2>3, NextGen DEF Gens, BaseGen
      <4> QED BY <4>1, <2>3, NextGen DEF Gens
    <3>2. Vacant
      <4> SUFFICES ASSUME lease.own # None PROVE ~alive[ProcOf[lease.own]]
        BY DEF Vacant
      <4>1. lease.own \in Session /\ ProcOf[lease.own] \in Proc OBVIOUS
      <4>2. says \in LivenessAnswers(s, ProcOf[lease.own]) BY <2>1
      <4>3. says = FALSE /\ RuntimeOf[ProcOf[lease.own]] = RuntimeOf[ProcOf[s]]
        BY <2>3, <4>2 DEF CanAcquire, LivenessAnswers
      <4> QED BY <4>1, <4>2, <4>3, DeadIsDead
    <3>3. \A t \in Task : t # s /\ Live(t) => pc[t] \notin {"writeLease", "writeGen", "tombstone", "remove"}
      BY <1>2 DEF Decide, LockFree, InSection
    <3> QED BY <1>2, <2>3, <3>1, <3>2, <3>3 DEF Decide, InSection, Owns, TakesVacant, Vacant,
                Remembered, AboveAll, NeverFenced, Gens
  <2> QED BY <2>1, <2>2, <2>3
<1>3. ASSUME NEW s \in Session, WriteLease(s) PROVE Rest'
  <2>1. \A t \in Task : t # s /\ Live(t) => pc[t] \notin {"writeLease", "writeGen", "tombstone", "remove"}
    BY <1>3 DEF FailedWrite, WriteLease, InSection
  <2>2. \A t \in Session : Live(t) => pc[t] \notin {"held", "releasing"}
    BY <1>3 DEF FailedWrite, WriteLease, Owns, TakesVacant, Vacant
  <2> QED BY <1>3, <2>1, <2>2 DEF FailedWrite, WriteLease, InSection, Owns, TakesVacant, Vacant,
              Remembered, AboveAll, NeverFenced, Gens
<1>4. ASSUME NEW s \in Session, WriteGen(s) PROVE Rest'
  <2>1. \A t \in Task : t # s /\ Live(t) => pc[t] \notin {"writeLease", "writeGen", "tombstone", "remove"}
    BY <1>4 DEF FailedWrite, WriteGen, InSection
  <2> QED BY <1>4, <2>1 DEF FailedWrite, WriteGen, InSection, Owns, TakesVacant, Vacant,
              Remembered, AboveAll, NeverFenced, Gens
<1>5. ASSUME NEW s \in Session, StartRelease(s) \/ CompareOwner(s) PROVE Rest'
  BY <1>5 DEF StartRelease, CompareOwner, LockFree, InSection, Owns, TakesVacant, Vacant,
      Remembered, AboveAll, NeverFenced
<1>6. ASSUME NEW t \in Task, Tombstone(t) \/ RemoveLease(t) PROVE Rest'
  <2>1. \A u \in Task : u # t /\ Live(u) => pc[u] \notin {"writeLease", "writeGen", "tombstone", "remove"}
    BY <1>6 DEF FailedWrite, Tombstone, RemoveLease, InSection
  <2>2. lease.own # None /\ \A s \in Session : s # t /\ Live(s) => pc[s] \notin {"held", "releasing"}
    BY <1>6 DEF FailedWrite, Tombstone, RemoveLease, Owns, TakesVacant, Vacant
  <2>3. CASE Tombstone(t)
    BY <2>1, <2>2, <2>3 DEF FailedWrite, Tombstone, InSection, Owns, TakesVacant, Vacant,
        Remembered, AboveAll, NeverFenced, Gens
  <2>4. CASE RemoveLease(t)
    BY <2>1, <2>2, <2>4 DEF RemoveLease, NoLease, InSection, Owns, TakesVacant, Vacant, Remembered,
        AboveAll, NeverFenced, Gens
  <2> QED BY <1>6, <2>3, <2>4
<1>7. ASSUME NEW t \in Task, ScanLease(t) PROVE Rest'
  <2>1. \A u \in Task : u # t /\ Live(u) => pc[u] \notin {"writeLease", "writeGen", "tombstone", "remove"}
    BY <1>7 DEF ScanLease, LockFree, InSection
  <2>2. pc'[t] = "tombstone" => lease.own # None /\ Vacant
    <3> SUFFICES ASSUME pc'[t] = "tombstone"
                 PROVE  lease.own # None /\ ~alive[ProcOf[lease.own]]
      BY DEF Vacant
    <3>1. lease.own # None BY <1>7 DEF ScanLease
    <3>2. PICK says \in LivenessAnswers(t, ProcOf[lease.own]) : Reclaimable(t, says)
      BY <1>7 DEF ScanLease
    <3>3. says = FALSE /\ RuntimeOf[ProcOf[lease.own]] = RuntimeOf[ProcOf[t]]
      BY <3>2 DEF Reclaimable, LivenessAnswers
    <3> QED BY <3>1, <3>2, <3>3, DeadIsDead
  <2> QED BY <1>7, <2>1, <2>2 DEF ScanLease, InSection, Owns, TakesVacant, Vacant, Remembered,
              AboveAll, NeverFenced
<1>8. ASSUME NEW t \in Task, LockTimeout(t) PROVE Rest'
  BY <1>8 DEF LockTimeout, InSection, Owns, TakesVacant, Vacant, Remembered, AboveAll, NeverFenced
<1>9. ASSUME Tick PROVE Rest'
  BY <1>9 DEF Tick, InSection, Owns, TakesVacant, Vacant, Remembered, AboveAll, NeverFenced
<1>10. ASSUME NEW p \in Proc, Exit(p) PROVE Rest'
  BY <1>10 DEF Exit, InSection, Owns, TakesVacant, Vacant, Remembered, AboveAll, NeverFenced
<1>11. ASSUME UNCHANGED leaseVars PROVE Rest'
  BY <1>11 DEF leaseVars, InSection, Owns, TakesVacant, Vacant, Remembered, AboveAll, NeverFenced
<1>12. Rest'
  BY <1>1, <1>2, <1>3, <1>4, <1>5, <1>6, <1>7, <1>8, <1>9, <1>10, <1>11
     DEF LeaseNext, SessionStep, Work
<1> QED BY <1>0, <1>12

(* manager.go:52-264, reclaim.go: what every reachable state satisfies;    *)
(* the theorems below are its consequences.                                *)
THEOREM LeaseInvariant == LeaseSpec => []LeaseInv
  BY InitLease, LeaseNextInv, PTL DEF LeaseSpec

(* manager.go, reclaim.go: the files and the calls stay well formed.       *)
THEOREM LeaseTypeCorrect == LeaseSpec => []LeaseTypeOK
<1>1. LeaseInv => LeaseTypeOK BY DEF LeaseInv
<1> QED BY <1>1, LeaseInvariant, PTL

(* manager.go:374-395, reclaim.go:64-82: no living holder loses its lease, *)
(* so at most one living process holds it.                                 *)
THEOREM LeaseHolderKeepsLease == LeaseSpec => []HolderKeepsLease
<1>1. LeaseInv => HolderKeepsLease BY DEF LeaseInv, Owns, HolderKeepsLease, Live
<1> QED BY <1>1, LeaseInvariant, PTL

(* manager.go:227-229: the owner is never told of a fencing violation.     *)
THEOREM LeaseNeverFenced == LeaseSpec => []NeverFenced
<1>1. LeaseInv => NeverFenced BY DEF LeaseInv
<1> QED BY <1>1, LeaseInvariant, PTL

(* manager.go:187-194, 231-236 and reclaim.go:76-80: fencing generations   *)
(* strictly increase, for every counter width and every crash point.       *)
THEOREM LeaseGenerationsIncrease == LeaseSpec => GenerationsIncrease
<1> DEFINE Grows == \A g \in issued' \ issued : \A old \in issued : g > old
<1>1. LeaseInv /\ [LeaseNext]_leaseVars => [Grows]_leaseVars
  <2> SUFFICES ASSUME LeaseInv, LeaseNext PROVE Grows
    OBVIOUS
  <2>1. ASSUME NEW s \in Session, WriteGen(s) PROVE Grows
    BY <2>1, LeaseAssumption DEF FailedWrite, WriteGen, LeaseInv, LeaseTypeOK, AboveAll, At, Live, Gens
  <2>2. ASSUME issued' = issued PROVE Grows
    BY <2>2
  <2> QED BY <2>1, <2>2 DEF LeaseNext, SessionStep, Work, StartAcquire, Decide,
             WriteLease, StartRelease, CompareOwner, Tombstone, RemoveLease, FailedWrite,
             ScanLease, LockTimeout, Tick, Exit
<1> QED BY <1>1, LeaseInvariant, PTL DEF GenerationsIncrease, LeaseSpec
=============================================================================
