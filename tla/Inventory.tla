------------------------------ MODULE Inventory ------------------------------
(***************************************************************************)
(* The trusted inventory: the operator's registry of hosts and the index   *)
(* of the machines last seen on them (internal/app/trusted_inventory.go,   *)
(* trusted_aliases.go), and its refreshes (trusted_refresh.go): the fleet  *)
(* refresh with its feeder, its workers and its two channels, and the      *)
(* local refresh of a target request (target_observe.go).                  *)
(*                                                                         *)
(* A machine is named by its host and its VM id; what a host lists is a    *)
(* display name per VM id.  A query is answered, denied, lost, or answered *)
(* with a listing the index refuses.                                       *)
(***************************************************************************)
EXTENDS Naturals, Sequences, FiniteSets

CONSTANTS HostOrder,   \* every host there may be, in the order of Hosts(): local first
          VM, Name, Unlisted,
          Worker, Caller,
          MaxRounds, MaxCalls, MaxEdits   \* bounds: refreshes, requests, registry and alias edits

Host == {HostOrder[i] : i \in DOMAIN HostOrder}
LocalHostID == HostOrder[1]

ASSUME InventoryConstants ==
    /\ HostOrder \in Seq(Host) /\ HostOrder # << >>
    /\ Unlisted \notin Name /\ IsFiniteSet(VM)
    /\ IsFiniteSet(Worker) /\ Worker # {}

VARIABLES hosts,     \* the registry: per host "absent", "disabled" or "enabled"
          index,     \* per host and VM id: last status and display name
          aliases,   \* per host and VM id: the exact aliases
          last,      \* history: per host, the listing last applied, or what failed
          phase, ctx, \* the fleet refresh: where it is, whether its context has ended
          disabled,  \* the indices of the disabled hosts it has still to mark stale
          targets,   \* the hosts it refreshes, in order
          feeder, next, \* its feeder goroutine, and the next index
          worker,    \* per worker: Idle, Exited, or the index it queries
          results,   \* what the results channel holds
          shut,    \* is the results channel closed?
          lost,      \* history: was anything sent on the closed channel?
          call,      \* per caller: the snapshot of its local refresh, if it has one
          rounds, asked, edits

refresh == <<phase, ctx, disabled, targets, feeder, next, worker, results, shut, lost>>
ivars == <<hosts, index, aliases, last, refresh, call, rounds, asked, edits>>

Idle == 0
Exited == Len(HostOrder) + 1
EntryStatus == {"absent", "observed", "stale", "host_unavailable", "access_denied"}
Listing == [VM -> Name \cup {Unlisted}]
Nothing == [v \in VM |-> Unlisted]
Entry == Host \X VM

\* The outcomes of a query: classifyRefreshHealth, and a listing that
\* buildObservedEntries refuses (two machines with one VM id).
Snapshot == [health : {"observed"}, list : Listing]
              \cup [health : {"host_unavailable", "access_denied", "refused"}, list : {Nothing}]
Unavailable == [health |-> "host_unavailable", list |-> Nothing]

InventoryTypeOK ==
    /\ hosts \in [Host -> {"absent", "disabled", "enabled"}]
    /\ index \in [Entry -> [status : EntryStatus, name : Name \cup {Unlisted}]]
    /\ aliases \in [Entry -> SUBSET Name]
    /\ phase \in {"idle", "stale", "query", "apply"} /\ ctx \in {"live", "ended"}
    /\ disabled \subseteq DOMAIN HostOrder
    /\ feeder \in {"off", "check", "select", "fill"} /\ next \in Nat
    /\ worker \in [Worker -> Idle .. Exited]

InventoryInit ==
    \* the operator's configuration; withAutomaticLocalHost adds the local host
    /\ hosts \in {f \in [Host -> {"absent", "disabled", "enabled"}] : f[LocalHostID] # "absent"}
    /\ index = [e \in Entry |-> [status |-> "absent", name |-> Unlisted]]
    /\ aliases = [e \in Entry |-> {}]
    /\ last = [h \in Host |-> Unavailable]
    /\ phase = "idle" /\ ctx = "live" /\ disabled = {} /\ targets = <<>>
    /\ feeder = "off" /\ next = 1 /\ worker = [w \in Worker |-> Exited]
    /\ results = {} /\ shut = TRUE /\ lost = FALSE
    /\ call = [c \in Caller |-> {}]
    /\ rounds = 0 /\ asked = 0 /\ edits = 0

-----------------------------------------------------------------------------
(* The registry and the index, each operation under the inventory's lock.  *)

\* ReplaceHosts: the machines of a host that leaves the registry stay indexed.
ReplaceHosts ==
    /\ edits < MaxEdits /\ edits' = edits + 1
    /\ hosts' \in [Host -> {"absent", "disabled", "enabled"}]
    /\ hosts'[LocalHostID] # "absent" /\ hosts' # hosts
    /\ UNCHANGED <<index, aliases, last, refresh, call, rounds, asked>>

\* SetMachineAliases: an alias is nobody else's display name or alias.
SetMachineAliases(e, n) ==
    /\ edits < MaxEdits /\ edits' = edits + 1
    /\ index[e].status # "absent"
    /\ \A o \in Entry \ {e} : index[o].name # n /\ n \notin aliases[o]
    /\ aliases' = [aliases EXCEPT ![e] = {n}]
    /\ UNCHANGED <<hosts, index, last, refresh, call, rounds, asked>>

\* applyObservedSnapshot and applyHostStatus.  A machine its host no longer
\* lists becomes stale; what a host last listed survives its failures.
Merged(e, snap) ==
    LET known == index[e].status # "absent" listed == snap.list[e[2]] IN
    CASE snap.health = "observed" /\ listed # Unlisted -> [status |-> "observed", name |-> listed]
      [] snap.health = "observed" /\ listed = Unlisted /\ known -> [index[e] EXCEPT !.status = "stale"]
      [] snap.health # "observed" /\ known -> [index[e] EXCEPT !.status = snap.health]
      [] OTHER -> index[e]

Applicable(h, snap) == hosts[h] # "absent" /\ snap.health # "refused"
ApplySnapshot(h, snap) ==
    /\ index' = [e \in Entry |-> IF e[1] = h THEN Merged(e, snap) ELSE index[e]]
    /\ last' = [last EXCEPT ![h] = snap]

\* The references of ResolveMachine (a canonical locator, a GUID, a display
\* name or an alias) and of ResolveSingleLocal, and what each is compared with.
Reference == [kind : {"locator"}, of : Entry] \cup [kind : {"guid"}, of : VM]
               \cup [kind : {"name"}, of : Name] \cup [kind : {"single"}, of : {LocalHostID}]
Names(ref, e, called) ==
    \/ ref.kind = "locator" /\ e = ref.of
    \/ ref.kind = "guid" /\ e[2] = ref.of
    \/ ref.kind = "name" /\ ref.of \in called
    \/ ref.kind = "single" /\ e[1] = ref.of

\* selectOne over the entries a reference matches: two matches are ambiguous,
\* whatever their status; a single one must be current on an enabled host.
Matching(ref) ==
    {e \in Entry : index[e].status # "absent" /\ Names(ref, e, {index[e].name} \cup aliases[e])}
ResolvedAmongCurrent(ref) ==
    LET current == {e \in Matching(ref) : hosts[e[1]] = "enabled" /\ index[e].status = "observed"}
    IN {e \in current : Cardinality(current) = 1}
Resolved(ref) ==
    {e \in Matching(ref) : /\ Cardinality(Matching(ref)) = 1
                           /\ hosts[e[1]] = "enabled" /\ index[e].status = "observed"}

-----------------------------------------------------------------------------
(* RefreshTrustedInventory.                                                *)

\* The k-th enabled host is the enabled one that has k enabled up to it.
EnabledUpTo(i) == Cardinality({j \in 1..i : hosts[HostOrder[j]] = "enabled"})
EnabledHosts == [k \in 1..EnabledUpTo(Len(HostOrder)) |->
    HostOrder[CHOOSE i \in DOMAIN HostOrder :
                 hosts[HostOrder[i]] = "enabled" /\ EnabledUpTo(i) = k]]
Stale == [health |-> "stale", list |-> Nothing]
Return == phase' = "idle" /\ next' = 1 /\ ctx' = "live" /\ targets' = <<>> /\ results' = {}

\* applyDisabledHosts looks at the registry once, then marks the machines of
\* its disabled hosts stale, one lock each; one that has left the registry by
\* then ends the refresh.
Begin ==
    /\ phase = "idle" /\ rounds < MaxRounds /\ rounds' = rounds + 1
    /\ phase' = "stale" /\ targets' = EnabledHosts
    /\ disabled' = {i \in DOMAIN HostOrder : hosts[HostOrder[i]] = "disabled"}
    /\ UNCHANGED <<hosts, index, aliases, last, ctx, feeder, next, worker, results, shut, lost,
                   call, asked, edits>>

ApplyDisabled ==
    /\ phase = "stale"
    /\ \E i \in disabled :
         /\ \A j \in disabled : i <= j
         /\ \/ /\ Applicable(HostOrder[i], Stale) /\ ApplySnapshot(HostOrder[i], Stale)
               /\ disabled' = disabled \ {i} /\ UNCHANGED <<phase, ctx, targets, next, results>>
            \/ /\ ~Applicable(HostOrder[i], Stale)
               /\ Return /\ disabled' = {} /\ UNCHANGED <<index, last>>
    /\ UNCHANGED <<hosts, aliases, feeder, worker, shut, lost, call, rounds, asked, edits>>

\* refreshEnabledHosts: min(concurrency, len(hosts)) workers and the feeder,
\* which has nothing to do without a host.
StartQueries ==
    /\ phase = "stale" /\ disabled = {}
    /\ phase' = "query" /\ shut' = FALSE
    /\ feeder' = IF targets = <<>> THEN "off" ELSE "check"
    /\ worker' \in {f \in [Worker -> {Idle, Exited}] :
                      LET n == Cardinality({w \in Worker : f[w] = Idle})
                          c == Cardinality(Worker) k == Len(targets)
                      IN n = IF c < k THEN c ELSE k}
    /\ UNCHANGED <<hosts, index, aliases, last, ctx, disabled, targets, next, results, lost,
                   call, rounds, asked, edits>>

\* Once the queries are over the context only decides what the refresh returns.
ContextEnds ==
    /\ phase \in {"stale", "query"} /\ ctx = "live" /\ ctx' = "ended"
    /\ UNCHANGED <<hosts, index, aliases, last, phase, disabled, targets, feeder, next, worker,
                   results, shut, lost, call, rounds, asked, edits>>

\* A send: the buffer has a place per host; a closed channel panics.
SendShort(i, snap) ==
    /\ Cardinality(results) + 1 < Len(targets)
    /\ results' = results \cup {[index |-> i, snap |-> snap]}
    /\ lost' = (lost \/ shut)
Send(i, snap) ==
    /\ Cardinality(results) < Len(targets)
    /\ results' = results \cup {[index |-> i, snap |-> snap]}
    /\ lost' = (lost \/ shut)

\* The feeder: it looks at the context, then offers the next index while the
\* context lives.
FeederCheck ==
    /\ feeder = "check"
    /\ feeder' = IF next > Len(targets) THEN "off" ELSE IF ctx = "ended" THEN "fill" ELSE "select"
    /\ UNCHANGED <<hosts, index, aliases, last, phase, ctx, disabled, targets, next, worker, results,
                   shut, lost, call, rounds, asked, edits>>

FeederSelect ==
    /\ feeder = "select"
    /\ \/ ctx = "ended" /\ feeder' = "fill" /\ UNCHANGED <<next, worker>>
       \/ \E w \in Worker :
            /\ worker[w] = Idle /\ worker' = [worker EXCEPT ![w] = next]
            /\ next' = next + 1 /\ feeder' = "check"
    /\ UNCHANGED <<hosts, index, aliases, last, phase, ctx, disabled, targets, results, shut, lost,
                   call, rounds, asked, edits>>

\* fillUnavailableSnapshots, then the deferred close(jobs).
FeederFillForgetsLast ==
    /\ feeder = "fill"
    /\ \/ /\ next < Len(targets) /\ Send(next, Unavailable) /\ next' = next + 1
          /\ UNCHANGED feeder
       \/ next >= Len(targets) /\ feeder' = "off" /\ UNCHANGED <<next, results, lost>>
    /\ UNCHANGED <<hosts, index, aliases, last, phase, ctx, disabled, targets, worker, shut, call,
                   rounds, asked, edits>>
FeederFill ==
    /\ feeder = "fill"
    /\ \/ /\ next <= Len(targets) /\ Send(next, Unavailable) /\ next' = next + 1
          /\ UNCHANGED feeder
       \/ next > Len(targets) /\ feeder' = "off" /\ UNCHANGED <<next, results, lost>>
    /\ UNCHANGED <<hosts, index, aliases, last, phase, ctx, disabled, targets, worker, shut, call,
                   rounds, asked, edits>>

\* refreshOneHost: a context that has ended by the answer makes it unavailable.
WorkerAnswers(w) ==
    /\ worker[w] \in DOMAIN targets
    /\ \E snap \in Snapshot :
         /\ ctx = "ended" => snap = Unavailable
         /\ Send(worker[w], snap)
    /\ worker' = [worker EXCEPT ![w] = Idle]
    /\ UNCHANGED <<hosts, index, aliases, last, phase, ctx, disabled, targets, feeder, next, shut,
                   call, rounds, asked, edits>>

\* range over jobs ends when the feeder has closed it.
WorkerExits(w) ==
    /\ worker[w] = Idle /\ feeder = "off" /\ worker' = [worker EXCEPT ![w] = Exited]
    /\ UNCHANGED <<hosts, index, aliases, last, phase, ctx, disabled, targets, feeder, next, results,
                   shut, lost, call, rounds, asked, edits>>

\* wg.Wait, close(results); the results are put in the order of the hosts.
Collect ==
    /\ phase = "query" /\ \A w \in Worker : worker[w] = Exited
    /\ phase' = "apply" /\ shut' = TRUE /\ next' = 1
    /\ UNCHANGED <<hosts, index, aliases, last, ctx, disabled, targets, feeder, worker, results,
                   lost, call, rounds, asked, edits>>

\* applyRefreshResults: in order, one lock each; a host without a result is
\* passed over; the first refused snapshot ends the refresh.
ResultsFor(i) == {r.snap : r \in {x \in results : x.index = i}}
GoOn == next' = next + 1 /\ UNCHANGED <<phase, ctx, targets, results>>
ApplyResult ==
    /\ phase = "apply"
    /\ \/ next > Len(targets) /\ Return /\ UNCHANGED <<index, last>>
       \/ next <= Len(targets) /\ ResultsFor(next) = {} /\ GoOn /\ UNCHANGED <<index, last>>
       \/ /\ next <= Len(targets)
          /\ \E snap \in ResultsFor(next) :
               \/ /\ Applicable(targets[next], snap) /\ ApplySnapshot(targets[next], snap) /\ GoOn
               \/ ~Applicable(targets[next], snap) /\ Return /\ UNCHANGED <<index, last>>
    /\ UNCHANGED <<hosts, aliases, disabled, feeder, worker, shut, lost, call, rounds, asked, edits>>

-----------------------------------------------------------------------------
(* A target request: RefreshLocalTrustedInventory, then ResolveMachine.    *)

RefreshLocal(c) ==
    /\ call[c] = {} /\ asked < MaxCalls /\ asked' = asked + 1
    /\ hosts[LocalHostID] = "enabled"
    /\ \E snap \in Snapshot : call' = [call EXCEPT ![c] = {snap}]
    /\ UNCHANGED <<hosts, index, aliases, last, refresh, rounds, edits>>

ApplyLocal(c) ==
    /\ call' = [call EXCEPT ![c] = {}]
    /\ \E snap \in call[c] :
         \/ Applicable(LocalHostID, snap) /\ ApplySnapshot(LocalHostID, snap)
         \/ ~Applicable(LocalHostID, snap) /\ UNCHANGED <<index, last>>
    /\ UNCHANGED <<hosts, aliases, refresh, rounds, asked, edits>>

FleetStep ==
    \/ ApplyDisabled \/ StartQueries \/ Collect \/ ApplyResult
    \/ FeederCheck \/ FeederSelect \/ FeederFill
    \/ \E w \in Worker : WorkerAnswers(w) \/ WorkerExits(w)
InventoryNext ==
    \/ Begin \/ ContextEnds \/ ReplaceHosts \/ FleetStep
    \/ \E e \in Entry, n \in Name : SetMachineAliases(e, n)
    \/ \E c \in Caller : RefreshLocal(c) \/ ApplyLocal(c)

InventorySpec == InventoryInit /\ [][InventoryNext]_ivars

-----------------------------------------------------------------------------

(* When the queries of a fleet refresh are over every enabled host has     *)
(* exactly one result, its own, and nothing was sent on the closed channel *)
(* (refreshEnabledHosts), whenever its context ends.                       *)
EveryHostAnswers ==
    /\ ~lost
    /\ phase = "apply" =>
         /\ Cardinality(results) = Len(targets)
         /\ \A i \in DOMAIN targets : Cardinality(ResultsFor(i)) = 1

(* Does the listing applied last for e's host show it under the reference? *)
ListedAs(ref, e) ==
    LET listed == last[e[1]].list[e[2]] IN listed # Unlisted /\ Names(ref, e, {listed})

(* A reference (locator, GUID, name, or "the one local machine") resolves  *)
(* only to a machine that its host, enabled, listed in the snapshot        *)
(* applied last, as what the reference says or with it as an alias, and    *)
(* never while a listing shows another machine as the same (ResolveMachine,*)
(* ResolveSingleLocal).                                                    *)
ResolvedIsListed ==
    \A ref \in Reference : \A e \in Resolved(ref) :
        /\ hosts[e[1]] = "enabled"
        /\ last[e[1]].health = "observed" /\ last[e[1]].list[e[2]] # Unlisted
        /\ ListedAs(ref, e) \/ (ref.kind = "name" /\ ref.of \in aliases[e])
        /\ \A o \in Entry \ {e} : ~ListedAs(ref, o)

(* A fleet refresh that has not returned has a goroutine that can run: the *)
(* feeder, its workers and the collector never all wait for each other,    *)
(* however the context, the queries and the other callers behave.          *)
RefreshNeverStuck == phase # "idle" => ENABLED FleetStep

(* What the inventory promises its callers: complete refreshes, and        *)
(* references that resolve to what was listed.                             *)
InventoryHolds == InventoryTypeOK /\ EveryHostAnswers /\ ResolvedIsListed
=============================================================================
