--------------------------- MODULE SessionMutation --------------------------
(***************************************************************************)
(* How a session mutation (open, write, control, close) is made to happen  *)
(* at most once: internal/app/session_coordination.go, session_retry.go,   *)
(* session_finalization_reconcile.go, session_receipt.go and the durable   *)
(* journal of internal/sessions (mutation_journal.go,                      *)
(* mutation_finalization.go).                                              *)
(*                                                                         *)
(* A call is one invocation of coordinateSessionMutation in the one daemon *)
(* the singleton lock allows.  Calls of one flight (actor, target and key) *)
(* share one execution; the journal and the receipts are keyed by the      *)
(* idempotency key alone, so calls of different flights can meet there.    *)
(* The daemon may die between any two steps and is then restarted; the     *)
(* startup reconciliation finishes what the journal holds.  A write may    *)
(* fail before it has taken effect, or after (a failed directory sync).    *)
(* The class of the operation is not kept in a record: every lookup tries  *)
(* both classes (lookupMutationReservation).                               *)
(***************************************************************************)
EXTENDS Naturals, FiniteSets

CONSTANTS Call, Op, Key, Flight, Machine,
          OpOf,        \* the operation a call asks for
          AuthsOf,     \* the approvals a call may present
          KindOf, KeyOf, FlightOf, MachineOf,   \* of an operation
          Impatient,   \* calls whose context may end
          MaxCrashes, MaxFaults,
          None

ASSUME SessionMutationAssumption ==
    /\ OpOf \in [Call -> Op]
    /\ AuthsOf \in [Call -> SUBSET {"none", "valid", "invalid"}]
    /\ KindOf \in [Op -> {"open", "write", "control", "close"}]
    /\ KeyOf \in [Op -> Key]
    /\ FlightOf \in [Op -> Flight]
    /\ MachineOf \in [Op -> Machine]
    /\ \A o, p \in Op : FlightOf[o] = FlightOf[p] => KeyOf[o] = KeyOf[p]
    /\ Impatient \subseteq Call
    /\ MaxCrashes \in Nat /\ MaxFaults \in Nat
    /\ None \notin Call

VARIABLES journal,    \* per key: None or a reservation
          receipts,   \* durable receipts
          audited,    \* receipts with a terminal outcome in the audit log
          consumed,   \* operations whose approval is consumed
          lease,      \* per machine: the call that holds the lease, or None
          flight,     \* per flight: the leading call, or None
          pc, ended,  \* where a call is; has its context ended?
          lead,       \* the call a waiting call waits for
          auth,       \* the approval a call presents
          needs,      \* calls whose effective class requires approval
          plan,       \* the receipt a call is persisting, or None
          reply,      \* what a call answered, or None
          effects,    \* history: the calls whose effect reached the guest
          stolen,     \* history: operations whose record a call of another
                      \* operation removed
          boot, todo, \* the daemon's life, and the records its startup has left
          crashes, faults

durable == <<journal, receipts, audited, consumed>>
vars == <<journal, receipts, audited, consumed, lease, flight, pc, ended, lead,
          auth, needs, plan, reply, effects, stolen, boot, todo, crashes,
          faults>>

K(c) == KeyOf[OpOf[c]]
F(c) == FlightOf[OpOf[c]]
M(c) == MachineOf[OpOf[c]]

Boots == 0 .. MaxCrashes
Effect == {"applied", "none", "unknown"}
Status == {"denied", "success", "failed", "aborted"}
Receipt == [by : Call \cup Boots, op : Op, status : Status, effect : Effect]
(* What readContext accepts: a decided record holds its own receipt.       *)
Reservation ==
    {r \in [op : Op, by : Call, state : {"pending", "finalizing", "finalized"},
            rcpt : Receipt \cup {None}] :
        r.state # "pending" => r.rcpt # None /\ r.rcpt.op = r.op}
ASSUME NoneAssumption == None \notin Receipt /\ None \notin Reservation
(* "sure" is set when the answer reports no error in making it durable.    *)
Reply == [rcpt : Receipt \cup {None}, sure : BOOLEAN]

TypeOK ==
    /\ journal \in [Key -> Reservation \cup {None}]
    /\ receipts \subseteq Receipt /\ audited \subseteq Receipt
    /\ consumed \subseteq Op
    /\ lease \in [Machine -> Call \cup {None}]
    /\ flight \in [Flight -> Call \cup {None}]
    /\ pc \in [Call -> {"idle", "wait", "lookup", "cached", "approval",
                        "lease", "policy", "reserve", "create", "created",
                        "discard", "prepare", "execute", "intent", "receipt",
                        "audit", "mark", "load", "settle", "unsettled", "done",
                        "lost"}]
    /\ ended \subseteq Call
    /\ lead \in [Call -> Call \cup {None}]
    /\ auth \in [Call -> {"none", "valid", "invalid"}]
    /\ needs \subseteq Call
    /\ plan \in [Call -> Receipt \cup {None}]
    /\ reply \in [Call -> Reply \cup {None}]
    /\ effects \subseteq Call /\ stolen \subseteq Op
    /\ boot \in {"off", "scan", "audit", "mark", "up"}
    /\ todo \subseteq Key
    /\ crashes \in Boots /\ faults \in 0 .. MaxFaults

Init ==
    /\ journal = [k \in Key |-> None]
    /\ receipts = {} /\ audited = {} /\ consumed = {}
    /\ lease = [m \in Machine |-> None]
    /\ flight = [f \in Flight |-> None]
    /\ pc = [c \in Call |-> "idle"]
    /\ ended = {}
    /\ lead = [c \in Call |-> None]
    /\ auth \in {a \in [Call -> {"none", "valid", "invalid"}] :
                   \A c \in Call : a[c] \in AuthsOf[c]}
    /\ needs = {}
    /\ plan = [c \in Call |-> None]
    /\ reply = [c \in Call |-> None]
    /\ effects = {} /\ stolen = {}
    /\ boot = "up" /\ todo = {}
    /\ crashes = 0 /\ faults = 0

-----------------------------------------------------------------------------
(* Leaving a call: the lease is released if the call holds it, the flight  *)
(* is deleted and its waiters are woken (releaseFlight, releaseLease).     *)
Leave(c, answer) ==
    /\ pc' = [pc EXCEPT ![c] = "done"]
    /\ reply' = [reply EXCEPT ![c] = answer]
    /\ lease' = [m \in Machine |-> IF lease[m] = c THEN None ELSE lease[m]]
    /\ flight' = [f \in Flight |-> IF flight[f] = c THEN None ELSE flight[f]]

Failed == [rcpt |-> None, sure |-> FALSE]
GiveUp(c) == Leave(c, Failed)
Goto(c, where) ==
    /\ pc' = [pc EXCEPT ![c] = where]
    /\ UNCHANGED <<lease, flight, reply>>

At(c, where) == boot = "up" /\ pc[c] = where

(* A durable write succeeds, or fails before or after the file is in       *)
(* place: replaceContext renames a finished file, CancelContext removes    *)
(* one.                                                                    *)
Replaced(k, r) == [journal EXCEPT ![k] = r]
Withdrawn(k) == [journal EXCEPT ![k] = None]
Fault == faults < MaxFaults /\ faults' = faults + 1
NoFault == faults' = faults

rest == <<ended, lead, auth, stolen, boot, todo, crashes>>

(* acquireFlight                                                           *)
Arrive(c) ==
    /\ At(c, "idle")
    /\ LET l == flight[F(c)] IN
         \/ /\ l = None
            /\ flight' = [flight EXCEPT ![F(c)] = c]
            /\ pc' = [pc EXCEPT ![c] = "lookup"]
            /\ UNCHANGED <<lead, reply>>
         \/ /\ l # None /\ OpOf[l] # OpOf[c]
            /\ pc' = [pc EXCEPT ![c] = "done"]
            /\ reply' = [reply EXCEPT ![c] = Failed]
            /\ UNCHANGED <<flight, lead>>
         \/ /\ l # None /\ OpOf[l] = OpOf[c]
            /\ pc' = [pc EXCEPT ![c] = "wait"]
            /\ lead' = [lead EXCEPT ![c] = l]
            /\ UNCHANGED <<flight, reply>>
    /\ UNCHANGED <<durable, lease, ended, auth, needs, plan, effects, stolen,
                   boot, todo, crashes, faults>>

(* waitForInFlight: the leader's result, or the caller's own end.          *)
Wait(c) ==
    /\ At(c, "wait")
    /\ \/ pc[lead[c]] = "done" /\ Leave(c, reply[lead[c]])
       \/ c \in ended /\ GiveUp(c)
    /\ UNCHANGED <<durable, needs, plan, effects, rest, faults>>

(* lookupSessionRetry, first half: the journal.  A record of another       *)
(* operation is a collision; a pending one is finished as interrupted, a   *)
(* finalizing one with the receipt it holds, a finalized one is replayed.  *)

(* Mutant: the recovery claims that an interrupted mutation had no effect. *)
InterruptedClaimsNone(by, op) ==
    [by |-> by, op |-> op, status |-> "failed", effect |-> "none"]

(* interruptedMutationReceipt                                              *)
Interrupted(by, op) ==
    [by |-> by, op |-> op, status |-> "failed", effect |-> "unknown"]

(* LookupContext: the record of the key must be of the same operation.     *)
Collides(c) == journal[K(c)] # None /\ journal[K(c)].op # OpOf[c]
Lookup(c) ==
    /\ At(c, "lookup")
    /\ LET r == journal[K(c)] IN
         \/ c \in ended /\ GiveUp(c) /\ UNCHANGED plan
         \/ c \notin ended /\ r = None /\ Goto(c, "cached") /\ UNCHANGED plan
         \/ c \notin ended /\ Collides(c) /\ GiveUp(c) /\ UNCHANGED plan
         \/ /\ c \notin ended /\ r # None /\ ~Collides(c)
            /\ Goto(c, CASE r.state = "pending"    -> "intent"
                         [] r.state = "finalizing" -> "receipt"
                         [] r.state = "finalized"  -> "load")
            /\ plan' = [plan EXCEPT ![c] = IF r.state = "pending"
                                             THEN Interrupted(c, r.op)
                                             ELSE r.rcpt]
    /\ UNCHANGED <<durable, needs, effects, rest, faults>>

(* Mutant: the receipts of the key are not looked at.                      *)
CachedReceiptIgnored(c) ==
    /\ At(c, "cached") /\ Goto(c, "approval")
    /\ UNCHANGED <<durable, needs, plan, effects, rest, faults>>

(* Second half: checkCachedReceipt and handleExactRetry.  Only a denial is *)
(* answered from its receipt, whose audit is completed first.              *)
CachedReceipt(c) ==
    /\ At(c, "cached")
    /\ LET mine == {r \in receipts : KeyOf[r.op] = K(c)} IN
         \/ /\ c \in ended
            /\ GiveUp(c) /\ UNCHANGED plan
         \/ /\ c \notin ended /\ mine = {}
            /\ Goto(c, "approval") /\ UNCHANGED plan
         \/ /\ c \notin ended
            /\ \E r \in mine :
                 \/ r.op = OpOf[c] /\ r.status = "denied"
                    /\ Goto(c, "audit") /\ plan' = [plan EXCEPT ![c] = r]
                 \/ ~(r.op = OpOf[c] /\ r.status = "denied")
                    /\ GiveUp(c) /\ UNCHANGED plan
    /\ UNCHANGED <<durable, needs, effects, rest, faults>>

Denial(c) == [by |-> c, op |-> OpOf[c], status |-> "denied", effect |-> "none"]

(* resolveSessionMutationApproval: a reference to no issued approval, or a *)
(* raw approval of a caller that is no administrator, is denied.           *)
ResolveApproval(c) ==
    /\ At(c, "approval")
    /\ \/ c \in ended /\ GiveUp(c) /\ UNCHANGED plan
       \/ /\ c \notin ended /\ auth[c] = "invalid"
          /\ Goto(c, "receipt")
          /\ plan' = [plan EXCEPT ![c] = Denial(c)]
       \/ /\ c \notin ended /\ auth[c] # "invalid"
          /\ Goto(c, "lease") /\ UNCHANGED plan
    /\ UNCHANGED <<durable, needs, effects, rest, faults>>

(* acquireMutationLease (module Lease): one holder per machine.            *)
AcquireLease(c) ==
    /\ At(c, "lease")
    /\ \/ (c \in ended \/ lease[M(c)] # None) /\ GiveUp(c)
       \/ /\ c \notin ended /\ lease[M(c)] = None
          /\ lease' = [lease EXCEPT ![M(c)] = c]
          /\ pc' = [pc EXCEPT ![c] = "policy"]
          /\ UNCHANGED <<flight, reply>>
    /\ UNCHANGED <<durable, needs, plan, effects, rest, faults>>

(* The rest of admitSessionMutation: the safety of the target decides the  *)
(* class; policy denies, or a destructive class asks for an approval that  *)
(* is issued and not consumed.  A context that has ended skips all of it.  *)
Approved(c) == auth[c] = "valid" /\ OpOf[c] \notin consumed
Admit(c) ==
    /\ At(c, "policy")
    /\ \E destructive \in BOOLEAN :
         needs' = IF destructive THEN needs \cup {c} ELSE needs
    /\ \/ c \in ended /\ Goto(c, "reserve") /\ UNCHANGED plan
       \/ /\ c \notin ended
          /\ c \in needs' => Approved(c)
          /\ Goto(c, "reserve") /\ UNCHANGED plan
       \/ /\ c \notin ended
          /\ Goto(c, "receipt")
          /\ plan' = [plan EXCEPT ![c] = Denial(c)]
    /\ UNCHANGED <<durable, effects, rest, faults>>

(* ReserveContext, in the steps between which other calls may come.  First *)
(* the lookup: the key must have no record, of whatever operation.         *)
Reserve(c) ==
    /\ At(c, "reserve")
    /\ \/ (c \in ended \/ journal[K(c)] # None) /\ GiveUp(c) /\ NoFault
       \/ c \notin ended /\ journal[K(c)] = None /\ Goto(c, "create") /\ NoFault
       \/ GiveUp(c) /\ Fault
    /\ UNCHANGED <<durable, needs, plan, effects, rest>>

(* writeReservationExclusive: a context that has ended creates nothing and *)
(* goes to the removal all the same; the exclusive creation finds the key  *)
(* taken meanwhile; a write that fails leaves the marker.                  *)
Marker(c) == [op |-> OpOf[c], by |-> c, state |-> "pending", rcpt |-> None]
Create(c) ==
    /\ At(c, "create")
    /\ \/ c \in ended /\ Goto(c, "discard") /\ NoFault /\ UNCHANGED journal
       \/ /\ c \notin ended /\ journal[K(c)] # None
          /\ GiveUp(c) /\ NoFault /\ UNCHANGED journal
       \/ /\ c \notin ended /\ journal[K(c)] = None
          /\ journal' = Replaced(K(c), Marker(c))
          /\ \/ Goto(c, "created") /\ NoFault
             \/ GiveUp(c) /\ Fault
       \/ c \notin ended /\ GiveUp(c) /\ Fault /\ UNCHANGED journal
    /\ UNCHANGED <<receipts, audited, consumed, needs, plan, effects, rest>>

(* The directory's sync, whose failure leaves the marker, and the context  *)
(* again.                                                                  *)
SyncReservation(c) ==
    /\ At(c, "created")
    /\ \/ c \in ended /\ Goto(c, "discard") /\ NoFault
       \/ c \notin ended /\ Goto(c, "prepare") /\ NoFault
       \/ GiveUp(c) /\ Fault
    /\ UNCHANGED <<durable, needs, plan, effects, rest>>

(* removeCanceledReservation: whatever is at the path is removed, be it    *)
(* the marker of this call or, if it has made none, the record of another. *)
Discard(c) ==
    /\ At(c, "discard")
    /\ \/ /\ journal' = Withdrawn(K(c))
          /\ stolen' = IF Collides(c) THEN stolen \cup {journal[K(c)].op} ELSE stolen
          /\ NoFault
       \/ Fault /\ UNCHANGED <<journal, stolen>>
    /\ GiveUp(c)
    /\ UNCHANGED <<receipts, audited, consumed, needs, plan, effects, ended,
                   lead, auth, boot, todo, crashes>>

(* CancelContext, on a context of its own: the record must be the pending  *)
(* one of the operation.                                                   *)
Cancelled(c) ==
    LET r == journal[K(c)] IN
    IF r # None /\ (r.op # OpOf[c] \/ r.state # "pending") THEN journal
    ELSE Withdrawn(K(c))

(* prepareAuditAndApproval; when it fails CancelContext withdraws the      *)
(* marker, unless that fails too.                                          *)
Prepare(c) ==
    /\ At(c, "prepare")
    /\ LET spends == c \in needs /\ auth[c] = "valid" IN
         \/ /\ c \notin ended
            /\ spends => OpOf[c] \notin consumed
            /\ consumed' = IF spends THEN consumed \cup {OpOf[c]} ELSE consumed
            /\ Goto(c, "execute") /\ NoFault
            /\ UNCHANGED journal
         \/ /\ c \in ended \/ (spends /\ OpOf[c] \in consumed)
            /\ \/ journal' = Cancelled(c) /\ NoFault
               \/ UNCHANGED journal /\ Fault
            /\ UNCHANGED consumed
            /\ GiveUp(c)
         \/ /\ Fault
            /\ \/ UNCHANGED consumed
               \/ spends /\ consumed' = consumed \cup {OpOf[c]}
            /\ \/ journal' = Cancelled(c)
               \/ UNCHANGED journal
            /\ GiveUp(c)
    /\ UNCHANGED <<receipts, audited, needs, plan, effects, rest>>

(* What the session manager may report of each kind, as status and effect. *)
(* An open that succeeds has a session; one that fails may leave a channel *)
(* it could not clean up, or a session it could not persist.  Bytes may    *)
(* have reached the guest before a write or a control key failed, and none *)
(* need have when it did not.  A close of a closed session has no effect.  *)
Outcomes(s, e) == [status : s, effect : e]
Aborted == Outcomes({"aborted"}, {"none"})
OpenOutcomes == Aborted \cup Outcomes({"success"}, {"applied"})
                        \cup Outcomes({"failed"}, {"applied", "none"})
WriteOutcomes == Aborted \cup Outcomes({"success", "failed"}, {"applied", "none"})
ControlOutcomes == Aborted \cup Outcomes({"success", "failed"}, {"applied", "none"})
CloseOutcomes == Aborted \cup Outcomes({"success", "failed"}, {"applied", "none"})

OutcomesOf(op) == CASE KindOf[op] = "open"    -> OpenOutcomes
                    [] KindOf[op] = "write"   -> WriteOutcomes
                    [] KindOf[op] = "control" -> ControlOutcomes
                    [] KindOf[op] = "close"   -> CloseOutcomes

(* executeMutation up to its receipt: nothing runs once the context has    *)
(* ended.                                                                  *)
Execute(c) ==
    /\ At(c, "execute")
    /\ \E o \in IF c \in ended THEN Aborted ELSE OutcomesOf(OpOf[c]) :
         /\ effects' = IF o.effect = "applied" THEN effects \cup {c} ELSE effects
         /\ plan' = [plan EXCEPT ![c] = [by |-> c, op |-> OpOf[c],
                                        status |-> o.status, effect |-> o.effect]]
    /\ Goto(c, "intent")
    /\ UNCHANGED <<durable, needs, rest, faults>>

-----------------------------------------------------------------------------
(* The finalization protocol: intent, receipt, audit, mark.  The execution *)
(* runs it on a context of its own, a retry and a denial on the caller's.  *)
Executing(c) == plan[c].by = c /\ plan[c].status # "denied"
                /\ plan[c].effect # "unknown"
Live(c) == Executing(c) \/ c \notin ended

(* An execution that cannot finalize still answers with its receipt, and   *)
(* says that it is not durable.                                            *)
Stop(c) == IF Executing(c) THEN Goto(c, "unsettled") ELSE GiveUp(c)

(* RecordFinalizationIntentForRecordContext: only a pending record takes a *)
(* receipt; the same receipt again is accepted, another is a collision.    *)
RecordIntent(c) ==
    /\ At(c, "intent")
    /\ LET r == journal[K(c)] IN
         \/ /\ ~Live(c) \/ r = None \/ Collides(c)
               \/ (r # None /\ r.state # "pending" /\ r.rcpt # plan[c])
            /\ Stop(c) /\ NoFault /\ UNCHANGED journal
         \/ /\ Live(c) /\ r # None /\ ~Collides(c) /\ r.state = "pending"
            /\ journal' = Replaced(K(c), [r EXCEPT !.state = "finalizing", !.rcpt = plan[c]])
            /\ \/ Goto(c, "receipt") /\ NoFault
               \/ Stop(c) /\ Fault
         \/ Stop(c) /\ Fault /\ UNCHANGED journal
    /\ UNCHANGED <<receipts, audited, consumed, needs, plan, effects, rest>>

(* receipt.Store.EnsureContext                                             *)
EnsureReceipt(c) ==
    /\ At(c, "receipt")
    /\ \/ ~Live(c) /\ Stop(c) /\ NoFault /\ UNCHANGED receipts
       \/ /\ Live(c)
          /\ receipts' = receipts \cup {plan[c]}
          /\ \/ Goto(c, "audit") /\ NoFault
             \/ Stop(c) /\ Fault
       \/ Stop(c) /\ Fault /\ UNCHANGED receipts
    /\ UNCHANGED <<journal, audited, consumed, needs, plan, effects, rest>>

(* audit.Store.EnsureTerminalOutcomeContext; a denial ends here.           *)
EnsureAudit(c) ==
    /\ At(c, "audit")
    /\ \/ ~Live(c) /\ Stop(c) /\ NoFault /\ UNCHANGED audited
       \/ /\ Live(c)
          /\ audited' = audited \cup {plan[c]}
          /\ \/ /\ plan[c].status = "denied" /\ NoFault
                /\ Leave(c, [rcpt |-> plan[c], sure |-> TRUE])
             \/ plan[c].status # "denied" /\ Goto(c, "mark") /\ NoFault
             \/ Stop(c) /\ Fault
       \/ Stop(c) /\ Fault /\ UNCHANGED audited
    /\ UNCHANGED <<journal, receipts, consumed, needs, plan, effects, rest>>

(* MarkFinalizedRecordContext; a retry reloads the record afterwards.      *)
MarkFinalized(c) ==
    /\ At(c, "mark")
    /\ LET r == journal[K(c)]
           next == IF Executing(c) THEN "settle" ELSE "load" IN
         \/ /\ ~Live(c) \/ r = None \/ Collides(c)
               \/ (r # None /\ r.state = "pending")
            /\ Stop(c) /\ NoFault /\ UNCHANGED journal
         \/ /\ Live(c) /\ r # None /\ ~Collides(c) /\ r.state # "pending"
            /\ journal' = Replaced(K(c), [r EXCEPT !.state = "finalized"])
            /\ \/ Goto(c, next) /\ NoFault
               \/ Stop(c) /\ Fault
         \/ Stop(c) /\ Fault /\ UNCHANGED journal
    /\ UNCHANGED <<receipts, audited, consumed, needs, plan, effects, rest>>

(* ensureFinalizedReservation's reload, loadVerifiedReservationReceipt and *)
(* replayMutationResult.                                                   *)
Replay(c) ==
    /\ At(c, "load")
    /\ LET r == journal[K(c)] IN
         IF /\ c \notin ended
            /\ r # None /\ r.op = OpOf[c] /\ r.state = "finalized"
            /\ r.rcpt \in receipts /\ r.rcpt \in audited
         THEN Leave(c, [rcpt |-> r.rcpt, sure |-> TRUE])
         ELSE GiveUp(c)
    /\ UNCHANGED <<durable, needs, plan, effects, rest, faults>>

(* Mutant: every failed execution gives its approval back.                 *)
ReleasesAny(c) == c \in needs /\ auth[c] = "valid" /\ plan[c].status # "success"

(* releaseUnexecutedApproval: only if no effect was applied.               *)
Releases(c) == c \in needs /\ auth[c] = "valid" /\ plan[c].effect = "none"

(* releaseUnexecutedApproval, the lease and the answer of an execution,    *)
(* with the error of its finalization if there was one.                    *)
Settle(c) ==
    /\ At(c, "settle") \/ At(c, "unsettled")
    /\ \/ /\ consumed' = IF Releases(c) THEN consumed \ {OpOf[c]} ELSE consumed
          /\ NoFault
       \/ Releases(c) /\ Fault /\ UNCHANGED consumed
    /\ Leave(c, [rcpt |-> plan[c], sure |-> pc[c] = "settle"])
    /\ UNCHANGED <<journal, receipts, audited, needs, plan, effects, rest>>

-----------------------------------------------------------------------------
(* A caller's deadline passes or it goes away.                             *)
EndContext(c) ==
    /\ c \in Impatient \ ended
    /\ boot = "up" /\ pc[c] \notin {"idle", "done", "lost"}
    /\ ended' = ended \cup {c}
    /\ UNCHANGED <<durable, lease, flight, pc, lead, auth, needs, plan, reply,
                   effects, stolen, boot, todo, crashes, faults>>

Crash ==
    /\ crashes < MaxCrashes
    /\ crashes' = crashes + 1
    /\ boot' = "off" /\ todo' = {}
    /\ pc' = [c \in Call |-> IF pc[c] \in {"idle", "done"} THEN pc[c] ELSE "lost"]
    /\ lease' = [m \in Machine |-> None]
    /\ flight' = [f \in Flight |-> None]
    /\ UNCHANGED <<durable, ended, lead, auth, needs, plan, reply, effects, stolen,
                   faults>>

calls == <<lease, flight, pc, ended, lead, auth, needs, plan, reply, effects,
           stolen>>

(* ReconcileMutationFinalizations: an intent and a receipt for every       *)
(* record, then the audit of all of them, then the marks; an error refuses *)
(* the start of the daemon.                                                *)
BootStart ==
    /\ boot = "off"
    /\ boot' = "scan" /\ todo' = {k \in Key : journal[k] # None}
    /\ UNCHANGED <<durable, calls, crashes, faults>>

BootRecord(k) ==
    /\ boot = "scan" /\ k \in todo
    /\ LET r == journal[k]
           rcpt == IF r.state = "pending" THEN Interrupted(crashes, r.op) ELSE r.rcpt
           intent == IF r.state = "pending"
                       THEN [r EXCEPT !.state = "finalizing", !.rcpt = rcpt] ELSE r IN
         \/ /\ journal' = Replaced(k, intent)
            /\ receipts' = receipts \cup {rcpt}
            /\ todo' = todo \ {k}
            /\ NoFault /\ UNCHANGED boot
         \/ /\ Fault
            /\ journal' \in {journal, Replaced(k, intent)}
            /\ boot' = "off" /\ todo' = {}
            /\ UNCHANGED receipts
    /\ UNCHANGED <<audited, consumed, calls, crashes>>

BootAudit ==
    /\ boot = "scan" /\ todo = {}
    /\ \/ /\ audited' = audited \cup {journal[k].rcpt : k \in {j \in Key : journal[j] # None}}
          /\ boot' = "mark"
          /\ todo' = {k \in Key : journal[k] # None}
          /\ NoFault
       \/ Fault /\ boot' = "off" /\ UNCHANGED <<audited, todo>>
    /\ UNCHANGED <<journal, receipts, consumed, calls, crashes>>

BootMark(k) ==
    /\ boot = "mark" /\ k \in todo
    /\ \/ /\ journal' = [journal EXCEPT ![k].state = "finalized"]
          /\ todo' = todo \ {k} /\ NoFault /\ UNCHANGED boot
       \/ Fault /\ boot' = "off" /\ todo' = {} /\ UNCHANGED journal
    /\ UNCHANGED <<receipts, audited, consumed, calls, crashes>>

BootServe ==
    /\ boot = "mark" /\ todo = {}
    /\ boot' = "up"
    /\ UNCHANGED <<durable, calls, todo, crashes, faults>>

Step(c) ==
    \/ Arrive(c) \/ Wait(c) \/ Lookup(c) \/ CachedReceipt(c)
    \/ ResolveApproval(c) \/ AcquireLease(c) \/ Admit(c) \/ Reserve(c)
    \/ Create(c) \/ SyncReservation(c) \/ Discard(c)
    \/ Prepare(c) \/ Execute(c) \/ RecordIntent(c) \/ EnsureReceipt(c)
    \/ EnsureAudit(c) \/ MarkFinalized(c) \/ Replay(c) \/ Settle(c)

Booting ==
    \/ BootStart \/ BootAudit \/ BootServe
    \/ \E k \in Key : BootRecord(k) \/ BootMark(k)

Next == Booting \/ Crash \/ \E c \in Call : Step(c) \/ EndContext(c)

Spec == Init /\ [][Next]_vars

-----------------------------------------------------------------------------
(* The journal keeps the promise of JournaledMutation: whatever retries,   *)
(* crashes and failed writes come between, the guest sees the effect of a  *)
(* key at most once, only under a reservation, and the record's verdict    *)
(* is taken once and does not lie (session_coordination.go, the order of   *)
(* ReserveContext, execute and RecordFinalizationIntentContext).  It does  *)
(* so until a call whose context ended before it created its marker has    *)
(* removed the record of another operation under the same key              *)
(* (mutation_journal.go:280-283).                                          *)
Journal ==
    INSTANCE JournaledMutation WITH
        Agent <- Call,
        phase <- [k \in Key |-> IF journal[k] = None THEN "free"
                                ELSE IF journal[k].state = "pending" THEN "reserved"
                                ELSE "decided"],
        applied <- [k \in Key |-> {c \in effects : K(c) = k}],
        outcome <- [k \in Key |-> IF journal[k] = None \/ journal[k].state = "pending"
                                    THEN "open" ELSE journal[k].rcpt.effect]
JournalRefined == Journal!Init /\ [][stolen' = {} => Journal!Next]_(Journal!vars)

(* An effect that reached the guest keeps the reservation made for it:     *)
(* "Before a guest effect, a session-scoped durable reservation binds the  *)
(* safe operation identity" (docs/ssh-sessions.md).                        *)
EffectIsReserved ==
    \A c \in effects : journal[K(c)] # None /\ journal[K(c)].by = c

(* A record marked finalized has its receipt in the receipt store and its  *)
(* outcome in the audit log, after any crash and any failed write: a       *)
(* replay from it can be verified.                                         *)
FinalizedHasEvidence ==
    \A k \in Key : journal[k] # None /\ journal[k].state = "finalized" =>
        journal[k].rcpt \in receipts \cap audited

(* Two callers of one operation that are both told its outcome, with no    *)
(* error about durability, are told the same: the retry replays what the   *)
(* first execution, or the recovery, has settled.                          *)
OneAnswer ==
    \A c, d \in Call :
        /\ reply[c] # None /\ reply[d] # None /\ OpOf[c] = OpOf[d]
        /\ reply[c].sure /\ reply[d].sure
        => reply[c].rcpt = reply[d].rcpt

(* An effect of a class that requires approval leaves the approval         *)
(* consumed, also when the answer is lost: releaseUnexecutedApproval gives *)
(* none back that was used, and an ended context, which skips the policy,  *)
(* reaches no guest.                                                       *)
EffectSpendsApproval ==
    \A c \in effects : c \in needs => auth[c] = "valid" /\ OpOf[c] \in consumed

(* What an effect leaves behind: its approval spent, and evidence for      *)
(* every record that says it is final.                                     *)
EffectIsRecorded == TypeOK /\ EffectSpendsApproval /\ FinalizedHasEvidence
=============================================================================
