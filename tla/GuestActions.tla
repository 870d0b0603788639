---------------------------- MODULE GuestActions ----------------------------
(***************************************************************************)
(* One guest action end to end, and what its caller learns of it: the MCP  *)
(* tool and the client (mcpadapter/desktop.go, client/desktop.go,          *)
(* client/client.go), the daemon's error envelope                          *)
(* (daemon/handlers_desktop.go, handlers_console.go), the services         *)
(* (app/desktop.go, app/console.go, app/recovery_mutation.go) and the      *)
(* guest provider (guest/desktop, guest/ssh/command.go).                   *)
(*                                                                         *)
(* Attempts are exact retries: one idempotency key, one single-use         *)
(* approval; a caller may retry while an earlier attempt still runs.  An   *)
(* error is the set of causes errors.Is finds in it, an outcome is a       *)
(* receipt's status with its category.                                     *)
(***************************************************************************)
EXTENDS Naturals, FiniteSets

CONSTANTS Attempt, Nobody,
          Guarded,    \* whether the action is a guarded clipboard write
          MaxFaults   \* bound: failing operations of the host

VARIABLES at,         \* per attempt: its step
          ctx,        \* per attempt: "live", "canceled" or "deadline"
          lease,      \* the attempt holding the machine
          consumed,   \* the approval's consumed record
          effects,    \* attempts whose command the guest may have acted on
          run,        \* per attempt: the causes of the provider's error
          err,        \* per attempt: the causes of the error it returns
          outcome,    \* per attempt: its receipt's outcome in memory, or "none"
          cached,     \* per attempt: its receipt came from the store
          receipts,   \* the store: outcomes by the attempt that saved them
          told,       \* per attempt: what its caller was told
          faults

gvars == <<at, ctx, lease, consumed, effects, run, err, outcome, cached, receipts, told, faults>>

Causes == {"uncertain", "denied", "canceled", "deadline", "other"}
Outcomes == {"success", "failed", "uncertain", "canceled", "deadline", "denied"}
Silence == [says |-> "nothing", outcome |-> "none"]

GuestTypeOK ==
    /\ at \in [Attempt -> {"lookup", "policy", "lease", "consume", "dispatch", "guest", "reply",
                           "save", "audit", "release", "respond", "done"}]
    /\ ctx \in [Attempt -> {"live", "canceled", "deadline"}]
    /\ lease \in Attempt \cup {Nobody} /\ consumed \in BOOLEAN /\ effects \subseteq Attempt
    /\ run \in [Attempt -> SUBSET Causes] /\ err \in [Attempt -> SUBSET Causes]
    /\ outcome \in [Attempt -> Outcomes \cup {"none"}] /\ cached \in [Attempt -> BOOLEAN]
    /\ receipts \subseteq [by : Attempt, outcome : Outcomes]

GuestInit ==
    /\ at = [a \in Attempt |-> "lookup"] /\ ctx = [a \in Attempt |-> "live"]
    /\ lease = Nobody /\ consumed = FALSE /\ effects = {}
    /\ run = [a \in Attempt |-> {}] /\ err = [a \in Attempt |-> {}]
    /\ outcome = [a \in Attempt |-> "none"] /\ cached = [a \in Attempt |-> FALSE]
    /\ receipts = {} /\ told = [a \in Attempt |-> Silence] /\ faults = 0

Go(a, s) == at' = [at EXCEPT ![a] = s]
Fault == faults < MaxFaults /\ faults' = faults + 1
Works == UNCHANGED faults
Ended(a) == ctx[a] # "live"
Fails(a, causes) == err' = [err EXCEPT ![a] = causes]

\* The caller goes away or the deadline of its request passes.
End(a) ==
    /\ ctx[a] = "live" /\ at[a] # "done"
    /\ \E c \in {"canceled", "deadline"} : ctx' = [ctx EXCEPT ![a] = c]
    /\ UNCHANGED <<at, lease, consumed, effects, run, err, outcome, cached, receipts, told, faults>>

-----------------------------------------------------------------------------
(* executeMutation: what it does before the provider.                      *)

\* persistOutcome: the first cause that has a category decides.
OutcomeOf(causes) ==
    IF causes = {} THEN "success"
    ELSE IF "uncertain" \in causes THEN "uncertain"
    ELSE IF "denied" \in causes THEN "denied"
    ELSE IF "deadline" \in causes THEN "deadline"
    ELSE IF "canceled" \in causes THEN "canceled" ELSE "failed"

\* cachedRecoveryOutcomeError, and the services' "previously failed".
ReplayedError(o) ==
    CASE o = "success" -> {}
      [] o = "failed" -> {"other"}
      [] OTHER -> {o}

\* checkPreconditions: the first matching receipt the directory lists; a
\* durable answer wins over a context that has ended.
Lookup(a) ==
    /\ at[a] = "lookup"
    /\ \/ \E x \in receipts :
            /\ Works /\ outcome' = [outcome EXCEPT ![a] = x.outcome]
            /\ cached' = [cached EXCEPT ![a] = TRUE] /\ Fails(a, ReplayedError(x.outcome))
            /\ Go(a, "respond")
       \/ /\ receipts = {} /\ Works
          /\ \/ ~Ended(a) /\ Go(a, "policy") /\ UNCHANGED err
             \/ Ended(a) /\ Fails(a, {ctx[a]}) /\ Go(a, "respond")
          /\ UNCHANGED <<outcome, cached>>
       \/ Fault /\ Fails(a, {"other"}) /\ Go(a, "respond") /\ UNCHANGED <<outcome, cached>>
    /\ UNCHANGED <<ctx, lease, consumed, effects, run, receipts, told>>

\* prepareAndAuthorizeMutation: a consumed approval is a policy denial, which is
\* persisted like an outcome; other failures leave no receipt (preProviderFailure).
Policy(a) ==
    /\ at[a] = "policy" /\ Works
    /\ \/ consumed /\ Fails(a, {"denied"}) /\ outcome' = [outcome EXCEPT ![a] = "denied"]
          /\ Go(a, "save")
       \/ ~consumed /\ Ended(a) /\ Fails(a, {ctx[a]}) /\ Go(a, "respond") /\ UNCHANGED outcome
       \/ ~consumed /\ ~Ended(a) /\ Go(a, "lease") /\ UNCHANGED <<err, outcome>>
    /\ UNCHANGED <<ctx, lease, consumed, effects, run, cached, receipts, told>>

AcquireLease(a) ==
    /\ at[a] = "lease" /\ Works
    /\ \/ lease = Nobody /\ ~Ended(a) /\ lease' = a /\ Go(a, "consume") /\ UNCHANGED err
       \/ lease # Nobody /\ UNCHANGED lease /\ Fails(a, {"other"}) /\ Go(a, "respond")
       \/ Ended(a) /\ UNCHANGED lease /\ Fails(a, {ctx[a]}) /\ Go(a, "respond")
    /\ UNCHANGED <<ctx, consumed, effects, run, outcome, cached, receipts, told>>

\* recordAdmissionAndConsume creates the consumed record exclusively.
ConsumeAgain(a) ==
    /\ at[a] = "consume" /\ Works /\ consumed' = TRUE /\ Go(a, "dispatch")
    /\ UNCHANGED <<ctx, lease, effects, run, err, outcome, cached, receipts, told>>
Consume(a) ==
    /\ at[a] = "consume"
    /\ \/ ~consumed /\ Works /\ consumed' = TRUE /\ Go(a, "dispatch") /\ UNCHANGED <<lease, err>>
       \/ /\ \/ consumed /\ Works
             \/ ~consumed /\ Fault
          /\ lease' = Nobody /\ Fails(a, {"other"}) /\ Go(a, "respond") /\ UNCHANGED consumed
    /\ UNCHANGED <<ctx, effects, run, outcome, cached, receipts, told>>

\* What the provider is never reached for: an ended context, a stale frame or
\* grant (dispatchConsoleInput, executeLabMutation).  The approval goes back.
Dispatch(a) ==
    /\ at[a] = "dispatch"
    /\ \/ ~Ended(a) /\ Works /\ Go(a, "guest") /\ UNCHANGED <<lease, consumed, err>>
       \/ /\ \/ Ended(a) /\ Works /\ Fails(a, {ctx[a]})
             \/ Fault /\ Fails(a, {"other"})
          /\ consumed' = FALSE /\ lease' = Nobody /\ Go(a, "respond")
    /\ UNCHANGED <<ctx, effects, run, outcome, cached, receipts, told>>

-----------------------------------------------------------------------------
(* The provider: exchange over RunCommand, decodeResponse.                 *)

\* The command may be lost before the guest sees it, or reach it.
Guest(a) ==
    /\ at[a] = "guest" /\ Works /\ Go(a, "reply")
    /\ effects' \in {effects, effects \cup {a}}
    /\ UNCHANGED <<ctx, lease, consumed, run, err, outcome, cached, receipts, told>>

\* An answer is a success, a rejection before any effect, or a failure that may
\* have cleared the clipboard; anything else is a transport error or garbage,
\* which for a guarded write means that the effect is uncertain.
ReplyError(reply, c) ==
    CASE reply = "ok" -> {}
      [] reply = "rejected" -> {"other"}
      [] reply = "cleared" -> {"uncertain"}
      [] reply \in {"garbage", "transport"} /\ Guarded -> {"uncertain"}
      [] reply = "transport" /\ ~Guarded /\ c # "live" -> {c}
      [] OTHER -> {"other"}

\* What may come back: an answer that passes validClipboardResponse and its
\* like tells the truth, anything else is garbage or no answer at all.
Replies(a) ==
    {"garbage", "transport"}
      \cup (IF a \in effects THEN {"ok"} ELSE {"rejected"})
      \cup (IF Guarded THEN {"cleared"} ELSE {})
Reply(a) ==
    /\ at[a] = "reply" /\ Works
    /\ \E reply \in Replies(a) :
         \* runProviderExecution: a success after the context has ended is an abort.
         /\ LET e == ReplyError(reply, ctx[a])
                r == IF e = {} /\ Ended(a) THEN {ctx[a]} ELSE e IN
            /\ run' = [run EXCEPT ![a] = r] /\ Fails(a, r)
            /\ outcome' = [outcome EXCEPT ![a] = OutcomeOf(r)]
    /\ Go(a, "save")
    /\ UNCHANGED <<ctx, lease, consumed, effects, cached, receipts, told>>

-----------------------------------------------------------------------------
(* persistOutcome under its own five seconds, then the release.            *)

Saved(a) == receipts \cup {[by |-> a, outcome |-> outcome[a]]}
Save(a) ==
    /\ at[a] = "save"
    /\ \/ Works /\ receipts' = Saved(a) /\ Go(a, "audit") /\ UNCHANGED <<err, outcome>>
       \/ /\ Fault /\ receipts' \in {receipts, Saved(a)}
          /\ \E c \in {"deadline", "other"} : Fails(a, err[a] \cup {c})
          /\ outcome' = [outcome EXCEPT ![a] = "none"] /\ Go(a, "release")
    /\ UNCHANGED <<ctx, lease, consumed, effects, run, cached, told>>

Audit(a) ==
    /\ at[a] = "audit" /\ Go(a, "release")
    /\ \/ Works /\ UNCHANGED err
       \/ Fault /\ \E c \in {"deadline", "other"} : Fails(a, err[a] \cup {c})
    /\ UNCHANGED <<ctx, lease, consumed, effects, run, outcome, cached, receipts, told>>

Release(a) ==
    /\ at[a] = "release" /\ Go(a, "respond")
    /\ lease' = IF lease = a THEN Nobody ELSE lease
    /\ \/ Works /\ UNCHANGED err
       \/ lease = a /\ Fault /\ \E c \in {"deadline", "other"} : Fails(a, err[a] \cup {c})
    /\ UNCHANGED <<ctx, consumed, effects, run, outcome, cached, receipts, told>>

-----------------------------------------------------------------------------
(* The answer: the service's filter, the daemon's envelope, the client.    *)

\* DesktopService.mutate and mutateConsoleInput hand out a receipt with a
\* success, or with a failed or aborted outcome.
HandsOut(a) ==
    IF err[a] = {} THEN outcome[a] = "success"
    ELSE outcome[a] \in {"failed", "uncertain", "canceled", "deadline"}

\* consoleError and classifyTargetFailure: the first cause in their order.
CategoryLate(causes) ==
    IF "denied" \in causes THEN "denied"
    ELSE IF "canceled" \in causes THEN "canceled"
    ELSE IF "deadline" \in causes THEN "deadline"
    ELSE IF "uncertain" \in causes THEN "uncertain" ELSE "failed"
Category(causes) ==
    IF "uncertain" \in causes THEN "uncertain"
    ELSE IF "denied" \in causes THEN "denied"
    ELSE IF "canceled" \in causes THEN "canceled"
    ELSE IF "deadline" \in causes THEN "deadline" ELSE "failed"

\* matchesDesktopFailure: the envelope's category must tell the receipt's outcome.
MatchesAny(category, o) == TRUE
Matches(category, o) == category = o

\* doRequest, decodeActionHTTPResponse: an answer that is lost or malformed.
Unknown == [says |-> "unknown", outcome |-> "none"]

\* mapActionHTTPError: a withheld receipt and a lost or malformed answer mean
\* that the effects are unknown.
Answered(a) ==
    CASE err[a] = {} /\ HandsOut(a) -> [says |-> "success", outcome |-> "success"]
      [] err[a] # {} /\ HandsOut(a) /\ Matches(Category(err[a]), outcome[a]) ->
            [says |-> Category(err[a]), outcome |-> outcome[a]]
      [] err[a] # {} /\ HandsOut(a) /\ ~Matches(Category(err[a]), outcome[a]) ->
            Unknown
      [] OTHER -> [says |-> Category(err[a]), outcome |-> "none"]
Respond(a) ==
    /\ at[a] = "respond" /\ Go(a, "done")
    /\ \/ Works /\ told' = [told EXCEPT ![a] = Answered(a)]
       \/ Fault /\ told' = [told EXCEPT ![a] = Unknown]
    /\ UNCHANGED <<ctx, lease, consumed, effects, run, err, outcome, cached, receipts>>

GuestNext == \E a \in Attempt :
    \/ End(a) \/ Lookup(a) \/ Policy(a) \/ AcquireLease(a) \/ Consume(a) \/ Dispatch(a)
    \/ Guest(a) \/ Reply(a) \/ Save(a) \/ Audit(a) \/ Release(a) \/ Respond(a)

GuestSpec == GuestInit /\ [][GuestNext]_gvars

-----------------------------------------------------------------------------

(* "Execute never retries an uncertain mutation": however often and        *)
(* however early a caller retries, the guest acts at most once.            *)
ActsOnce == Cardinality(effects) <= 1

(* A caller is never shown a receipt that contradicts the error beside it  *)
(* or the store: a shown outcome is durable, the category says the same,   *)
(* and a success was acted on.                                             *)
ShownIsTrue == \A a \in Attempt : told[a].outcome # "none" =>
    /\ told[a].says = told[a].outcome
    /\ \E x \in receipts : x.outcome = told[a].outcome
    /\ told[a].outcome = "success" => effects # {}

(* "Guarded clipboard uncertainty retains its canonical reconciliation     *)
(* warning": a guarded write the guest may have acted on is never shown,   *)
(* to any caller, as a failed receipt, and whatever fails after it the     *)
(* caller of that attempt hears of its uncertainty or abort, or that       *)
(* nothing is known.  Only a write the guest confirmed may be told as a    *)
(* failure, without a receipt, when the host failed to keep its evidence.  *)
UncertainIsKept == Guarded => \A a \in Attempt :
    /\ told[a].outcome = "failed" => effects = {}
    /\ a \in effects /\ at[a] = "done" =>
         /\ run[a] # {} => /\ run[a] \subseteq {"uncertain", "canceled", "deadline"}
                           /\ told[a].says \in run[a] \cup {"unknown"}
         /\ run[a] = {} => \/ told[a].says \in {"success", "unknown"}
                           \/ err[a] # {} /\ told[a].outcome = "none"

(* "An exact retry returns the same receipt with cached_receipt: true      *)
(* without dispatching again."                                             *)
RetryAgrees == \A x, y \in receipts : x.outcome = y.outcome
=============================================================================
