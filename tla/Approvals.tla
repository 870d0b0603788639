------------------------------ MODULE Approvals ------------------------------
(***************************************************************************)
(* The life of one approval: an operator asks the daemon to issue it       *)
(* (operation_approval*.go, session_approval_issuance.go in internal/app), *)
(* the approval store keeps it (internal/approval), a beneficiary presents *)
(* it by reference, the policy admits the exact operation it names, and    *)
(* admission consumes it.  The approval's identifier is derived from the   *)
(* beneficiary and the idempotency key, so every request of this module    *)
(* works on the same two files: the issued record and the consumed record. *)
(*                                                                         *)
(* A record is created (O_EXCL) and then written: between the two it is    *)
(* Torn.  The daemon may crash between any two steps.  What a mutation     *)
(* does besides (leases, receipts, its own journal) is Mutation.tla and    *)
(* SessionMutation.tla.                                                    *)
(***************************************************************************)
EXTENDS Policy, FiniteSets

CONSTANTS Issuer,      \* issuance requests of the operator
          User,        \* executions that present the approval
          Params,      \* parameters an operation can have
          Checkpoint, Pinned, Root,  \* checkpoints, the configured one, no parent
          Contained,   \* server-owned configuration: effects stay in the machine
          Absent, Torn,
          MaxClock, ValidFor,               \* bound on time; validity of a grant
          MaxCrashes, MaxFaults, MaxDrifts  \* bounds on failures, on new worlds

(* What an approval names: the parameters, the class the operation was      *)
(* built with, and the times it is valid between.                           *)
Authority == [params : Params, built : {"reversible", "destructive"},
              issuedAt : 1..MaxClock, expiresAt : 1..MaxClock + ValidFor]

ASSUME ApprovalConstants ==
    /\ Pinned \in Checkpoint /\ Root \notin Checkpoint
    /\ ValidFor \in Nat \ {0} /\ MaxClock \in Nat \ {0}
    /\ Contained \in BOOLEAN
    /\ Absent # Torn /\ NoneGiven \notin {Absent, Torn}
    /\ {Absent, Torn, NoneGiven} \cap Authority = {}

VARIABLES kind,      \* "operation" or "session": the service that is asked
          base,      \* the class the operation is built with
          clock,
          parent,    \* the machine's checkpoints, with the parent of each
          issued, used,          \* the two records: Absent, Torn or its content
          intent, receipt, line, \* issuance evidence: audit intent, receipt, audit line
          at, asked, prepared,   \* per request: its step, parameters, approval built
          granted,   \* approvals answered to the operator
          step, op, shown,       \* per user: step, operation, approval loaded
          effects,   \* effects on the machine: user, operation, authority
          crashes, faults, drifts

store == <<issued, used>>
evidence == <<intent, receipt, line>>
requests == <<at, asked, prepared, granted>>
users == <<step, op, shown, effects>>
world == <<clock, parent, drifts>>
avars == <<kind, base, store, evidence, requests, users, world, crashes, faults>>

ApprovalsTypeOK ==
    /\ issued \in Authority \cup {Absent, Torn} /\ used \in Authority \cup {Absent, Torn}
    /\ at \in [Issuer -> {"idle", "intent", "create", "write", "receipt", "line",
                          "granted", "refused", "dead"}]
    /\ step \in [User -> {"idle", "loaded", "create", "write", "admitted",
                          "ran", "refused", "dead"}]
    /\ granted \subseteq Authority /\ clock \in 1..MaxClock

ApprovalsInit ==
    /\ kind \in {"operation", "session"} /\ base \in {"reversible", "destructive"}
    /\ clock = 1 /\ parent \in {<< >>, [c \in {Pinned} |-> Root]} /\ drifts = 0
    /\ issued = Absent /\ used = Absent
    /\ intent = FALSE /\ receipt = Absent /\ line = FALSE
    /\ at = [i \in Issuer |-> "idle"] /\ asked \in [Issuer -> Params]
    /\ prepared = [i \in Issuer |-> Absent] /\ granted = {}
    /\ step = [u \in User |-> "idle"] /\ op = [u \in User |-> Absent]
    /\ shown = [u \in User |-> NoneGiven] /\ effects = {}
    /\ crashes = 0 /\ faults = 0

Fails == faults < MaxFaults /\ faults' = faults + 1
Works == UNCHANGED faults
Go(i, s) == at' = [at EXCEPT ![i] = s]
Do(u, s) == step' = [step EXCEPT ![u] = s]

(* A request or an execution that is over forgets what it was about. *)
Conclude(i, s) == Go(i, s) /\ prepared' = [prepared EXCEPT ![i] = Absent]
Over(u, s) == /\ Do(u, s) /\ op' = [op EXCEPT ![u] = Absent]
              /\ shown' = [shown EXCEPT ![u] = NoneGiven]
Keep(u, s) == Do(u, s) /\ UNCHANGED <<op, shown>>
Stay(i, s) == Go(i, s) /\ UNCHANGED prepared

-----------------------------------------------------------------------------
(* What the machine's state makes of an operation.                          *)

(* validCheckpointChain: from the checkpoint, parents lead to the root with *)
(* neither a missing parent nor a cycle.                                    *)
ValidChain(c) ==
    LET Next1(x) == IF x \in DOMAIN parent THEN parent[x] ELSE x
        walk[n \in 0..Cardinality(Checkpoint)] == IF n = 0 THEN c ELSE Next1(walk[n - 1])
    IN walk[Cardinality(Checkpoint)] = Root

(* DefaultSafetyResolver.ResolveSafety: whatever is missing is destructive. *)
SafetyClass ==
    IF ValidChain(Pinned) /\ Contained THEN "reversible" ELSE "destructive"

(* discoverRollback takes any checkpoint of the machine; a session's        *)
(* rollback state comes with its safety class.                              *)
Rollback(class) ==
    LET has == IF kind = "session" THEN ValidChain(Pinned)
               ELSE class = "reversible" /\ DOMAIN parent # {}
    IN [available |-> has, verified |-> has, ref |-> IF has THEN "valid" ELSE "none"]

(* The class a service builds the operation with: operationApprovalContract *)
(* fixes it by kind, a session resolves it anew.                            *)
BuiltClass == IF kind = "session" THEN SafetyClass ELSE base

(* Approval.Matches: the fingerprint covers parameters, the class the       *)
(* operation was built with, and the deadline, which is the expiry.         *)
Exact(a, o) == a.params = o.params /\ a.built = o.class /\ a.expiresAt = o.deadline

(* The evaluation of operation o under approval a, now. *)
Evaluation(o, a) ==
    [class |-> o.class, actor |-> "ok", form |-> "ok", scope |-> "none",
     capability |-> "present", now |-> clock, deadline |-> o.deadline,
     writable |-> TRUE, rollback |-> Rollback(o.class), onMissing |-> "escalate",
     approval |-> IF a = NoneGiven THEN NoneGiven
                  ELSE [wellFormed |-> TRUE, class |-> "destructive", exact |-> Exact(a, o),
                        issuedAt |-> a.issuedAt, expiresAt |-> a.expiresAt,
                        consumed |-> FALSE]]

-----------------------------------------------------------------------------
(* Issuance, under issueMu.                                                 *)

Unlocked == \A i \in Issuer : at[i] \in {"idle", "granted", "refused", "dead"}

Readable(file) == file \notin {Absent, Torn}

(* The approval a request stands for: a retry keeps the times on record.    *)
Built(i) ==
    [params |-> asked[i], built |-> BuiltClass,
     issuedAt |-> IF Readable(issued) THEN issued.issuedAt ELSE clock,
     expiresAt |-> IF Readable(issued) THEN issued.expiresAt ELSE clock + ValidFor]

AsOperation(a) == [params |-> a.params, class |-> a.built, deadline |-> a.expiresAt]

(* prepareOperationApproval: the exact operation must currently be refused  *)
(* for want of an approval, and for that alone.                             *)
OperationNeeds(a) == Evaluate(Evaluation(AsOperation(a), NoneGiven)) = "approval_required"

(* prepareIssuedSessionApproval: its current class must require approval.   *)
SessionNeeds(a) == a.built = "destructive"

NeedsApproval(a) == IF kind = "session" THEN SessionNeeds(a) ELSE OperationNeeds(a)

(* equalIssuedOperationApproval, equalIssuedSessionApproval. *)
AsWritten(a) == a = issued

(* Where a prepared request goes on: a record on disk spares it the issue,  *)
(* never the evidence.                                                      *)
FirstStep == IF issued = Absent THEN "intent" ELSE "receipt"

(* The handler and the service turn away a caller who is delegated or lacks *)
(* the admin scope, a malformed request and a validity outside 1 s .. 5 min.*)
TurnAway(i) ==
    /\ at[i] = "idle" /\ kind = "operation" /\ Stay(i, "refused")
    /\ UNCHANGED <<kind, base, store, evidence, asked, granted, users, world, crashes, faults>>

(* For a session also: a field that is not the kind's, the agent itself.    *)
TurnAwaySession(i) ==
    /\ at[i] = "idle" /\ kind = "session" /\ Stay(i, "refused")
    /\ UNCHANGED <<kind, base, store, evidence, asked, granted, users, world, crashes, faults>>

(* IssueOperationApproval, IssueSessionMutationApproval: load, prepare,     *)
(* compare.  A torn record can be neither read nor replaced.                *)
Prepare(i) ==
    /\ at[i] = "idle" /\ Unlocked
    /\ LET a == Built(i)
           serves == issued # Torn /\ NeedsApproval(a) /\ (issued = Absent \/ AsWritten(a))
       IN IF serves
          THEN Go(i, FirstStep) /\ prepared' = [prepared EXCEPT ![i] = a]
          ELSE Stay(i, "refused")
    /\ UNCHANGED <<kind, base, store, evidence, asked, granted, users, world, crashes, faults>>

(* persistIssuedOperationApproval: the audit intent precedes the record ... *)
RecordIssueIntent(i) ==
    /\ at[i] = "intent"
    /\ \/ Works /\ intent' = TRUE /\ Stay(i, "create")
       \/ Fails /\ UNCHANGED intent /\ Conclude(i, "refused")
    /\ UNCHANGED <<kind, base, store, receipt, line, asked, granted, users,
                   world, crashes>>

(* ... IssueContext creates the file, which must not exist, ...             *)
CreateIssued(i) ==
    /\ at[i] = "create"
    /\ IF issued = Absent THEN issued' = Torn /\ Stay(i, "write")
       ELSE UNCHANGED issued /\ Conclude(i, "refused")
    /\ UNCHANGED <<kind, base, used, evidence, asked, granted, users, world,
                   crashes, faults>>

(* ... and writes it: a failing write removes the file, a failing directory *)
(* sync leaves it but reports the failure.                                  *)
WriteIssued(i) ==
    /\ at[i] = "write"
    /\ \/ Works /\ issued' = prepared[i] /\ Stay(i, "receipt")
       \/ Fails /\ issued' \in {Absent, prepared[i]} /\ Conclude(i, "refused")
    /\ UNCHANGED <<kind, base, used, evidence, asked, granted, users, world,
                   crashes>>

(* receiptStore.EnsureContext: the receipt is named by the approval and     *)
(* must agree with one already there.                                       *)
EnsureReceipt(i) ==
    /\ at[i] = "receipt"
    /\ \/ /\ Works /\ receipt \in {Absent, prepared[i]}
          /\ receipt' = prepared[i] /\ Stay(i, "line")
       \/ /\ receipt \notin {Absent, prepared[i]} /\ Works
          /\ UNCHANGED receipt /\ Conclude(i, "refused")
       \/ Fails /\ UNCHANGED receipt /\ Conclude(i, "refused")
    /\ UNCHANGED <<kind, base, store, intent, line, asked, granted, users,
                   world, crashes>>

(* auditStore.EnsureTerminalOutcomeContext, then the grant is answered.     *)
EnsureLine(i) ==
    /\ at[i] = "line"
    /\ \/ /\ Works /\ line' = TRUE /\ Conclude(i, "granted")
          /\ granted' = granted \cup {prepared[i]}
       \/ Fails /\ UNCHANGED <<line, granted>> /\ Conclude(i, "refused")
    /\ UNCHANGED <<kind, base, store, intent, receipt, asked, users, world, crashes>>

-----------------------------------------------------------------------------
(* Use.                                                                     *)

(* LoadOperationApprovalReference compares before the pipeline starts;      *)
(* loadSessionApprovalReference leaves that to the policy.                  *)
Loads(o) == Readable(issued) /\ (kind = "operation" => Exact(issued, o))

(* An execution arrives, with the approval's identifier or without. *)
Present(u) ==
    /\ step[u] = "idle"
    /\ \E p \in Params, d \in (clock + 1)..(MaxClock + ValidFor), refers \in BOOLEAN :
         LET o == [params |-> p, class |-> BuiltClass, deadline |-> d] IN
         \/ refers /\ ~Loads(o) /\ Over(u, "refused")
         \/ /\ refers => Loads(o)
            /\ Do(u, "loaded") /\ op' = [op EXCEPT ![u] = o]
            /\ shown' = [shown EXCEPT ![u] = IF refers THEN issued ELSE NoneGiven]
    /\ UNCHANGED <<kind, base, store, evidence, requests, effects, world, crashes, faults>>

(* verifyApprovalUnconsumed, checkDestructiveApproval: any file counts.     *)
Unspent == used = Absent

(* The policy decides, on a session's class as it is now; what it admits as *)
(* destructive must consume.                                                *)
Admit(u) ==
    /\ step[u] = "loaded"
    /\ LET o == [op[u] EXCEPT !.class = BuiltClass]
           e == Evaluation(o, shown[u])
           spends == EffectiveClass(e) = "destructive"
           admits == Evaluate(e) = "none" /\ (spends => Unspent)
       IN \/ ~admits /\ Over(u, "refused")
          \/ /\ admits /\ Do(u, IF spends THEN "create" ELSE "admitted")
             /\ op' = [op EXCEPT ![u] = o]
             /\ shown' = [shown EXCEPT ![u] = IF spends THEN @ ELSE NoneGiven]
    /\ UNCHANGED <<kind, base, store, evidence, requests, effects, world, crashes, faults>>

FreeToAll == TRUE

(* A consumed record can be created where there is none: O_EXCL. *)
Free == used = Absent

(* MarkConsumedContext: the issued record must still say the same; the      *)
(* deadline of the request bounds it; one creator wins.                     *)
CreateSpent(u) ==
    /\ step[u] = "create"
    /\ IF issued = shown[u] /\ clock < op[u].deadline /\ Free
       THEN used' = Torn /\ Keep(u, "write")
       ELSE UNCHANGED used /\ Over(u, "refused")
    /\ UNCHANGED <<kind, base, issued, evidence, requests, effects, world,
                   crashes, faults>>

WriteSpent(u) ==
    /\ step[u] = "write"
    /\ \/ Works /\ used' = shown[u] /\ Keep(u, "admitted")
       \/ Fails /\ used' \in {Absent, shown[u]} /\ Over(u, "refused")
    /\ UNCHANGED <<kind, base, issued, evidence, requests, effects, world, crashes>>

(* The effect on the machine. *)
TakeEffect(u) ==
    /\ step[u] = "admitted"
    /\ effects' = effects \cup {[user |-> u, op |-> op[u], authority |-> shown[u]]}
    /\ Over(u, "ran")
    /\ UNCHANGED <<kind, base, store, evidence, requests, world, crashes, faults>>

(* An admitted execution that gives up before the effect releases what it   *)
(* consumed: ReleaseUnexecutedContext removes a readable record that names  *)
(* the same authority.                                                      *)
Abort(u) ==
    /\ step[u] = "admitted"
    /\ \/ Works /\ used' = IF shown[u] # NoneGiven /\ used = shown[u] THEN Absent ELSE used
       \/ Fails /\ UNCHANGED used
    /\ Over(u, "refused")
    /\ UNCHANGED <<kind, base, issued, evidence, requests, effects, world, crashes>>

-----------------------------------------------------------------------------
(* The daemon dies: nobody is answered, the files stay as they are.         *)
Crash ==
    /\ crashes < MaxCrashes /\ crashes' = crashes + 1
    /\ at' = [i \in Issuer |-> IF at[i] \in {"idle", "granted", "refused"} THEN at[i] ELSE "dead"]
    /\ step' = [u \in User |-> IF step[u] \in {"idle", "ran", "refused"} THEN step[u] ELSE "dead"]
    /\ prepared' = [i \in Issuer |-> Absent]
    /\ op' = [u \in User |-> Absent] /\ shown' = [u \in User |-> NoneGiven]
    /\ UNCHANGED <<kind, base, store, evidence, asked, granted, effects, world, faults>>

Tick == /\ clock < MaxClock /\ clock' = clock + 1
        /\ UNCHANGED <<kind, base, store, evidence, requests, users, parent, drifts,
                       crashes, faults>>

(* A checkpoint comes, goes or is moved, by whoever manages the machine.    *)
Drift ==
    /\ drifts < MaxDrifts /\ drifts' = drifts + 1
    /\ \E c \in Checkpoint :
         \/ parent' = [x \in DOMAIN parent \ {c} |-> parent[x]]
         \/ \E q \in Checkpoint \cup {Root} :
              parent' = [x \in DOMAIN parent \cup {c} |-> IF x = c THEN q ELSE parent[x]]
    /\ UNCHANGED <<kind, base, store, evidence, requests, users, clock, crashes, faults>>

ApprovalsNext ==
    \/ \E i \in Issuer : \/ TurnAway(i) \/ TurnAwaySession(i) \/ Prepare(i)
                         \/ RecordIssueIntent(i)
                         \/ CreateIssued(i) \/ WriteIssued(i) \/ EnsureReceipt(i)
                         \/ EnsureLine(i)
    \/ \E u \in User : \/ Present(u) \/ Admit(u) \/ CreateSpent(u) \/ WriteSpent(u)
                       \/ TakeEffect(u) \/ Abort(u)
    \/ Crash \/ Tick \/ Drift

ApprovalsSpec == ApprovalsInit /\ [][ApprovalsNext]_avars

-----------------------------------------------------------------------------
(* A grant answered to the operator is what the record on disk says, for    *)
(* good: retries, crashes and requests with other parameters under the same *)
(* key neither replace it nor are told another expiry or operation.         *)
GrantsAgree == \A g \in granted : issued = g

(* Whoever is told of a grant, first caller or retry after a crash, can     *)
(* rely on its evidence: the audit intent, a receipt of this very approval  *)
(* and the terminal audit line.                                             *)
GrantIsEvidenced == granted # {} => intent /\ line /\ receipt \in granted

(* An effect the machine cannot be rolled back from happened under an       *)
(* approval for exactly that operation, announced in the audit log before   *)
(* it existed; one approval served one such effect and stays consumed,      *)
(* whatever crashed, failed or was released.  An operation built as         *)
(* reversible needs none here: that it has its rollback point when it is    *)
(* admitted is the policy's to see (PolicyIsSound).                         *)
EffectIsAuthorized ==
    /\ \A f \in effects :
         \/ f.authority = NoneGiven /\ f.op.class = "reversible"
         \/ /\ Exact(f.authority, f.op) /\ issued = f.authority
            /\ used # Absent /\ intent
    /\ \A f, g \in effects :
         f.authority # NoneGiven /\ g.authority # NoneGiven => f = g

(* What an approval is worth: a grant answered is the grant on disk, it is  *)
(* evidenced, and it serves one effect, the one it was issued for.          *)
ApprovalsHold == ApprovalsTypeOK /\ GrantsAgree /\ GrantIsEvidenced /\ EffectIsAuthorized
=============================================================================
