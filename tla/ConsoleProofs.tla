---------------------------- MODULE ConsoleProofs ----------------------------
(***************************************************************************)
(* Proofs about what the daemon keeps of its machines: lab grants, guest   *)
(* actions, console recordings.                                            *)
(***************************************************************************)
EXTENDS MCConsole, FiniteSetTheorems, WellFoundedInduction, TLAPS

-----------------------------------------------------------------------------
(* Lab grants.                                                             *)

Working == Steps \ {"idle", "done", "failed"}
Acts == {"derive", "admit", "fence", "recheck", "dispatch", "settle", "undo"}

(* A request between its first and its last step holds the grant's lease,  *)
(* and each kind of request walks its own steps.                           *)
Leased ==
    /\ \A r \in Request : pc[r] \in Working => holder = r
    /\ \A p \in Plain : pc[p] \in {"idle", "done", "failed"}
    /\ \A i \in Issuer : pc[i] \notin Acts
    /\ \A v \in Revoker : pc[v] \notin Acts \cup {"activate"}
    /\ \A e \in Executor : pc[e] \notin {"intent", "document", "receipt", "line", "activate"}

(* An executor past the fence's gate is in the fence.                      *)
Fenced == \A e \in Executor :
    pc[e] \in {"recheck", "dispatch", "settle", "undo"} => fence = e

(* The activation document follows the receipt and the audit line.         *)
Evidenced ==
    /\ doc["active"] = "whole" => "issue" \in receipts /\ "issue" \in lines
    /\ \A i \in Issuer : /\ pc[i] = "activate" => "issue" \in receipts /\ "issue" \in lines
                         /\ pc[i] = "line" => "issue" \in receipts

(* An issuer that goes on has the grant on disk, or none is there yet.     *)
Granted == \A i \in Issuer :
    /\ pc[i] \in {"intent", "document"} /\ doc["json"] = "whole" => grant.by = i
    /\ pc[i] \in {"receipt", "line", "activate", "answer", "done"} =>
         doc["json"] = "whole" /\ grant.by = i

(* What the recheck found holds until the dispatch: the lease keeps the    *)
(* documents, the fence keeps the enrollment.                              *)
Ready == \A e \in Executor : pc[e] = "dispatch" =>
    /\ doc["json"] = "whole" /\ doc["active"] = "whole" /\ doc["revoked"] = "absent"
    /\ epoch = grant.epoch

(* A revoker is answered only after its document is whole.                 *)
Revoked == \A v \in Revoker :
    pc[v] \in {"receipt", "line", "answer", "done"} => doc["revoked"] = "whole"

(* Nothing reached the guest before the grant was activated.               *)
Sent == dispatched # {} => doc["active"] = "whole"

LabInv == LabTypeOK /\ Leased /\ Fenced /\ Evidenced /\ Granted /\ Ready /\ Revoked /\ Sent

(* No document and no request: the invariant holds.                        *)
LEMMA InitLab == LabInit => LabInv
<1> SUFFICES ASSUME LabInit PROVE LabInv
  OBVIOUS
<1> USE LabConstants DEF LabInit, Request
<1>1. LabTypeOK
  <2>1. safe \in BOOLEAN /\ over \in BOOLEAN BY Zenon
  <2> QED BY <2>1 DEF LabTypeOK, Steps
<1>2. Leased /\ Fenced /\ Granted /\ Ready /\ Revoked
  BY DEF Leased, Working, Acts, Fenced, Granted, Ready, Revoked
<1>3. Evidenced /\ Sent BY DEF Evidenced, Sent
<1> QED BY <1>1, <1>2, <1>3 DEF LabInv

(* Every step keeps the types.                                             *)
LEMMA LabType == LabInv /\ [LabNext]_lvars => LabTypeOK'
<1> SUFFICES ASSUME LabInv, [LabNext]_lvars PROVE LabTypeOK'
  OBVIOUS
<1> USE LabConstants DEF LabInv, LabTypeOK, Steps, Request, docs, world, Goto
<1>1. ASSUME NEW i \in Issuer, BeginIssue(i) \/ LoadGrant(i) \/ WriteGrant(i) \/ Activate(i) PROVE LabTypeOK'
  <2>1. CASE BeginIssue(i) BY <2>1 DEF BeginIssue, LabLock
  <2>2. CASE LoadGrant(i) BY <2>2 DEF LoadGrant, SameGrant
  <2>3. CASE WriteGrant(i) BY <2>3 DEF WriteGrant, Write
  <2>4. CASE Activate(i) BY <2>4 DEF Activate, Write, LabActivation
  <2> QED BY <1>1, <2>1, <2>2, <2>3, <2>4
<1>2. ASSUME NEW v \in Revoker, BeginRevoke(v) \/ LoadRevocation(v) \/ WriteRevocation(v) PROVE LabTypeOK'
  <2>1. CASE BeginRevoke(v) BY <2>1 DEF BeginRevoke, LabLock
  <2>2. CASE LoadRevocation(v) BY <2>2 DEF LoadRevocation
  <2>3. CASE WriteRevocation(v) BY <2>3 DEF WriteRevocation, Write
  <2> QED BY <1>2, <2>1, <2>2, <2>3
<1>3. ASSUME NEW r \in Issuer \cup Revoker, Intent(r) \/ EnsureReceipt(r) \/ EnsureLine(r) PROVE LabTypeOK'
  <2>1. CASE Intent(r) BY <2>1 DEF Intent
  <2>2. CASE EnsureReceipt(r) BY <2>2 DEF EnsureReceipt, Kind
  <2>3. CASE EnsureLine(r) BY <2>3 DEF EnsureLine, Kind
  <2> QED BY <1>3, <2>1, <2>2, <2>3
<1>4. ASSUME NEW e \in Executor,
         \/ BeginExecute(e) \/ CheckAuthority(e) \/ Derive(e) \/ AdmitInput(e)
         \/ EnterFence(e) \/ Recheck(e) \/ Dispatch(e) \/ Leave(e)
      PROVE  LabTypeOK'
  <2>1. CASE BeginExecute(e) BY <2>1 DEF BeginExecute, LabLock
  <2>2. CASE CheckAuthority(e) BY <2>2 DEF CheckAuthority
  <2>3. CASE Derive(e) BY <2>3 DEF Derive
  <2>4. CASE AdmitInput(e) BY <2>4 DEF AdmitInput
  <2>5. CASE EnterFence(e) BY <2>5 DEF EnterFence
  <2>6. CASE Recheck(e) BY <2>6 DEF Recheck, Usable, Binding, NotRevoked, LabActivation
  <2>7. CASE Dispatch(e) BY <2>7 DEF Dispatch
  <2>8. CASE Leave(e) BY <2>8 DEF Leave
  <2> QED BY <1>4, <2>1, <2>2, <2>3, <2>4, <2>5, <2>6, <2>7, <2>8
<1>5. ASSUME NEW r \in Request, LeaveLease(r) \/ Retry(r) PROVE LabTypeOK'
  <2>1. CASE LeaveLease(r) BY <2>1 DEF LeaveLease
  <2>2. CASE Retry(r) BY <2>2 DEF Retry
  <2> QED BY <1>5, <2>1, <2>2
<1>6. ASSUME NEW p \in Plain, PlainInput(p) PROVE LabTypeOK'
  BY <1>6 DEF PlainInput, LabPrefixed
<1>7. CASE ReplaceEnrollment \/ SafetyChanges \/ GrantExpires
  <2>1. safe' \in BOOLEAN /\ over' \in BOOLEAN
    BY <1>7 DEF ReplaceEnrollment, SafetyChanges, GrantExpires
  <2>2. epoch' \in 0..MaxEpoch BY <1>7 DEF ReplaceEnrollment, SafetyChanges, GrantExpires
  <2> QED BY <1>7, <2>1, <2>2 DEF ReplaceEnrollment, SafetyChanges, GrantExpires
<1>8. CASE LabCrash
  BY <1>8 DEF LabCrash, Writing
<1>9. CASE UNCHANGED lvars BY <1>9 DEF lvars
<1> QED BY <1>1, <1>2, <1>3, <1>4, <1>5, <1>6, <1>7, <1>8, <1>9 DEF LabNext

(* Every step keeps what requests know of the grant's documents.           *)
LEMMA NextLab == LabInv /\ [LabNext]_lvars => LabInv'
<1> SUFFICES ASSUME LabInv, [LabNext]_lvars PROVE LabInv'
  OBVIOUS
<1>0. LabTypeOK' BY LabType
<1> DEFINE Rest == Leased /\ Fenced /\ Evidenced /\ Granted /\ Ready /\ Revoked /\ Sent
<1> USE LabConstants, <1>0 DEF LabInv, LabTypeOK, Steps, Request, docs, world, Goto, Leased,
        Working, Acts, Fenced, Evidenced, Granted, Ready, Revoked, Sent
<1>1. ASSUME NEW i \in Issuer, BeginIssue(i) \/ LoadGrant(i) \/ WriteGrant(i) \/ Activate(i) PROVE Rest'
  <2>1. CASE BeginIssue(i) BY <2>1 DEF BeginIssue, LabLock
  <2>2. CASE LoadGrant(i) BY <2>2 DEF LoadGrant, SameGrant
  <2>3. CASE WriteGrant(i) BY <2>3 DEF WriteGrant, Write
  <2>4. CASE Activate(i) BY <2>4 DEF Activate, Write, LabActivation
  <2> QED BY <1>1, <2>1, <2>2, <2>3, <2>4
<1>2. ASSUME NEW v \in Revoker, BeginRevoke(v) \/ LoadRevocation(v) \/ WriteRevocation(v) PROVE Rest'
  <2>1. CASE BeginRevoke(v) BY <2>1 DEF BeginRevoke, LabLock
  <2>2. CASE LoadRevocation(v) BY <2>2 DEF LoadRevocation
  <2>3. CASE WriteRevocation(v) BY <2>3 DEF WriteRevocation, Write
  <2> QED BY <1>2, <2>1, <2>2, <2>3
<1>3. ASSUME NEW r \in Issuer \cup Revoker, Intent(r) \/ EnsureReceipt(r) \/ EnsureLine(r) PROVE Rest'
  <2>1. CASE Intent(r) BY <2>1 DEF Intent
  <2>2. CASE EnsureReceipt(r) BY <2>2 DEF EnsureReceipt, Kind
  <2>3. CASE EnsureLine(r) BY <2>3 DEF EnsureLine, Kind
  <2> QED BY <1>3, <2>1, <2>2, <2>3
<1>4. ASSUME NEW e \in Executor,
         \/ BeginExecute(e) \/ CheckAuthority(e) \/ Derive(e) \/ AdmitInput(e)
         \/ EnterFence(e) \/ Recheck(e) \/ Dispatch(e) \/ Leave(e)
      PROVE  Rest'
  <2>1. CASE BeginExecute(e) BY <2>1 DEF BeginExecute, LabLock
  <2>2. CASE CheckAuthority(e) BY <2>2 DEF CheckAuthority
  <2>3. CASE Derive(e) BY <2>3 DEF Derive
  <2>4. CASE AdmitInput(e) BY <2>4 DEF AdmitInput
  <2>5. CASE EnterFence(e) BY <2>5 DEF EnterFence
  <2>6. CASE Recheck(e) BY <2>6 DEF Recheck, Usable, Binding, NotRevoked, LabActivation
  <2>7. CASE Dispatch(e) BY <2>7 DEF Dispatch
  <2>8. CASE Leave(e) BY <2>8 DEF Leave
  <2> QED BY <1>4, <2>1, <2>2, <2>3, <2>4, <2>5, <2>6, <2>7, <2>8
<1>5. ASSUME NEW r \in Request, LeaveLease(r) \/ Retry(r) PROVE Rest'
  <2>1. CASE LeaveLease(r) BY <2>1 DEF LeaveLease
  <2>2. CASE Retry(r) BY <2>2 DEF Retry
  <2> QED BY <1>5, <2>1, <2>2
<1>6. ASSUME NEW p \in Plain, PlainInput(p) PROVE Rest'
  BY <1>6 DEF PlainInput, LabPrefixed
<1>7. ASSUME ReplaceEnrollment \/ SafetyChanges \/ GrantExpires PROVE Rest'
  BY <1>7 DEF ReplaceEnrollment, SafetyChanges, GrantExpires
<1>8. ASSUME LabCrash PROVE Rest' BY <1>8 DEF LabCrash, Writing
<1>9. ASSUME UNCHANGED lvars PROVE Rest' BY <1>9 DEF lvars
<1>10. Rest' BY <1>1, <1>2, <1>3, <1>4, <1>5, <1>6, <1>7, <1>8, <1>9 DEF LabNext
<1> QED BY <1>0, <1>10

(* console_lab*.go: in every reachable state the documents, the lease and  *)
(* the fence of a grant agree as LabInv says.                              *)
LEMMA LabInvariant == LabSpec => []LabInv
  BY InitLab, NextLab, PTL DEF LabSpec

(* console_lab*.go: whatever crash or fault came between the documents,    *)
(* authority is usable only with its receipt and audit line, and whoever   *)
(* is answered holds the grant on disk.                                    *)
THEOREM LabGrantsCorrect == LabSpec => []GrantsHold
<1>1. LabInv => GrantsHold
  <2> SUFFICES ASSUME LabInv PROVE GrantsHold
    OBVIOUS
  <2>1. "active" \in {LabGrantStatus, ActiveLabGrant} => doc["active"] = "whole"
    BY DEF LabGrantStatus, ActiveLabGrant, Usable, LabActivation
  <2>2. AuthorityIsEvidenced BY <2>1 DEF AuthorityIsEvidenced, LabInv, Sent, Evidenced
  <2>3. AnsweredIsTheGrant BY DEF AnsweredIsTheGrant, LabInv, Granted
  <2> QED BY <2>2, <2>3 DEF GrantsHold, LabInv
<1> QED BY <1>1, LabInvariant, PTL

(* Only an executor at its dispatch reaches the guest.                     *)
LEMMA OnlyDispatch ==
    ASSUME LabInv, [LabNext]_lvars, dispatched' # dispatched
    PROVE  \E e \in Executor : pc[e] = "dispatch"
<1> USE LabConstants DEF LabInv, docs, world
<1>1. ASSUME NEW i \in Issuer, BeginIssue(i) \/ LoadGrant(i) \/ WriteGrant(i) \/ Activate(i)
      PROVE  FALSE
  BY <1>1 DEF BeginIssue, LabLock, LoadGrant, WriteGrant, Activate
<1>2. ASSUME NEW v \in Revoker, BeginRevoke(v) \/ LoadRevocation(v) \/ WriteRevocation(v)
      PROVE  FALSE
  BY <1>2 DEF BeginRevoke, LabLock, LoadRevocation, WriteRevocation
<1>3. ASSUME NEW r \in Issuer \cup Revoker, Intent(r) \/ EnsureReceipt(r) \/ EnsureLine(r)
      PROVE  FALSE
  BY <1>3 DEF Intent, EnsureReceipt, EnsureLine
<1>4. ASSUME NEW e \in Executor,
         \/ BeginExecute(e) \/ CheckAuthority(e) \/ Derive(e) \/ AdmitInput(e)
         \/ EnterFence(e) \/ Recheck(e) \/ Leave(e)
      PROVE  FALSE
  BY <1>4 DEF BeginExecute, LabLock, CheckAuthority, Derive, AdmitInput, EnterFence, Recheck, Leave
<1>5. ASSUME NEW e \in Executor, Dispatch(e) PROVE pc[e] = "dispatch" BY <1>5 DEF Dispatch
<1>6. ASSUME NEW r \in Request, LeaveLease(r) \/ Retry(r) PROVE FALSE
  BY <1>6 DEF LeaveLease, Retry
<1>7. ASSUME NEW p \in Plain, PlainInput(p) PROVE FALSE BY <1>7 DEF PlainInput, LabPrefixed
<1>8. ASSUME ReplaceEnrollment \/ SafetyChanges \/ GrantExpires \/ LabCrash \/ UNCHANGED lvars
      PROVE  FALSE
  BY <1>8 DEF ReplaceEnrollment, SafetyChanges, GrantExpires, LabCrash, lvars
<1> QED BY <1>1, <1>2, <1>3, <1>4, <1>5, <1>6, <1>7, <1>8 DEF LabNext

(* RevokeLabGrant: once a revocation was answered nothing derived from     *)
(* the grant reaches the guest, for any requests, crashes and faults.      *)
THEOREM LabRevokeIsFinal == LabSpec => RevokeIsFinal
<1>1. LabInv /\ [LabNext]_lvars =>
        [(\E v \in Revoker : pc[v] = "done") => dispatched' = dispatched]_lvars
  <2> SUFFICES ASSUME LabInv, [LabNext]_lvars, NEW v \in Revoker, pc[v] = "done",
                      dispatched' # dispatched
               PROVE  FALSE
    OBVIOUS
  <2>1. PICK e \in Executor : pc[e] = "dispatch" BY OnlyDispatch
  <2> QED BY <2>1 DEF LabInv, Ready, Revoked
<1> QED BY <1>1, LabInvariant, PTL DEF LabSpec, RevokeIsFinal

(* WithEnrollmentFence: what reaches the guest under a grant does so on    *)
(* the enrollment the grant was issued for.                                *)
THEOREM LabDispatchOnEpoch == LabSpec => DispatchOnGrantedEpoch
<1>1. LabInv /\ [LabNext]_lvars => [dispatched' # dispatched => epoch = grant.epoch]_lvars
  <2> SUFFICES ASSUME LabInv, [LabNext]_lvars, dispatched' # dispatched
               PROVE  epoch = grant.epoch
    OBVIOUS
  <2>1. PICK e \in Executor : pc[e] = "dispatch" BY OnlyDispatch
  <2> QED BY <2>1 DEF LabInv, Ready
<1> QED BY <1>1, LabInvariant, PTL DEF LabSpec, DispatchOnGrantedEpoch

-----------------------------------------------------------------------------
(* Guest actions.                                                          *)

(* Between the consumed record and the provider's answer.                  *)
Acting == {"dispatch", "guest", "reply"}

(* The consumed record admits one attempt to the guest at a time, and none *)
(* after the guest may have acted.                                         *)
OneActs ==
    /\ \A a, b \in Attempt : guestAt[a] \in Acting /\ guestAt[b] \in Acting => a = b
    /\ \A a \in Attempt : guestAt[a] \in Acting => consumed
    /\ \A a \in effects : \A b \in Attempt :
         guestAt[b] \in Acting => guestAt[b] = "reply" /\ b = a
    /\ \A a, b \in effects : a = b
    /\ effects # {} => consumed

(* The approval is used up and the guest has not acted: nor will it.       *)
UsedUp == consumed /\ effects = {} /\ \A a \in Attempt : guestAt[a] \notin Acting

(* What an outcome means, in memory, in the store and as it was told.      *)
Recorded ==
    /\ \A a \in Attempt :
         /\ guestAt[a] \in {"lookup", "policy", "lease", "consume"} \cup Acting
              => outcome[a] = "none"
         /\ guestAt[a] \in {"audit", "release", "respond"} /\ outcome[a] # "none"
              => \E x \in guestReceipts : x.outcome = outcome[a]
         /\ guestAt[a] = "save" => outcome[a] # "none"
         /\ outcome[a] = "success" => effects # {}
         /\ Guarded /\ outcome[a] = "failed" => UsedUp
    /\ \A x \in guestReceipts : /\ x.outcome = "success" => effects # {}
                                /\ Guarded /\ x.outcome = "failed" => UsedUp
    /\ \A a \in Attempt : Guarded /\ told[a].outcome = "failed" => UsedUp

Told == told \in [Attempt -> [says : Guest!Outcomes \cup {"nothing", "unknown"},
                              outcome : Guest!Outcomes \cup {"none"}]]

(* What the provider found is kept in the error and the outcome until the  *)
(* caller is answered; only a save that fails drops the outcome.           *)
Late == {"save", "audit", "release", "respond"}
HeardOf(a) ==
    /\ a \in effects => guestAt[a] \in Late \cup {"reply", "done"}
    /\ guestAt[a] \notin Late \cup {"done"} => run[a] = {}
    /\ Guarded /\ a \in effects /\ guestAt[a] \in Late \cup {"done"} =>
         run[a] \in {{}, {"uncertain"}, {"canceled"}, {"deadline"}}
    /\ Guarded /\ a \in effects /\ guestAt[a] \in Late =>
         /\ run[a] \subseteq err[a] /\ err[a] \subseteq run[a] \cup {"deadline", "other"}
         /\ \/ outcome[a] = Guest!OutcomeOf(run[a])
            \/ outcome[a] = "none" /\ err[a] # {}
    /\ Guarded /\ a \in effects /\ guestAt[a] = "done" =>
         /\ run[a] # {} => told[a].says \in run[a] \cup {"unknown"}
         /\ run[a] = {} => \/ told[a].says \in {"success", "unknown"}
                           \/ err[a] # {} /\ told[a].outcome = "none"
Heard == \A a \in Attempt : HeardOf(a)

GuestInv ==
    Guest!GuestTypeOK /\ Told /\ OneActs /\ Recorded /\ Guest!ShownIsTrue /\ Heard

(* No attempt has begun: the invariant holds.                              *)
LEMMA InitGuest == Guest!GuestInit => GuestInv
<1> SUFFICES ASSUME Guest!GuestInit PROVE GuestInv
  OBVIOUS
<1> USE DEF Guest!GuestInit, Guest!Silence
<1>1. Guest!GuestTypeOK
  <2>1. consumed \in BOOLEAN /\ guestFaults = 0 BY Zenon
  <2>2. cached \in [Attempt -> BOOLEAN] BY Zenon
  <2> QED BY <2>1, <2>2 DEF Guest!GuestTypeOK
<1>2. Told /\ OneActs BY DEF Told, OneActs, Acting
<1>3. Recorded /\ Guest!ShownIsTrue BY DEF Recorded, Acting, Guest!ShownIsTrue
<1>4. Heard BY DEF Heard, HeardOf, Late
<1> QED BY <1>1, <1>2, <1>3, <1>4 DEF GuestInv

GuestStep(a) ==
    \/ Guest!End(a) \/ Guest!Lookup(a) \/ Guest!Policy(a) \/ Guest!AcquireLease(a)
    \/ Guest!Consume(a) \/ Guest!Dispatch(a) \/ Guest!Guest(a) \/ Guest!Reply(a)
    \/ Guest!Save(a) \/ Guest!Audit(a) \/ Guest!Release(a) \/ Guest!Respond(a)

(* Every step keeps the types.                                             *)
LEMMA GuestType ==
    ASSUME GuestInv, NEW a \in Attempt, GuestStep(a)
    PROVE  Guest!GuestTypeOK' /\ Told'
<1>a. /\ {} \in SUBSET Guest!Causes /\ {"other"} \in SUBSET Guest!Causes
      /\ {"denied"} \in SUBSET Guest!Causes /\ {"uncertain"} \in SUBSET Guest!Causes
      /\ {"canceled"} \in SUBSET Guest!Causes /\ {"deadline"} \in SUBSET Guest!Causes
  BY DEF Guest!Causes
<1>b. guestCtx[a] # "live" => {guestCtx[a]} \in SUBSET Guest!Causes
  BY DEF GuestInv, Guest!GuestTypeOK, Guest!Causes
<1>c. \A c \in {"deadline", "other"} : err[a] \cup {c} \in SUBSET Guest!Causes
  BY DEF GuestInv, Guest!GuestTypeOK, Guest!Causes
<1>d. \A o \in Guest!Outcomes : Guest!ReplayedError(o) \in SUBSET Guest!Causes
  BY <1>a DEF Guest!Outcomes, Guest!ReplayedError
<1>e. \A c : Guest!OutcomeOf(c) \in Guest!Outcomes BY DEF Guest!OutcomeOf, Guest!Outcomes
<1>f. \A c : Guest!Category(c) \in Guest!Outcomes BY DEF Guest!Category, Guest!Outcomes
<1>g. {"success", "denied"} \subseteq Guest!Outcomes BY DEF Guest!Outcomes
<1>h. \A c \in SUBSET Guest!Causes : [err EXCEPT ![a] = c] \in [Attempt -> SUBSET Guest!Causes]
  BY DEF GuestInv, Guest!GuestTypeOK
<1> USE DEF GuestInv, Guest!GuestTypeOK, Told, Guest!Go, Guest!Fails, Guest!Ended
<1>1. CASE Guest!End(a) BY <1>1 DEF Guest!End
<1>2. CASE Guest!Lookup(a)
  <2>1. err' \in [Attempt -> SUBSET Guest!Causes]
    BY <1>2, <1>a, <1>b, <1>d, <1>h DEF Guest!Lookup
  <2> QED BY <1>2, <2>1 DEF Guest!Lookup
<1>3. CASE Guest!Policy(a)
  <2>1. err' \in [Attempt -> SUBSET Guest!Causes] BY <1>3, <1>a, <1>b, <1>h DEF Guest!Policy
  <2> QED BY <1>3, <1>g, <2>1 DEF Guest!Policy
<1>4. CASE Guest!AcquireLease(a)
  <2>1. err' \in [Attempt -> SUBSET Guest!Causes] BY <1>4, <1>a, <1>b, <1>h DEF Guest!AcquireLease
  <2> QED BY <1>4, <2>1 DEF Guest!AcquireLease
<1>5. CASE Guest!Consume(a)
  <2>1. err' \in [Attempt -> SUBSET Guest!Causes] BY <1>5, <1>a, <1>h DEF Guest!Consume
  <2>2. consumed' \in BOOLEAN BY <1>5 DEF Guest!Consume
  <2> QED BY <1>5, <2>1, <2>2 DEF Guest!Consume
<1>6. CASE Guest!Dispatch(a)
  <2>1. err' \in [Attempt -> SUBSET Guest!Causes] BY <1>6, <1>a, <1>b, <1>h DEF Guest!Dispatch
  <2>2. consumed' \in BOOLEAN BY <1>6 DEF Guest!Dispatch
  <2> QED BY <1>6, <2>1, <2>2 DEF Guest!Dispatch
<1>7. CASE Guest!Guest(a) BY <1>7 DEF Guest!Guest
<1>8. CASE Guest!Reply(a)
  <2>1. PICK r \in SUBSET Guest!Causes :
           /\ run' = [run EXCEPT ![a] = r] /\ err' = [err EXCEPT ![a] = r]
           /\ outcome' = [outcome EXCEPT ![a] = Guest!OutcomeOf(r)]
    <3>1. PICK reply \in Guest!Replies(a) :
             LET e == Guest!ReplyError(reply, guestCtx[a])
                 r == IF e = {} /\ guestCtx[a] # "live" THEN {guestCtx[a]} ELSE e IN
             /\ run' = [run EXCEPT ![a] = r] /\ err' = [err EXCEPT ![a] = r]
             /\ outcome' = [outcome EXCEPT ![a] = Guest!OutcomeOf(r)]
      BY <1>8 DEF Guest!Reply
    <3>2. Guest!ReplyError(reply, guestCtx[a]) \in SUBSET Guest!Causes
      BY <1>a, <1>b DEF Guest!ReplyError
    <3> QED BY <1>b, <3>1, <3>2
  <2>2. Guest!OutcomeOf(r) \in Guest!Outcomes BY <1>e
  <2> QED BY <1>8, <2>1, <2>2 DEF Guest!Reply
<1>9. CASE Guest!Save(a)
  <2>1. err' \in [Attempt -> SUBSET Guest!Causes] BY <1>9, <1>c, <1>h DEF Guest!Save
  <2>2. outcome[a] \in Guest!Outcomes BY <1>9 DEF Guest!Save, Recorded
  <2>3. Guest!Saved(a) \subseteq [by : Attempt, outcome : Guest!Outcomes]
    BY <2>2 DEF Guest!Saved
  <2> QED BY <1>9, <2>1, <2>3 DEF Guest!Save
<1>10. CASE Guest!Audit(a)
  <2>1. err' \in [Attempt -> SUBSET Guest!Causes] BY <1>10, <1>c, <1>h DEF Guest!Audit
  <2> QED BY <1>10, <2>1 DEF Guest!Audit
<1>11. CASE Guest!Release(a)
  <2>1. err' \in [Attempt -> SUBSET Guest!Causes] BY <1>11, <1>c, <1>h DEF Guest!Release
  <2> QED BY <1>11, <2>1 DEF Guest!Release
<1>12. CASE Guest!Respond(a)
  <2>1. Guest!Answered(a) \in [says : Guest!Outcomes \cup {"nothing", "unknown"},
                               outcome : Guest!Outcomes \cup {"none"}]
    BY <1>f, <1>g DEF Guest!Answered, Guest!Unknown
  <2>2. Guest!Unknown \in [says : Guest!Outcomes \cup {"nothing", "unknown"},
                           outcome : Guest!Outcomes \cup {"none"}]
    BY DEF Guest!Unknown
  <2> QED BY <1>12, <2>1, <2>2 DEF Guest!Respond
<1> QED BY <1>1, <1>2, <1>3, <1>4, <1>5, <1>6, <1>7, <1>8, <1>9, <1>10, <1>11, <1>12 DEF GuestStep

(* Every step keeps what the provider found on its way to the caller.      *)
LEMMA HeardStep ==
    ASSUME GuestInv, NEW a \in Attempt, GuestStep(a)
    PROVE  Heard'
<1>0. /\ guestAt \in [Attempt -> {"lookup", "policy", "lease", "consume", "dispatch", "guest",
                                  "reply", "save", "audit", "release", "respond", "done"}]
      /\ run \in [Attempt -> SUBSET Guest!Causes] /\ err \in [Attempt -> SUBSET Guest!Causes]
      /\ outcome \in [Attempt -> Guest!Outcomes \cup {"none"}] /\ effects \subseteq Attempt
      /\ guestCtx \in [Attempt -> {"live", "canceled", "deadline"}]
      /\ DOMAIN told = Attempt
  BY DEF GuestInv, Guest!GuestTypeOK, Told
<1>1. \A b \in Attempt : HeardOf(b) BY DEF GuestInv, Heard
<1>2. \A b \in Attempt \ {a} :
        /\ guestAt'[b] = guestAt[b] /\ run'[b] = run[b] /\ err'[b] = err[b]
        /\ outcome'[b] = outcome[b] /\ told'[b] = told[b]
        /\ b \in effects' <=> b \in effects
  BY <1>0 DEF GuestStep, Guest!End, Guest!Lookup, Guest!Policy, Guest!AcquireLease,
     Guest!Consume, Guest!Dispatch, Guest!Guest, Guest!Reply, Guest!Save, Guest!Audit,
     Guest!Release, Guest!Respond, Guest!Go, Guest!Fails
<1>3. \A b \in Attempt \ {a} : HeardOf(b)' BY <1>1, <1>2 DEF HeardOf
<1> SUFFICES HeardOf(a)' BY <1>3 DEF Heard
<1>4. HeardOf(a) BY <1>1
<1>e. a \in effects => guestAt[a] \in Late \cup {"reply", "done"}
  BY <1>4 DEF HeardOf
<1> USE DEF Guest!Go, Guest!Fails
<1>5. CASE Guest!End(a) BY <1>5, <1>4 DEF Guest!End, HeardOf
<1>6. CASE \/ Guest!Lookup(a) \/ Guest!Policy(a) \/ Guest!AcquireLease(a)
           \/ Guest!Consume(a) \/ Guest!Dispatch(a)
  <2>1. guestAt[a] \in {"lookup", "policy", "lease", "consume", "dispatch"}
    BY <1>6 DEF Guest!Lookup, Guest!Policy, Guest!AcquireLease, Guest!Consume, Guest!Dispatch
  <2>2. a \notin effects BY <2>1, <1>e DEF Late
  <2>3. UNCHANGED <<run, effects>>
    BY <1>6 DEF Guest!Lookup, Guest!Policy, Guest!AcquireLease, Guest!Consume, Guest!Dispatch
  <2>4. run[a] = {} BY <2>1, <1>4 DEF HeardOf, Late
  <2> QED BY <2>2, <2>3, <2>4 DEF HeardOf
<1>7. CASE Guest!Guest(a)
  <2>1. guestAt[a] = "guest" /\ guestAt'[a] = "reply" /\ run' = run
    BY <1>7, <1>0 DEF Guest!Guest
  <2> QED BY <2>1, <1>4 DEF HeardOf, Late
<1>8. CASE Guest!Reply(a)
  <2>1. PICK reply \in Guest!Replies(a) :
           LET e == Guest!ReplyError(reply, guestCtx[a])
               r == IF e = {} /\ guestCtx[a] # "live" THEN {guestCtx[a]} ELSE e
           IN /\ run' = [run EXCEPT ![a] = r] /\ err' = [err EXCEPT ![a] = r]
              /\ outcome' = [outcome EXCEPT ![a] = Guest!OutcomeOf(r)]
    BY <1>8 DEF Guest!Reply, Guest!Ended
  <2> DEFINE e == Guest!ReplyError(reply, guestCtx[a])
             r == IF e = {} /\ guestCtx[a] # "live" THEN {guestCtx[a]} ELSE e
  <2>2. /\ run'[a] = r /\ err'[a] = r /\ outcome'[a] = Guest!OutcomeOf(r)
        /\ guestAt'[a] = "save" /\ effects' = effects
    BY <1>8, <2>1, <1>0 DEF Guest!Reply
  <2>3. Guarded /\ a \in effects => e \in {{}, {"uncertain"}}
    <3>1. Guarded /\ a \in effects => reply \in {"garbage", "transport", "ok", "cleared"}
      BY <2>1 DEF Guest!Replies
    <3> QED BY <3>1 DEF Guest!ReplyError
  <2> HIDE DEF e
  <2>4. Guarded /\ a \in effects => r \in {{}, {"uncertain"}, {"canceled"}, {"deadline"}}
    BY <2>3, <1>0
  <2> HIDE DEF r
  <2> QED BY <2>2, <2>4 DEF HeardOf, Late
<1>9. CASE Guest!Save(a) \/ Guest!Audit(a) \/ Guest!Release(a)
  <2>1. /\ guestAt[a] \in Late /\ guestAt'[a] \in Late /\ UNCHANGED <<run, effects>>
        /\ err'[a] = err[a] \/ \E c \in {"deadline", "other"} : err'[a] = err[a] \cup {c}
        /\ outcome'[a] = outcome[a] \/ (outcome'[a] = "none" /\ err'[a] # {})
    BY <1>9, <1>0 DEF Guest!Save, Guest!Audit, Guest!Release, Late
  <2> QED BY <2>1, <1>4 DEF HeardOf, Late
<1>10. CASE Guest!Respond(a)
  <2>1. /\ guestAt[a] = "respond" /\ guestAt'[a] = "done" /\ UNCHANGED <<run, err, effects>>
        /\ told'[a] \in {Guest!Answered(a), Guest!Unknown}
    BY <1>10, <1>0 DEF Guest!Respond
  <2>2. Guest!Unknown.says = "unknown" BY DEF Guest!Unknown
  <2> SUFFICES ASSUME Guarded, a \in effects
               PROVE  /\ run[a] # {} => told'[a].says \in run[a] \cup {"unknown"}
                      /\ run[a] = {} => \/ told'[a].says \in {"success", "unknown"}
                                        \/ err[a] # {} /\ told'[a].outcome = "none"
    BY <2>1, <1>4 DEF HeardOf, Late
  <2>3. /\ run[a] \in {{}, {"uncertain"}, {"canceled"}, {"deadline"}}
        /\ run[a] \subseteq err[a] /\ err[a] \subseteq run[a] \cup {"deadline", "other"}
        /\ outcome[a] = Guest!OutcomeOf(run[a]) \/ (outcome[a] = "none" /\ err[a] # {})
    BY <2>1, <1>4 DEF HeardOf, Late
  <2>4. CASE run[a] # {}
    <3>1. err[a] # {} /\ Guest!Category(err[a]) \in run[a]
      BY <2>3, <2>4 DEF Guest!Category
    <3>2. Guest!Answered(a).says \in {Guest!Category(err[a]), "unknown"}
      BY <3>1, <2>2 DEF Guest!Answered
    <3> QED BY <2>1, <2>2, <2>4, <3>1, <3>2
  <2>5. CASE run[a] = {}
    <3>1. outcome[a] = "success" \/ (outcome[a] = "none" /\ err[a] # {})
      BY <2>3, <2>5 DEF Guest!OutcomeOf
    <3>2. CASE err[a] = {}
      <4>1. Guest!Answered(a).says = "success"
        BY <3>1, <3>2 DEF Guest!Answered, Guest!HandsOut
      <4> QED BY <2>1, <2>2, <2>5, <4>1
    <3>3. CASE err[a] # {}
      <4>1. ~Guest!HandsOut(a) BY <3>1, <3>3 DEF Guest!HandsOut
      <4>2. Guest!Answered(a).outcome = "none" BY <4>1 DEF Guest!Answered
      <4> QED BY <2>1, <2>2, <2>5, <3>3, <4>2
    <3> QED BY <3>2, <3>3
  <2> QED BY <2>4, <2>5
<1> QED BY <1>5, <1>6, <1>7, <1>8, <1>9, <1>10 DEF GuestStep

(* Every step keeps one attempt at the guest, and outcomes what they mean. *)
LEMMA GuestSafe ==
    ASSUME GuestInv, NEW a \in Attempt, GuestStep(a)
    PROVE  GuestInv'
<1>0. Guest!GuestTypeOK' /\ Told' BY GuestType
<1>h. Heard' BY HeardStep
<1> USE <1>0 DEF GuestInv, Guest!GuestTypeOK, Told, Guest!Go, Guest!Fails, Acting, UsedUp, OneActs,
        Recorded, Guest!ShownIsTrue
<1> DEFINE Rest == OneActs /\ Recorded /\ Guest!ShownIsTrue
<1>1. ASSUME Guest!End(a) PROVE Rest' BY <1>1 DEF Guest!End
<1>2. ASSUME Guest!Lookup(a) PROVE Rest' BY <1>2 DEF Guest!Lookup
<1>3. ASSUME Guest!Policy(a) PROVE Rest'
  <2>1. OneActs' BY <1>3 DEF Guest!Policy
  <2>2. Recorded'
    <3>1. /\ guestAt[a] = "policy" /\ UNCHANGED <<consumed, effects, guestReceipts, told>>
          /\ \/ /\ guestAt' = [guestAt EXCEPT ![a] = "save"]
                /\ outcome' = [outcome EXCEPT ![a] = "denied"]
             \/ /\ guestAt' = [guestAt EXCEPT ![a] = "respond"] /\ UNCHANGED outcome
             \/ /\ guestAt' = [guestAt EXCEPT ![a] = "lease"] /\ UNCHANGED outcome
      BY <1>3 DEF Guest!Policy
    <3>2. UsedUp => UsedUp' BY <3>1
    <3> QED BY <3>1, <3>2
  <2>3. Guest!ShownIsTrue' BY <1>3 DEF Guest!Policy
  <2> QED BY <2>1, <2>2, <2>3
<1>4. ASSUME Guest!AcquireLease(a) PROVE Rest'
  <2>1. OneActs' BY <1>4 DEF Guest!AcquireLease
  <2>2. Recorded' BY <1>4 DEF Guest!AcquireLease
  <2>3. Guest!ShownIsTrue' BY <1>4 DEF Guest!AcquireLease
  <2> QED BY <2>1, <2>2, <2>3
<1>5. ASSUME Guest!Consume(a) PROVE Rest' BY <1>5 DEF Guest!Consume
<1>6. ASSUME Guest!Dispatch(a) PROVE Rest'
  <2>1. OneActs'
    <3>1. effects = {} /\ \A b \in Attempt : guestAt[b] \in Acting => b = a
      BY <1>6 DEF Guest!Dispatch
    <3>2. /\ effects' = effects
          /\ \/ guestAt' = [guestAt EXCEPT ![a] = "guest"] /\ consumed /\ consumed' = consumed
             \/ guestAt' = [guestAt EXCEPT ![a] = "respond"]
      BY <1>6 DEF Guest!Dispatch
    <3>3. \A b \in Attempt : guestAt'[b] \in Acting => b = a /\ guestAt'[a] = "guest"
      BY <3>1, <3>2
    <3> QED BY <3>1, <3>2, <3>3
  <2>2. Recorded' BY <1>6 DEF Guest!Dispatch
  <2>3. Guest!ShownIsTrue' BY <1>6 DEF Guest!Dispatch
  <2> QED BY <2>1, <2>2, <2>3
<1>7. ASSUME Guest!Guest(a) PROVE Rest'
  <2>1. effects = {} /\ consumed /\ ~UsedUp BY <1>7 DEF Guest!Guest
  <2>2. OneActs' BY <1>7, <2>1 DEF Guest!Guest
  <2>3. Recorded' BY <1>7, <2>1 DEF Guest!Guest
  <2>4. Guest!ShownIsTrue' BY <1>7, <2>1 DEF Guest!Guest
  <2> QED BY <2>2, <2>3, <2>4
<1>8. ASSUME Guest!Reply(a) PROVE Rest'
  <2>1. PICK reply \in Guest!Replies(a) :
           LET e == Guest!ReplyError(reply, guestCtx[a])
               r == IF e = {} /\ guestCtx[a] # "live" THEN {guestCtx[a]} ELSE e
           IN outcome' = [outcome EXCEPT ![a] = Guest!OutcomeOf(r)]
    BY <1>8 DEF Guest!Reply, Guest!Ended
  <2> DEFINE e == Guest!ReplyError(reply, guestCtx[a])
             r == IF e = {} /\ guestCtx[a] # "live" THEN {guestCtx[a]} ELSE e
             o == Guest!OutcomeOf(r)
  <2>2. /\ outcome' = [outcome EXCEPT ![a] = o] /\ guestAt' = [guestAt EXCEPT ![a] = "save"]
        /\ guestAt[a] = "reply" /\ UNCHANGED <<consumed, effects, guestReceipts, told>>
    BY <1>8, <2>1 DEF Guest!Reply
  <2>3. o = "success" => a \in effects
    <3>1. o = "success" => r = {} BY DEF Guest!OutcomeOf
    <3>2. r = {} => e = {} OBVIOUS
    <3>3. e = {} => reply = "ok" BY DEF Guest!ReplyError
    <3> QED BY <3>1, <3>2, <3>3, <2>1 DEF Guest!Replies
  <2>4. Guarded /\ o = "failed" => a \notin effects
    <3>1. o = "failed" => r \notin {{}, {"uncertain"}, {"canceled"}, {"deadline"}}
      BY DEF Guest!OutcomeOf
    <3>2. guestCtx[a] # "live" => guestCtx[a] \in {"canceled", "deadline"} OBVIOUS
    <3>3. o = "failed" => e \notin {{}, {"uncertain"}} BY <3>1, <3>2
    <3>a. reply \in {"garbage", "transport", "ok", "rejected", "cleared"} BY <2>1 DEF Guest!Replies
    <3>4. Guarded /\ e \notin {{}, {"uncertain"}} => reply = "rejected"
      BY <3>a DEF Guest!ReplyError
    <3> QED BY <3>3, <3>4, <2>1 DEF Guest!Replies
  <2>5. o # "none" BY DEF Guest!OutcomeOf
  <2> HIDE DEF o
  <2>6. OneActs' BY <2>2
  <2>7. Recorded' BY <2>2, <2>3, <2>4, <2>5
  <2>8. Guest!ShownIsTrue' BY <2>2
  <2> QED BY <2>6, <2>7, <2>8
<1>9. ASSUME Guest!Save(a) PROVE Rest'
  <2>1. /\ UNCHANGED <<consumed, effects, told>> /\ guestAt[a] = "save"
        /\ \/ /\ guestReceipts' = Guest!Saved(a) /\ UNCHANGED outcome
              /\ guestAt' = [guestAt EXCEPT ![a] = "audit"]
           \/ /\ guestReceipts' \in {guestReceipts, Guest!Saved(a)}
              /\ outcome' = [outcome EXCEPT ![a] = "none"]
              /\ guestAt' = [guestAt EXCEPT ![a] = "release"]
    BY <1>9 DEF Guest!Save
  <2>2. /\ guestReceipts \subseteq guestReceipts'
        /\ \A x \in guestReceipts' : x \in guestReceipts \/ x.outcome = outcome[a]
    BY <2>1 DEF Guest!Saved
  <2>3. guestReceipts' = Guest!Saved(a) => \E x \in guestReceipts' : x.outcome = outcome[a]
    <3>1. [by |-> a, outcome |-> outcome[a]] \in Guest!Saved(a) BY DEF Guest!Saved
    <3>2. [by |-> a, outcome |-> outcome[a]].outcome = outcome[a] OBVIOUS
    <3> QED BY <3>1, <3>2
  <2>4. OneActs' BY <2>1
  <2>5. Recorded' BY <2>1, <2>2, <2>3
  <2>6. Guest!ShownIsTrue' BY <2>1, <2>2
  <2> QED BY <2>4, <2>5, <2>6
<1>10. ASSUME Guest!Audit(a) PROVE Rest' BY <1>10 DEF Guest!Audit
<1>11. ASSUME Guest!Release(a) PROVE Rest' BY <1>11 DEF Guest!Release
<1>12. ASSUME Guest!Respond(a) PROVE Rest'
  <2>1. /\ guestAt[a] = "respond" /\ guestAt' = [guestAt EXCEPT ![a] = "done"]
        /\ UNCHANGED <<consumed, effects, outcome, guestReceipts>>
        /\ told' = [told EXCEPT ![a] = Guest!Answered(a)] \/ told' = [told EXCEPT ![a] = Guest!Unknown]
    BY <1>12 DEF Guest!Respond
  <2>2. Guest!Answered(a).outcome # "none" =>
          /\ Guest!Answered(a).says = Guest!Answered(a).outcome
          /\ Guest!Answered(a).outcome = outcome[a]
    BY DEF Guest!Answered, Guest!Unknown, Guest!HandsOut, Guest!Matches
  <2>3. Guest!Unknown.outcome = "none" BY DEF Guest!Unknown
  <2>4. \A b \in Attempt : told'[b] = told[b] \/ (b = a /\ told'[b] \in {Guest!Answered(a), Guest!Unknown})
    BY <2>1
  <2>5. OneActs' BY <2>1
  <2>6. Recorded'
    <3>1. ASSUME NEW b \in Attempt, Guarded, told'[b].outcome = "failed" PROVE UsedUp
      <4>1. told[b].outcome = "failed" \/ outcome[a] = "failed"
        BY <2>2, <2>3, <2>4, <3>1
      <4> HIDE DEF UsedUp
      <4> QED BY <4>1, <3>1
    <3>2. UsedUp => UsedUp' BY <2>1
    <3> QED BY <2>1, <3>1, <3>2
  <2>7. Guest!ShownIsTrue' BY <2>1, <2>2, <2>3, <2>4
  <2> QED BY <2>5, <2>6, <2>7
<1>13. Rest'
  BY <1>1, <1>2, <1>3, <1>4, <1>5, <1>6, <1>7, <1>8, <1>9, <1>10, <1>11, <1>12 DEF GuestStep
<1> QED BY <1>0, <1>h, <1>13

(* The inductive invariant of the guest actions.                           *)
LEMMA GuestInvariant == Guest!GuestSpec => []GuestInv
<1>1. GuestInv /\ [Guest!GuestNext]_Guest!gvars => GuestInv'
  <2>1. ASSUME GuestInv, Guest!GuestNext PROVE GuestInv'
    <3>1. PICK a \in Attempt : GuestStep(a) BY <2>1 DEF Guest!GuestNext, GuestStep
    <3> QED BY <2>1, <3>1, GuestSafe
  <2>2. ASSUME GuestInv, UNCHANGED Guest!gvars PROVE GuestInv'
    <3> USE <2>2 DEF Guest!gvars
    <3>1. Guest!GuestTypeOK' BY DEF GuestInv, Guest!GuestTypeOK
    <3>2. Told' /\ OneActs' BY DEF GuestInv, Told, OneActs, Acting
    <3>3. UsedUp' <=> UsedUp BY DEF UsedUp, Acting
    <3>4. Recorded' BY <3>3 DEF GuestInv, Recorded, Acting
    <3>5. Guest!ShownIsTrue' BY DEF GuestInv, Guest!ShownIsTrue
    <3>6. Heard' BY DEF GuestInv, Heard, HeardOf
    <3> QED BY <3>1, <3>2, <3>4, <3>5, <3>6 DEF GuestInv
  <2> QED BY <2>1, <2>2
<1> QED BY <1>1, InitGuest, PTL DEF Guest!GuestSpec

(* For any number of attempts, retried however early, guarded or not, and  *)
(* any number of faults: the guest acts at most once on an idempotency     *)
(* key, no caller is shown a receipt that the store or the error beside it *)
(* contradicts, or a success that the guest did not act on, and the caller *)
(* of a guarded write that the guest may have acted on hears that it is    *)
(* uncertain, aborted or unknown, whatever the host fails at afterwards.   *)
THEOREM GuestCorrect == Guest!GuestSpec => []GuestHolds
<1>1. GuestInv => Guest!ActsOnce
  <2> SUFFICES ASSUME GuestInv PROVE Cardinality(effects) <= 1
    BY Zenon DEF Guest!ActsOnce, Cardinality, Guest!Cardinality, IsFiniteSet, Guest!IsFiniteSet
  <2>1. CASE effects = {} BY <2>1, FS_EmptySet
  <2>2. CASE effects # {}
    <3>1. PICK a \in effects : TRUE BY <2>2
    <3>2. effects = {a} BY <3>1 DEF GuestInv, OneActs
    <3> QED BY <3>2, FS_Singleton
  <2> QED BY <2>1, <2>2
<1>2. GuestInv => Guest!UncertainIsKept
  <2> SUFFICES ASSUME GuestInv, Guarded, NEW a \in Attempt
               PROVE  /\ told[a].outcome = "failed" => effects = {}
                      /\ a \in effects /\ guestAt[a] = "done" =>
                           /\ run[a] # {} =>
                                /\ run[a] \subseteq {"uncertain", "canceled", "deadline"}
                                /\ told[a].says \in run[a] \cup {"unknown"}
                           /\ run[a] = {} => \/ told[a].says \in {"success", "unknown"}
                                             \/ err[a] # {} /\ told[a].outcome = "none"
    BY DEF Guest!UncertainIsKept
  <2>1. told[a].outcome = "failed" => effects = {} BY DEF GuestInv, Recorded, UsedUp
  <2>2. HeardOf(a) BY DEF GuestInv, Heard
  <2> QED BY <2>1, <2>2 DEF HeardOf
<1>3. GuestInv => GuestHolds
  <2> HIDE DEF Guest!ActsOnce, Guest!UncertainIsKept, Guest!ShownIsTrue
  <2> QED BY <1>1, <1>2 DEF GuestInv, GuestHolds
<1> QED BY <1>3, GuestInvariant, PTL

-----------------------------------------------------------------------------
(* Recordings.                                                             *)

(* Types: what a producer keeps, what is on the disk, what readers keep.   *)
ProducerTyped ==
    /\ at \in [Recording -> At]
    /\ publishing \in [Recording -> [stage : Stage, step : {"mark", "rename", "sync", "unmark"}]]
    /\ mem \in [Recording -> Status] /\ seq \in [Recording -> Nat]
    /\ calls \in [Recording -> Nat] /\ valid \in [Recording -> Nat]
DiskTyped ==
    /\ dir \in [Recording -> BOOLEAN] /\ marker \in [Recording -> BOOLEAN]
    /\ DOMAIN snaps = Recording
    /\ \A r \in Recording : /\ DOMAIN snaps[r] \subseteq 0..Limit
                            /\ \A k \in DOMAIN snaps[r] : snaps[r][k] \in Status
    /\ durable \in [Recording -> SUBSET (0..Limit)]
ReadersTyped ==
    /\ look \in [Reader -> [at : {"idle", "list", "recheck"}, of : Recording \cup {Nobody},
                            number : 0..Limit]]
    /\ \A q \in Reader : look[q].at # "idle" => look[q].of \in Recording
    /\ answer \in [Reader -> [of : Recording \cup {Nobody}, number : 0..Limit,
                              status : Status \cup {NoStatus}]]
RecorderTyped ==
    /\ ProducerTyped /\ DiskTyped /\ ReadersTyped
    /\ lease \in Recording \cup {Nobody} /\ expired \subseteq Recording

(* Before the directory is made there is nothing of a recording.           *)
Unmade == {"idle", "admit", "mkdir"}
Publishes(r, stage) == at[r] = "publish" /\ publishing[r].stage = stage

(* The producer's document and its number, at every step: the captures it  *)
(* announces are those it made, but for the one between the publication    *)
(* before it and the one after.                                            *)
Counted(r) == mem[r].attempted = calls[r] /\ ~mem[r].flight
Open(r) == mem[r].reason = ""
Documented(r) ==
    /\ at[r] # "lock" /\ mem[r].completed = valid[r]
    /\ at[r] \in Unmade \/ Publishes(r, "first") => mem[r] = Fresh /\ calls[r] = 0
    /\ Publishes(r, "first") => seq[r] = 0
    /\ at[r] \in Unmade => ~dir[r] /\ ~marker[r] /\ DOMAIN snaps[r] = {}
    /\ at[r] \in {"release", "frame", "encode"} =>
         Counted(r) /\ Open(r) /\ calls[r] = valid[r] /\ seq[r] = 2 * calls[r]
    /\ Publishes(r, "before") \/ at[r] = "capture" =>
         /\ mem[r].attempted = valid[r] + 1 /\ mem[r].flight /\ Open(r)
         /\ seq[r] = 2 * valid[r] + 1
         /\ calls[r] = valid[r] \/ (at[r] = "capture" /\ calls[r] = valid[r] + 1)
    /\ Publishes(r, "after") \/ at[r] = "save" =>
         Counted(r) /\ Open(r) /\ valid[r] <= calls[r] /\ seq[r] = 2 * calls[r]
    /\ at[r] = "end" => Counted(r) /\ Open(r) /\ seq[r] < Limit
    /\ Publishes(r, "finish") => Counted(r) /\ ~Open(r) /\ seq[r] <= Limit

(* The snapshots of a recording never claim more than was done; a terminal *)
(* one counts exactly and is behind the marker until the producer is done. *)
Claims(r, d) ==
    /\ d.completed <= valid[r] /\ d.attempted <= calls[r] + 1
    /\ Terminal(d) => ~d.flight /\ d.attempted = calls[r] /\ d.completed = valid[r]
Closing(r) == Publishes(r, "finish") /\ publishing[r].step \in {"sync", "unmark"}
Truthful(r) == \A k \in DOMAIN snaps[r] :
    /\ Claims(r, snaps[r][k])
    /\ Terminal(snaps[r][k]) => /\ at[r] \in {"done", "dead"} \/ Closing(r)
                                /\ at[r] # "done" => marker[r]

(* A snapshot that is not durable is behind the marker for good, but for   *)
(* the one whose directory is about to be synchronized.                    *)
Marked(r) ==
    /\ at[r] = "publish" /\ publishing[r].step # "mark" => marker[r]
    /\ \A k \in DOMAIN snaps[r] : k \notin durable[r] =>
         /\ marker[r]
         /\ at[r] = "publish" => publishing[r].step \in {"mark", "sync"}
         /\ at[r] = "publish" /\ publishing[r].step = "sync" => k = seq[r]

Sound(r) == Documented(r) /\ Truthful(r) /\ Marked(r)

(* What a reader was answered holds for good.                              *)
Answers(q) == LET a == answer[q] IN a.of # Nobody =>
    /\ at[a.of] \notin Unmade /\ Claims(a.of, a.status)
    /\ Terminal(a.status) => at[a.of] = "done"
    /\ dir[a.of] => a.number \in durable[a.of]

(* One producer at a time reserves, and it has counted the reservations.   *)
Reserving(r) == at[r] \in {"admit", "mkdir", "release", "refused"} \/ Publishes(r, "first")
Reservations ==
    /\ \A r \in Recording : Reserving(r) => lease = r
    /\ \A r \in Recording : at[r] = "mkdir" => Cardinality(Reserved) < Capacity
    /\ IsFiniteSet(Reserved) /\ CapacityHolds

RecorderInv ==
    /\ RecorderTyped /\ Reservations
    /\ \A r \in Recording : Sound(r)
    /\ \A q \in Reader : Answers(q)

(* The greatest element of a bounded set of numbers that is not empty.     *)
LEMMA MaxOf ==
    ASSUME NEW n \in Nat, NEW S \in SUBSET (0..n), S # {}
    PROVE  Max(S) \in S /\ \A y \in S : y <= Max(S)
<1> DEFINE Bounds == {b \in Nat : \A y \in S : y <= b}
           R == OpToRel(<, Nat)
<1>1. n \in Bounds /\ Bounds \in SUBSET Nat OBVIOUS
<1>2. IsWellFoundedOn(R, Nat) BY NatLessThanWellFounded
<1>3. \A x, y \in Nat : <<x, y>> \in R <=> x < y BY DEF OpToRel
<1> HIDE DEF R
<1>4. PICK b \in Bounds : \A c \in Bounds : ~ (<<c, b>> \in R) BY <1>1, <1>2, WFMin
<1>5. \A c \in Bounds : ~(c < b) BY <1>1, <1>3, <1>4
<1>6. b \in S
  <2>1. SUFFICES ASSUME b \notin S PROVE FALSE OBVIOUS
  <2>2. b \in Nat /\ \A y \in S : y \in Nat /\ y < b BY <2>1
  <2>3. b - 1 \in Nat /\ b - 1 < b
    <3>1. PICK y \in S : TRUE OBVIOUS
    <3> QED BY <2>2, <3>1
  <2>4. \A y \in S : y <= b - 1 BY <2>2, <2>3
  <2> QED BY <1>5, <2>3, <2>4
<1>7. \E x \in S : \A y \in S : x >= y BY <1>6
<1>8. Max(S) \in S /\ \A y \in S : Max(S) >= y BY <1>7 DEF Max
<1> QED BY <1>8

(* The first status of a recording.                                        *)
LEMMA FreshTyped == Fresh \in Status /\ Fresh.completed = 0 /\ Fresh.attempted = 0
<1>1. 0 \in 0..MaxFrames BY RecorderConstants
<1> QED BY <1>1, Zenon DEF Fresh, Status

(* It announces no capture and is not terminal.                            *)
LEMMA FreshOpen == Fresh.reason = "" /\ ~Fresh.flight
BY Zenon DEF Fresh

(* Nothing is recorded: the invariant holds.                               *)
LEMMA InitRecorder == RecorderInit => RecorderInv
<1> SUFFICES ASSUME RecorderInit PROVE RecorderInv
  OBVIOUS
<1> USE RecorderConstants DEF RecorderInit
<1>1. Fresh \in Status /\ Fresh.completed = 0 /\ Fresh.attempted = 0 BY FreshTyped
<1>2. RecorderTyped
  <2>1. dir \in [Recording -> BOOLEAN] /\ marker \in [Recording -> BOOLEAN] BY Zenon
  <2>2. \A r \in Recording : DOMAIN snaps[r] = {} OBVIOUS
  <2>3. DiskTyped BY <2>1, <2>2 DEF DiskTyped
  <2>4. ProducerTyped BY <1>1 DEF ProducerTyped, At, Stage
  <2>5. ReadersTyped BY DEF ReadersTyped, NoLook
  <2> QED BY <2>3, <2>4, <2>5 DEF RecorderTyped
<1>3. Reserved = {} BY DEF Reserved
<1>4. Reservations BY <1>3, FS_EmptySet DEF Reservations, Reserving, Publishes, CapacityHolds
<1>5. ASSUME NEW r \in Recording PROVE Sound(r)
  <2>1. DOMAIN snaps[r] = {} /\ at[r] = "idle" OBVIOUS
  <2> QED BY <1>1, <2>1 DEF Sound, Documented, Publishes, Truthful, Marked, Unmade
<1>6. \A q \in Reader : Answers(q) BY DEF Answers
<1> QED BY <1>2, <1>4, <1>5, <1>6 DEF RecorderInv

RecStep(r) ==
    \/ AcquireLease(r) \/ Admit(r) \/ Mkdir(r) \/ Release(r)
    \/ Mark(r) \/ Rename(r) \/ SyncRoot(r) \/ Unmark(r)
    \/ BeforeCapture(r) \/ CaptureStarts(r) \/ AfterCapture(r) \/ SaveFrame(r)
    \/ Encode(r) \/ Finish(r) \/ Expire(r)

(* The number of a publication is within the limit.                        *)
LEMMA Numbers ==
    ASSUME RecorderInv, NEW r \in Recording, at[r] = "publish"
    PROVE  seq[r] \in 0..Limit
<1> USE RecorderConstants DEF RecorderInv, RecorderTyped
<1>1. /\ mem[r] \in Status /\ valid[r] \in Nat /\ calls[r] \in Nat /\ seq[r] \in Nat
      /\ publishing[r].stage \in Stage
  BY DEF ProducerTyped
<1>2. mem[r].attempted \in 0..MaxFrames BY <1>1 DEF Status
<1>3. \/ seq[r] = 0 \/ seq[r] = 2 * mem[r].attempted - 1
      \/ seq[r] = 2 * mem[r].attempted \/ seq[r] <= Limit
  BY <1>1, <1>2 DEF Sound, Documented, Publishes, Counted, Stage
<1> QED BY <1>1, <1>2, <1>3

(* A publication that ends in vain keeps the producer's types: a capture   *)
(* that is taken back was announced.                                       *)
LEMMA UnpublishedTyped ==
    ASSUME RecorderInv, NEW r \in Recording, at[r] = "publish", Unpublished(r),
           UNCHANGED <<seq, calls, valid>>
    PROVE  ProducerTyped'
<1> USE RecorderConstants DEF RecorderInv, RecorderTyped, ProducerTyped, Unpublished, Go
<1>1. at' \in [Recording -> At] BY DEF At
<1>2. mem' \in [Recording -> Status]
  <2>1. CASE publishing[r].stage = "before"
    <3>1. mem[r].attempted = valid[r] + 1 BY <2>1 DEF Sound, Documented, Publishes
    <3>a. mem[r] \in Status /\ valid[r] \in Nat OBVIOUS
    <3>b. mem[r].attempted \in 0..MaxFrames BY <3>a DEF Status
    <3>2. mem[r].attempted - 1 \in 0..MaxFrames BY <3>1, <3>a, <3>b
    <3>3. [mem[r] EXCEPT !.attempted = @ - 1, !.flight = FALSE] \in Status BY <3>a, <3>2 DEF Status
    <3>4. mem' = [mem EXCEPT ![r] = [mem[r] EXCEPT !.attempted = @ - 1, !.flight = FALSE]]
      BY <2>1
    <3> QED BY <3>3, <3>4
  <2>2. CASE publishing[r].stage # "before" BY <2>2
  <2> QED BY <2>1, <2>2
<1> QED BY <1>1, <1>2

(* A new publication keeps them too.                                       *)
LEMMA PersistTyped ==
    ASSUME ProducerTyped, NEW r \in Recording, NEW stage \in Stage, NEW d \in Status,
           Persist(r, stage, d)
    PROVE  /\ at' \in [Recording -> At] /\ mem' \in [Recording -> Status]
           /\ seq' \in [Recording -> Nat]
           /\ publishing' \in [Recording -> [stage : Stage,
                                             step : {"mark", "rename", "sync", "unmark"}]]
BY DEF ProducerTyped, Persist, Go, At

(* Every step of a producer keeps the types.                               *)
LEMMA RecorderType ==
    ASSUME RecorderInv, NEW r \in Recording, RecStep(r)
    PROVE  RecorderTyped'
<1> USE RecorderConstants DEF RecorderInv, RecorderTyped, Works, Fault
<1>1. CASE AcquireLease(r)
  <2>1. ProducerTyped' BY <1>1 DEF AcquireLease, ProducerTyped, Go, At
  <2>2. DiskTyped' /\ ReadersTyped' BY <1>1 DEF AcquireLease, DiskTyped, ReadersTyped, disk
  <2> QED BY <1>1, <2>1, <2>2 DEF AcquireLease
<1>2. CASE Admit(r)
  <2>1. ProducerTyped' BY <1>2 DEF Admit, ProducerTyped, Go, At, Refuse
  <2>2. ReadersTyped' BY <1>2 DEF Admit, ReadersTyped
  <2>3. DiskTyped'
    <3>1. CASE UNCHANGED disk BY <3>1 DEF disk, DiskTyped
    <3>2. ASSUME NEW gone \in SUBSET Recording,
                 dir' = [x \in Recording |-> dir[x] /\ x \notin gone],
                 snaps' = [x \in Recording |-> IF x \in gone THEN << >> ELSE snaps[x]],
                 durable' = [x \in Recording |-> IF x \in gone THEN {} ELSE durable[x]],
                 UNCHANGED marker
          PROVE DiskTyped'
      <4>1. dir' \in [Recording -> BOOLEAN] /\ marker' \in [Recording -> BOOLEAN]
        BY <3>2 DEF DiskTyped
      <4>2. \A x \in Recording : snaps'[x] = IF x \in gone THEN << >> ELSE snaps[x] BY <3>2
      <4>3. DOMAIN << >> = {} OBVIOUS
      <4>4. \A x \in Recording : /\ DOMAIN snaps'[x] \subseteq 0..Limit
                                 /\ \A k \in DOMAIN snaps'[x] : snaps'[x][k] \in Status
        BY <4>2, <4>3 DEF DiskTyped
      <4>5. durable' \in [Recording -> SUBSET (0..Limit)] BY <3>2 DEF DiskTyped
      <4> QED BY <3>2, <4>1, <4>4, <4>5 DEF DiskTyped
    <3>3. ASSUME NEW x \in Recording, NEW kept \in SUBSET DOMAIN snaps[x],
                 snaps' = [snaps EXCEPT ![x] = [k \in kept |-> @[k]]],
                 UNCHANGED <<dir, marker, durable>>
          PROVE DiskTyped'
      <4>1. \A y \in Recording : snaps'[y] = IF y = x THEN [k \in kept |-> snaps[x][k]] ELSE snaps[y]
        BY <3>3 DEF DiskTyped
      <4> QED BY <3>3, <4>1 DEF DiskTyped
    <3> QED BY <1>2, <3>1, <3>2, <3>3 DEF Admit, Refuse
  <2> QED BY <1>2, <2>1, <2>2, <2>3 DEF Admit
<1>3. CASE Mkdir(r)
  <2>1. ProducerTyped'
    BY <1>3, FreshTyped, PersistTyped DEF Mkdir, Stage, ProducerTyped
  <2>2. DiskTyped' BY <1>3 DEF Mkdir, DiskTyped
  <2>3. ReadersTyped' BY <1>3 DEF Mkdir, ReadersTyped
  <2> QED BY <1>3, <2>1, <2>2, <2>3 DEF Mkdir
<1>4. CASE Release(r)
  <2>1. ProducerTyped' BY <1>4 DEF Release, ProducerTyped, Go, At
  <2>2. DiskTyped' /\ ReadersTyped' BY <1>4 DEF Release, DiskTyped, ReadersTyped, disk
  <2> QED BY <1>4, <2>1, <2>2 DEF Release
<1>5. CASE Mark(r)
  <2>1. ProducerTyped'
    <3>1. CASE Unpublished(r) BY <1>5, <3>1, UnpublishedTyped DEF Mark
    <3>2. CASE Step(r, "rename") /\ UNCHANGED <<at, mem>>
      BY <1>5, <3>2 DEF Mark, ProducerTyped, Step
    <3> QED BY <1>5, <3>1, <3>2 DEF Mark
  <2>2. marker' \in [Recording -> BOOLEAN] BY <1>5 DEF Mark, DiskTyped
  <2>3. DiskTyped' BY <1>5, <2>2 DEF Mark, DiskTyped
  <2>4. ReadersTyped' BY <1>5 DEF Mark, ReadersTyped
  <2> QED BY <1>5, <2>1, <2>3, <2>4 DEF Mark
<1>6. CASE Rename(r)
  <2>1. ProducerTyped'
    <3>1. CASE Unpublished(r) BY <1>6, <3>1, UnpublishedTyped DEF Rename
    <3>2. CASE Step(r, "sync") /\ UNCHANGED <<at, mem>>
      BY <1>6, <3>2 DEF Rename, ProducerTyped, Step
    <3> QED BY <1>6, <3>1, <3>2 DEF Rename
  <2>2. DiskTyped'
    <3>1. CASE UNCHANGED snaps BY <1>6, <3>1 DEF Rename, DiskTyped
    <3>2. CASE snaps' # snaps
      <4>1. seq[r] \in 0..Limit /\ mem[r] \in Status
        BY <1>6, Numbers DEF Rename, ProducerTyped
      <4>2. \A x \in Recording : snaps'[x] = IF x = r
              THEN [k \in DOMAIN snaps[r] \cup {seq[r]} |->
                      IF k = seq[r] THEN mem[r] ELSE snaps[r][k]] ELSE snaps[x]
        BY <1>6, <3>2 DEF Rename, DiskTyped
      <4>3. DOMAIN snaps' = Recording BY <1>6, <3>2 DEF Rename, DiskTyped
      <4>a. /\ DOMAIN snaps'[r] = DOMAIN snaps[r] \cup {seq[r]}
            /\ \A k \in DOMAIN snaps'[r] :
                 snaps'[r][k] = IF k = seq[r] THEN mem[r] ELSE snaps[r][k]
        BY <4>2
      <4>b. \A x \in Recording : x # r => snaps'[x] = snaps[x] BY <4>2
      <4>4. \A x \in Recording : /\ DOMAIN snaps'[x] \subseteq 0..Limit
                                 /\ \A k \in DOMAIN snaps'[x] : snaps'[x][k] \in Status
        BY <4>1, <4>a, <4>b DEF DiskTyped
      <4> QED BY <1>6, <4>3, <4>4 DEF Rename, DiskTyped
    <3> QED BY <3>1, <3>2
  <2>3. ReadersTyped' BY <1>6 DEF Rename, ReadersTyped
  <2> QED BY <1>6, <2>1, <2>2, <2>3 DEF Rename
<1>7. CASE SyncRoot(r)
  <2>1. ProducerTyped'
    <3>1. CASE Unpublished(r) BY <1>7, <3>1, UnpublishedTyped DEF SyncRoot
    <3>2. CASE Step(r, "unmark") /\ UNCHANGED <<at, mem>>
      BY <1>7, <3>2 DEF SyncRoot, ProducerTyped, Step
    <3> QED BY <1>7, <3>1, <3>2 DEF SyncRoot
  <2>2. seq[r] \in 0..Limit BY <1>7, Numbers DEF SyncRoot
  <2>3. durable' \in [Recording -> SUBSET (0..Limit)] BY <1>7, <2>2 DEF SyncRoot, DiskTyped
  <2>4. DiskTyped' BY <1>7, <2>3 DEF SyncRoot, DiskTyped
  <2>5. ReadersTyped' BY <1>7 DEF SyncRoot, ReadersTyped
  <2> QED BY <1>7, <2>1, <2>4, <2>5 DEF SyncRoot
<1>8. CASE Unmark(r)
  <2>1. ProducerTyped'
    <3>1. CASE Unpublished(r) BY <1>8, <3>1, UnpublishedTyped DEF Unmark
    <3>2. CASE Go(r, Published(r)) /\ UNCHANGED <<publishing, mem>>
      <4>1. Published(r) \in At BY DEF Published, At, ProducerTyped, Stage
      <4> QED BY <1>8, <3>2, <4>1 DEF Unmark, ProducerTyped, Go
    <3> QED BY <1>8, <3>1, <3>2 DEF Unmark
  <2>2. marker' \in [Recording -> BOOLEAN] BY <1>8 DEF Unmark, DiskTyped
  <2>3. DiskTyped' BY <1>8, <2>2 DEF Unmark, DiskTyped
  <2>4. ReadersTyped' BY <1>8 DEF Unmark, ReadersTyped
  <2> QED BY <1>8, <2>1, <2>3, <2>4 DEF Unmark
<1>9. CASE BeforeCapture(r)
  <2> DEFINE d == [mem[r] EXCEPT !.attempted = @ + 1, !.flight = TRUE]
  <2>1. d \in Status
    <3>1. /\ mem[r] \in Status /\ valid[r] \in Nat /\ mem[r].attempted = valid[r]
          /\ valid[r] < MaxFrames
      BY <1>9 DEF BeforeCapture, ProducerTyped, Sound, Documented, Counted
    <3>2. mem[r].attempted + 1 \in 0..MaxFrames BY <3>1
    <3> QED BY <3>1, <3>2 DEF Status
  <2>2. ProducerTyped'
    <3>1. CASE Persist(r, "before", d)
      <4> HIDE DEF d
      <4> QED BY <1>9, <2>1, <3>1, PersistTyped DEF BeforeCapture, Stage, ProducerTyped
    <3>2. CASE Go(r, "end") /\ UNCHANGED <<mem, seq, publishing>>
      BY <1>9, <3>2 DEF BeforeCapture, ProducerTyped, Go, At
    <3> QED BY <1>9, <3>1, <3>2 DEF BeforeCapture
  <2>3. DiskTyped' /\ ReadersTyped' BY <1>9 DEF BeforeCapture, DiskTyped, ReadersTyped, disk
  <2> QED BY <1>9, <2>2, <2>3 DEF BeforeCapture
<1>10. CASE CaptureStarts(r)
  <2>1. ProducerTyped' BY <1>10 DEF CaptureStarts, ProducerTyped
  <2>2. DiskTyped' /\ ReadersTyped' BY <1>10 DEF CaptureStarts, DiskTyped, ReadersTyped, disk
  <2> QED BY <1>10, <2>1, <2>2 DEF CaptureStarts
<1>11. CASE AfterCapture(r)
  <2> DEFINE d == [mem[r] EXCEPT !.completed = @ + 1, !.flight = FALSE]
             e == [mem[r] EXCEPT !.flight = FALSE]
  <2>1. d \in Status /\ e \in Status
    <3>1. /\ mem[r] \in Status /\ valid[r] \in Nat /\ mem[r].attempted = valid[r] + 1
          /\ mem[r].completed = valid[r]
      BY <1>11 DEF AfterCapture, ProducerTyped, Sound, Documented
    <3>2. mem[r].attempted \in 0..MaxFrames BY <3>1 DEF Status
    <3>3. mem[r].completed + 1 \in 0..MaxFrames BY <3>1, <3>2
    <3> QED BY <3>1, <3>3 DEF Status
  <2>2. ProducerTyped'
    <3>1. /\ at' \in [Recording -> At] /\ mem' \in [Recording -> Status]
          /\ seq' \in [Recording -> Nat]
          /\ publishing' \in [Recording -> [stage : Stage,
                                            step : {"mark", "rename", "sync", "unmark"}]]
      <4>1. Persist(r, "after", d) \/ Persist(r, "after", e) BY <1>11 DEF AfterCapture
      <4> HIDE DEF d, e
      <4> QED BY <2>1, <4>1, PersistTyped DEF Stage
    <3>2. valid' \in [Recording -> Nat] /\ UNCHANGED calls BY <1>11 DEF AfterCapture, ProducerTyped
    <3> QED BY <3>1, <3>2 DEF ProducerTyped
  <2>3. DiskTyped' /\ ReadersTyped' BY <1>11 DEF AfterCapture, DiskTyped, ReadersTyped, disk
  <2> QED BY <1>11, <2>2, <2>3 DEF AfterCapture
<1>12. CASE SaveFrame(r)
  <2>1. ProducerTyped' BY <1>12 DEF SaveFrame, ProducerTyped, Go, At
  <2>2. DiskTyped' /\ ReadersTyped' BY <1>12 DEF SaveFrame, DiskTyped, ReadersTyped, disk
  <2> QED BY <1>12, <2>1, <2>2 DEF SaveFrame
<1>13. CASE Encode(r)
  <2> DEFINE d == [mem[r] EXCEPT !.reason = "completed"]
  <2>1. d \in Status
    <3>1. mem[r] \in Status BY DEF ProducerTyped
    <3> QED BY <3>1 DEF Status
  <2>2. ProducerTyped'
    <3>1. CASE Persist(r, "finish", d)
      <4> HIDE DEF d
      <4> QED BY <1>13, <2>1, <3>1, PersistTyped DEF Encode, Stage, ProducerTyped
    <3>2. CASE Go(r, "end") /\ UNCHANGED <<mem, seq, publishing>>
      BY <1>13, <3>2 DEF Encode, ProducerTyped, Go, At
    <3> QED BY <1>13, <3>1, <3>2 DEF Encode
  <2>3. DiskTyped' /\ ReadersTyped' BY <1>13 DEF Encode, DiskTyped, ReadersTyped, disk
  <2> QED BY <1>13, <2>2, <2>3 DEF Encode
<1>14. CASE Finish(r)
  <2> DEFINE d == [mem[r] EXCEPT !.reason = "failed"]
  <2>1. d \in Status
    <3>1. mem[r] \in Status BY DEF ProducerTyped
    <3> QED BY <3>1 DEF Status
  <2>2. Persist(r, "finish", d) BY <1>14 DEF Finish
  <2> HIDE DEF d
  <2>3. ProducerTyped' BY <1>14, <2>1, <2>2, PersistTyped DEF Finish, Stage, ProducerTyped
  <2>4. DiskTyped' /\ ReadersTyped' BY <1>14 DEF Finish, DiskTyped, ReadersTyped, disk
  <2> QED BY <1>14, <2>3, <2>4 DEF Finish
<1>15. CASE Expire(r)
  <2>1. ProducerTyped' BY <1>15 DEF Expire, ProducerTyped
  <2>2. DiskTyped' /\ ReadersTyped' BY <1>15 DEF Expire, DiskTyped, ReadersTyped, disk
  <2> QED BY <1>15, <2>1, <2>2 DEF Expire
<1> HIDE DEF RecorderTyped
<1> QED BY <1>1, <1>2, <1>3, <1>4, <1>5, <1>6, <1>7, <1>8, <1>9, <1>10, <1>11, <1>12, <1>13,
           <1>14, <1>15 DEF RecStep

(* What a step leaves alone of a recording, and how it may move it on.     *)
Same(x) ==
    /\ at'[x] = at[x] /\ publishing'[x] = publishing[x] /\ dir'[x] = dir[x]
    /\ marker'[x] = marker[x] /\ snaps'[x] = snaps[x] /\ durable'[x] = durable[x]
    /\ mem'[x] = mem[x] /\ seq'[x] = seq[x] /\ calls'[x] = calls[x] /\ valid'[x] = valid[x]
Onward(x) ==
    /\ at[x] \notin Unmade => /\ at'[x] \notin Unmade
                              /\ dir'[x] => dir[x] /\ durable[x] \subseteq durable'[x]
    /\ at[x] = "done" => at'[x] = "done" /\ calls'[x] = calls[x] /\ valid'[x] = valid[x]
    /\ calls[x] <= calls'[x] /\ valid[x] <= valid'[x]

(* A recording that a step leaves alone stays sound.                       *)
LEMMA SameSound ==
    ASSUME NEW x \in Recording, Sound(x), Same(x) PROVE Sound(x)'
<1> USE DEF Sound, Same, Publishes
<1>1. Documented(x)' BY DEF Documented, Counted, Open
<1>2. Truthful(x)' BY DEF Truthful, Claims, Closing
<1>3. Marked(x)' BY DEF Marked
<1> QED BY <1>1, <1>2, <1>3

(* A publication that ends in vain leaves a sound recording.               *)
LEMMA UnpublishedSound ==
    ASSUME RecorderInv, NEW r \in Recording, at[r] = "publish", Unpublished(r),
           marker[r] => marker'[r],
           UNCHANGED <<dir, snaps, durable, seq, calls, valid>>
    PROVE  Sound(r)' /\ Onward(r)
<1> USE RecorderConstants DEF RecorderInv, RecorderTyped, Publishes
<1>1. /\ mem[r] \in Status /\ valid[r] \in Nat /\ calls[r] \in Nat /\ seq[r] \in Nat
      /\ publishing[r].stage \in Stage /\ at \in [Recording -> At]
      /\ mem \in [Recording -> Status]
  BY DEF ProducerTyped
<1>2. mem[r].attempted \in 0..MaxFrames BY <1>1 DEF Status
<1>3. /\ at'[r] = CASE publishing[r].stage = "first"  -> "refused"
                    [] publishing[r].stage = "finish" -> "done"
                    [] OTHER -> "end"
      /\ publishing' = publishing
      /\ mem' = IF publishing[r].stage = "before"
                THEN [mem EXCEPT ![r].attempted = @ - 1, ![r].flight = FALSE] ELSE mem
  BY <1>1 DEF Unpublished, Go
<1>4. /\ mem'[r].completed = mem[r].completed /\ mem'[r].reason = mem[r].reason
      /\ publishing[r].stage = "before" => /\ mem'[r].attempted = mem[r].attempted - 1
                                           /\ ~mem'[r].flight
      /\ publishing[r].stage # "before" => mem'[r] = mem[r]
  BY <1>1, <1>3 DEF Status
<1>5. at'[r] \in {"refused", "done", "end"} BY <1>3
<1>6. Documented(r)'
  <2>1. mem'[r].completed = valid[r] BY <1>4 DEF Sound, Documented
  <2>2. at'[r] = "end" => publishing[r].stage \in {"before", "after"} BY <1>1, <1>3 DEF Stage
  <2>3. CASE publishing[r].stage = "before"
    <3>1. /\ mem[r].attempted = valid[r] + 1
          /\ seq[r] = 2 * valid[r] + 1 /\ calls[r] = valid[r]
      BY <2>3 DEF Sound, Documented
    <3>3. mem[r].reason = "" BY <2>3 DEF Sound, Documented, Open
    <3>a. valid[r] + 1 <= MaxFrames BY <1>1, <1>2, <3>1
    <3>b. 2 * valid[r] + 1 < Limit BY <1>1, <3>a
    <3>c. mem'[r].attempted = valid[r] BY <1>1, <1>4, <2>3, <3>1
    <3>2. mem'[r].attempted = calls[r] /\ seq[r] < Limit BY <3>1, <3>b, <3>c
    <3> QED BY <1>3, <1>4, <1>5, <2>1, <2>3, <3>1, <3>2, <3>3 DEF Documented, Counted, Open, Unmade
  <2>4. CASE publishing[r].stage = "after"
    <3>1. mem[r].attempted = calls[r] /\ seq[r] = 2 * calls[r]
      BY <2>4 DEF Sound, Documented, Counted
    <3>3. ~mem[r].flight /\ mem[r].reason = "" BY <2>4 DEF Sound, Documented, Open, Counted
    <3>a. calls[r] <= MaxFrames BY <1>1, <1>2, <3>1
    <3>b. 2 * calls[r] < Limit BY <1>1, <3>a
    <3>2. seq[r] < Limit BY <3>1, <3>b
    <3> QED BY <1>3, <1>4, <1>5, <2>1, <2>4, <3>1, <3>2, <3>3 DEF Documented, Counted, Open, Unmade
  <2> QED BY <1>5, <2>1, <2>2, <2>3, <2>4 DEF Documented, Unmade
<1>7. Truthful(r)'
  <2>1. \A k \in DOMAIN snaps[r] :
          /\ Claims(r, snaps[r][k])
          /\ Terminal(snaps[r][k]) => publishing[r].stage = "finish"
    BY DEF Sound, Truthful, Closing
  <2>2. publishing[r].stage = "finish" => at'[r] = "done" BY <1>3
  <2> QED BY <2>1, <2>2 DEF Truthful, Claims
<1>8. Marked(r)' BY <1>5 DEF Sound, Marked
<1>9. Onward(r) BY <1>1, <1>5 DEF Onward, Unmade
<1> QED BY <1>6, <1>7, <1>8, <1>9 DEF Sound

(* What a new publication changes: its producer and nothing else.          *)
LEMMA PersistEffect ==
    ASSUME ProducerTyped, NEW r \in Recording, NEW stage, NEW d, Persist(r, stage, d)
    PROVE  /\ at'[r] = "publish" /\ mem'[r] = d
           /\ publishing'[r].stage = stage /\ publishing'[r].step = "mark"
           /\ seq'[r] = IF stage = "first" THEN 0 ELSE seq[r] + 1
           /\ \A x \in Recording \ {r} : /\ at'[x] = at[x] /\ publishing'[x] = publishing[x]
                                         /\ mem'[x] = mem[x] /\ seq'[x] = seq[x]
BY DEF ProducerTyped, Persist, Go

(* What is on the disk stays sound when a publication begins.              *)
LEMMA PersistSound ==
    ASSUME RecorderInv, NEW r \in Recording, NEW stage, NEW d, Persist(r, stage, d),
           at[r] \in {"mkdir", "frame", "capture", "encode", "end"},
           UNCHANGED <<marker, snaps, durable, calls>>, valid'[r] \in Nat, valid[r] <= valid'[r]
    PROVE  Truthful(r)' /\ Marked(r)'
<1> USE DEF RecorderInv, RecorderTyped
<1>1. at'[r] = "publish" /\ publishing'[r].step = "mark" BY PersistEffect
<1>2. valid[r] \in Nat /\ \A k \in DOMAIN snaps[r] : snaps[r][k].completed \in Nat
  <2>1. valid[r] \in Nat BY DEF ProducerTyped
  <2>2. \A k \in DOMAIN snaps[r] : snaps[r][k] \in Status BY DEF DiskTyped
  <2>3. ASSUME NEW e \in Status PROVE e.completed \in Nat
    <3>1. e.completed \in 0..MaxFrames BY DEF Status
    <3> QED BY <3>1, RecorderConstants
  <2> QED BY <2>1, <2>2, <2>3
<1>3. \A k \in DOMAIN snaps[r] : ~Terminal(snaps[r][k])
  BY DEF Sound, Truthful, Closing, Publishes
<1>4. \A k \in DOMAIN snaps[r] : Claims(r, snaps[r][k]) BY DEF Sound, Truthful
<1>5. \A k \in DOMAIN snaps[r] : Claims(r, snaps[r][k])' BY <1>2, <1>3, <1>4 DEF Claims
<1>6. Truthful(r)' BY <1>3, <1>5 DEF Truthful
<1>7. Marked(r)' BY <1>1 DEF Sound, Marked
<1> QED BY <1>6, <1>7

(* Every step of a producer but its admission leaves the other recordings  *)
(* alone and its own sound.                                                *)
LEMMA ProducerSteps ==
    ASSUME RecorderInv, NEW r \in Recording, RecStep(r), ~Admit(r)
    PROVE  /\ \A x \in Recording \ {r} : Same(x)
           /\ Sound(r)' /\ Onward(r)
<1> DEFINE Goal == (\A x \in Recording \ {r} : Same(x)) /\ Sound(r)' /\ Onward(r)
<1> USE RecorderConstants DEF RecorderInv, RecorderTyped, Works, Fault
<1>a. /\ mem[r] \in Status /\ valid[r] \in Nat /\ calls[r] \in Nat /\ seq[r] \in Nat
      /\ publishing[r].stage \in Stage /\ at[r] \in At
  BY DEF ProducerTyped
<1>b. mem[r].attempted \in 0..MaxFrames /\ mem[r].completed \in 0..MaxFrames BY <1>a DEF Status
<1>c. Sound(r) OBVIOUS
<1>1. CASE AcquireLease(r)
  <2>1. \A x \in Recording \ {r} : Same(x)
    BY <1>1 DEF AcquireLease, Same, Go, disk, ProducerTyped
  <2>2. /\ at[r] = "idle" /\ at'[r] \in {"admit", "done"}
        /\ UNCHANGED <<publishing, dir, marker, snaps, durable, mem, seq, calls, valid>>
    BY <1>1 DEF AcquireLease, Go, disk, ProducerTyped
  <2>3. Documented(r)' BY <1>c, <2>2 DEF Sound, Documented, Publishes, Unmade, Counted, Open
  <2>4. DOMAIN snaps[r] = {} BY <1>c, <2>2 DEF Sound, Documented, Unmade
  <2>5. Truthful(r)' /\ Marked(r)' BY <2>2, <2>4 DEF Truthful, Marked
  <2>6. Onward(r) BY <1>a, <2>2 DEF Onward, Unmade
  <2> QED BY <2>1, <2>3, <2>5, <2>6 DEF Sound
<1>2. CASE Mkdir(r)
  <2>1. Persist(r, "first", Fresh) /\ at[r] = "mkdir" BY <1>2 DEF Mkdir
  <2>2. /\ at'[r] = "publish" /\ mem'[r] = Fresh /\ publishing'[r].stage = "first"
        /\ publishing'[r].step = "mark" /\ seq'[r] = 0
    BY <2>1, PersistEffect
  <2>3. \A x \in Recording \ {r} : Same(x)
    BY <1>2, <2>1, PersistEffect DEF Mkdir, Same, DiskTyped
  <2>4. Documented(r)'
    <3>1. mem[r] = Fresh /\ calls[r] = 0 /\ valid[r] = 0
      BY <1>c, <2>1, FreshTyped DEF Sound, Documented, Unmade
    <3>2. calls'[r] = 0 /\ valid'[r] = 0 BY <1>2, <3>1 DEF Mkdir
    <3> QED BY <2>2, <3>2, FreshTyped DEF Documented, Publishes, Unmade
  <2>5. Truthful(r)' /\ Marked(r)' BY <1>2, <1>a, <2>1, PersistSound DEF Mkdir
  <2>6. Onward(r) BY <1>2, <1>a, <2>1, <2>2 DEF Mkdir, Onward, Unmade
  <2> QED BY <2>3, <2>4, <2>5, <2>6 DEF Sound
<1>3. CASE Release(r)
  <2>1. \A x \in Recording \ {r} : Same(x) BY <1>3 DEF Release, Same, Go, disk, ProducerTyped
  <2>2. /\ \/ at[r] = "release" /\ at'[r] = "frame"
           \/ at[r] = "refused" /\ at'[r] = "done"
        /\ UNCHANGED <<publishing, dir, marker, snaps, durable, mem, seq, calls, valid>>
    BY <1>3 DEF Release, Go, disk, ProducerTyped
  <2>3. Documented(r)' BY <1>c, <2>2 DEF Sound, Documented, Publishes, Unmade, Counted, Open
  <2>4. Truthful(r)' BY <1>c, <2>2 DEF Sound, Truthful, Claims, Closing, Publishes
  <2>5. Marked(r)' BY <1>c, <2>2 DEF Sound, Marked
  <2>6. Onward(r) BY <1>a, <2>2 DEF Onward, Unmade
  <2> QED BY <2>1, <2>3, <2>4, <2>5, <2>6 DEF Sound
<1>4. CASE Mark(r)
  <2>a. at[r] = "publish" /\ publishing[r].step = "mark"
        /\ UNCHANGED <<dir, snaps, durable, seq, calls, valid>>
    BY <1>4 DEF Mark
  <2>1. CASE Unpublished(r)
    <3>1. \A x \in Recording \ {r} : Same(x)
      BY <1>4, <2>1 DEF Mark, Same, Go, Unpublished, ProducerTyped, DiskTyped
    <3>2. marker[r] => marker'[r] BY <1>4, <2>1, <2>a DEF Mark, DiskTyped
    <3> QED BY <2>1, <2>a, <3>1, <3>2, UnpublishedSound
  <2>2. CASE ~Unpublished(r)
    <3>1. /\ ~marker[r] /\ marker' = [marker EXCEPT ![r] = TRUE] /\ UNCHANGED <<at, mem>>
          /\ publishing' = [publishing EXCEPT ![r].step = "rename"]
      BY <1>4, <2>2 DEF Mark, Step
    <3>2. \A x \in Recording \ {r} : Same(x)
      BY <2>a, <3>1 DEF Same, ProducerTyped, DiskTyped
    <3>3. /\ publishing'[r].stage = publishing[r].stage /\ publishing'[r].step = "rename"
          /\ marker'[r] /\ at'[r] = "publish"
      BY <2>a, <3>1 DEF ProducerTyped, DiskTyped
    <3>4. Documented(r)'
      BY <1>c, <2>a, <3>1, <3>3 DEF Sound, Documented, Publishes, Unmade, Counted, Open
    <3>5. Truthful(r)'
      BY <1>c, <2>a, <3>1, <3>3 DEF Sound, Truthful, Claims, Closing, Publishes
    <3>6. Marked(r)' BY <1>c, <2>a, <3>1, <3>3 DEF Sound, Marked
    <3>7. Onward(r) BY <1>a, <2>a, <3>1 DEF Onward, Unmade
    <3> QED BY <3>2, <3>4, <3>5, <3>6, <3>7 DEF Sound
  <2> QED BY <2>1, <2>2
<1>5. CASE Rename(r)
  <2>a. at[r] = "publish" /\ publishing[r].step = "rename"
        /\ UNCHANGED <<dir, marker, durable, seq, calls, valid>>
    BY <1>5 DEF Rename
  <2>1. CASE Unpublished(r) /\ UNCHANGED snaps
    <3>1. \A x \in Recording \ {r} : Same(x)
      BY <2>1, <2>a DEF Same, Go, Unpublished, ProducerTyped, DiskTyped
    <3> QED BY <2>1, <2>a, <3>1, UnpublishedSound
  <2>2. CASE ~(Unpublished(r) /\ UNCHANGED snaps)
    <3>1. /\ UNCHANGED <<at, mem>> /\ publishing' = [publishing EXCEPT ![r].step = "sync"]
          /\ snaps' = [snaps EXCEPT ![r] =
                [k \in DOMAIN @ \cup {seq[r]} |-> IF k = seq[r] THEN mem[r] ELSE @[k]]]
      BY <1>5, <2>2 DEF Rename, Step
    <3>2. /\ publishing'[r].stage = publishing[r].stage /\ publishing'[r].step = "sync"
          /\ at'[r] = "publish" /\ \A x \in Recording \ {r} : publishing'[x] = publishing[x]
      BY <2>a, <3>1 DEF ProducerTyped
    <3>3. \A x \in Recording \ {r} : snaps'[x] = snaps[x] BY <3>1 DEF DiskTyped
    <3>4. snaps'[r] = [k \in DOMAIN snaps[r] \cup {seq[r]} |->
                          IF k = seq[r] THEN mem[r] ELSE snaps[r][k]]
      BY <3>1 DEF DiskTyped
    <3>5. /\ DOMAIN snaps'[r] = DOMAIN snaps[r] \cup {seq[r]}
          /\ \A k \in DOMAIN snaps'[r] :
               snaps'[r][k] = IF k = seq[r] THEN mem[r] ELSE snaps[r][k]
      BY <3>4
    <3>6. \A x \in Recording \ {r} : Same(x) BY <2>a, <3>1, <3>2, <3>3 DEF Same
    <3>7. Documented(r)'
      <4>1. at[r] \notin Unmade BY <2>a DEF Unmade
      <4> QED BY <1>c, <2>a, <3>1, <3>2, <4>1 DEF Sound, Documented, Publishes, Counted, Open
    <3>8. Claims(r, mem[r])
      <4>1. mem[r].completed = valid[r] BY <1>c DEF Sound, Documented
      <4>2. mem[r].attempted <= calls[r] + 1
        BY <1>a, <1>c, <2>a, FreshTyped DEF Sound, Documented, Publishes, Counted, Stage
      <4>3. Terminal(mem[r]) => publishing[r].stage = "finish"
        BY <1>a, <1>c, <2>a, FreshOpen DEF Sound, Documented, Publishes, Stage, Open, Terminal
      <4>4. publishing[r].stage = "finish" => ~mem[r].flight /\ mem[r].attempted = calls[r]
        BY <1>c, <2>a DEF Sound, Documented, Publishes, Counted
      <4> QED BY <1>a, <4>1, <4>2, <4>3, <4>4 DEF Claims
    <3>9. Terminal(mem[r]) => Publishes(r, "finish")
      BY <1>a, <1>c, <2>a, FreshOpen DEF Sound, Documented, Publishes, Stage, Open, Terminal
    <3>10. marker[r] BY <1>c, <2>a DEF Sound, Marked
    <3>11. Truthful(r)'
      <4>1. \A k \in DOMAIN snaps[r] : Claims(r, snaps[r][k]) /\ ~Terminal(snaps[r][k])
        BY <1>c, <2>a DEF Sound, Truthful, Closing
      <4>2. \A k \in DOMAIN snaps'[r] : /\ Claims(r, snaps'[r][k])
                                        /\ Terminal(snaps'[r][k]) => Publishes(r, "finish")
        BY <3>5, <3>8, <3>9, <4>1
      <4>3. ASSUME NEW k \in DOMAIN snaps'[r] PROVE Claims(r, snaps[r][k])'
        BY <2>a, <4>2 DEF Claims
      <4>4. Publishes(r, "finish") => Closing(r)' BY <2>a, <3>2 DEF Closing, Publishes
      <4> QED BY <2>a, <3>2, <3>10, <4>2, <4>3, <4>4 DEF Truthful
    <3>12. Marked(r)'
      <4>1. \A k \in DOMAIN snaps[r] : k \in durable[r] BY <1>c, <2>a DEF Sound, Marked
      <4> QED BY <2>a, <3>2, <3>5, <3>10, <4>1 DEF Marked
    <3>13. Onward(r) BY <1>a, <2>a, <3>1 DEF Onward, Unmade
    <3> QED BY <3>6, <3>7, <3>11, <3>12, <3>13 DEF Sound
  <2> QED BY <2>1, <2>2
<1>6. CASE SyncRoot(r)
  <2>a. at[r] = "publish" /\ publishing[r].step = "sync"
        /\ UNCHANGED <<dir, marker, snaps, seq, calls, valid>>
    BY <1>6 DEF SyncRoot
  <2>1. CASE Unpublished(r) /\ UNCHANGED durable
    <3>1. \A x \in Recording \ {r} : Same(x)
      BY <2>1, <2>a DEF Same, Go, Unpublished, ProducerTyped, DiskTyped
    <3> QED BY <2>1, <2>a, <3>1, UnpublishedSound
  <2>2. CASE ~(Unpublished(r) /\ UNCHANGED durable)
    <3>1. /\ UNCHANGED <<at, mem>> /\ publishing' = [publishing EXCEPT ![r].step = "unmark"]
          /\ durable' = [durable EXCEPT ![r] = @ \cup {seq[r]}]
      BY <1>6, <2>2 DEF SyncRoot, Step
    <3>2. /\ publishing'[r].stage = publishing[r].stage /\ publishing'[r].step = "unmark"
          /\ at'[r] = "publish" /\ \A x \in Recording \ {r} : publishing'[x] = publishing[x]
      BY <2>a, <3>1 DEF ProducerTyped
    <3>3. /\ durable'[r] = durable[r] \cup {seq[r]}
          /\ \A x \in Recording \ {r} : durable'[x] = durable[x]
      BY <3>1 DEF DiskTyped
    <3>4. \A x \in Recording \ {r} : Same(x) BY <2>a, <3>1, <3>2, <3>3 DEF Same
    <3>5. Documented(r)'
      BY <1>c, <2>a, <3>1, <3>2 DEF Sound, Documented, Publishes, Unmade, Counted, Open
    <3>6. Truthful(r)'
      BY <1>c, <2>a, <3>1, <3>2 DEF Sound, Truthful, Claims, Closing, Publishes
    <3>7. Marked(r)' BY <1>c, <2>a, <3>2, <3>3 DEF Sound, Marked
    <3>8. Onward(r) BY <1>a, <2>a, <3>1, <3>3 DEF Onward, Unmade
    <3> QED BY <3>4, <3>5, <3>6, <3>7, <3>8 DEF Sound
  <2> QED BY <2>1, <2>2
<1>7. CASE Unmark(r)
  <2>a. at[r] = "publish" /\ publishing[r].step = "unmark"
        /\ UNCHANGED <<dir, snaps, durable, seq, calls, valid>>
    BY <1>7 DEF Unmark
  <2>1. CASE Unpublished(r) /\ UNCHANGED marker
    <3>1. \A x \in Recording \ {r} : Same(x)
      BY <2>1, <2>a DEF Same, Go, Unpublished, ProducerTyped, DiskTyped
    <3> QED BY <2>1, <2>a, <3>1, UnpublishedSound
  <2>2. CASE ~(Unpublished(r) /\ UNCHANGED marker)
    <3>1. /\ marker' = [marker EXCEPT ![r] = FALSE] /\ at' = [at EXCEPT ![r] = Published(r)]
          /\ UNCHANGED <<publishing, mem>>
      BY <1>7, <2>2 DEF Unmark, Go
    <3>2. \A x \in Recording \ {r} : Same(x) BY <2>a, <3>1 DEF Same, ProducerTyped, DiskTyped
    <3>3. at'[r] = Published(r) BY <3>1 DEF ProducerTyped
    <3>4. \/ publishing[r].stage = "first" /\ at'[r] = "release"
          \/ publishing[r].stage = "before" /\ at'[r] = "capture"
          \/ publishing[r].stage = "after" /\ at'[r] = "save"
          \/ publishing[r].stage = "finish" /\ at'[r] = "done"
      BY <1>a, <3>3 DEF Published, Stage
    <3>5. Documented(r)'
      <4>1. mem'[r].completed = valid'[r] BY <1>c, <2>a, <3>1 DEF Sound, Documented
      <4>2. CASE publishing[r].stage = "first"
        <5>1. mem[r] = Fresh /\ calls[r] = 0 /\ seq[r] = 0
          BY <1>c, <2>a, <4>2 DEF Sound, Documented, Publishes
        <5>2. calls[r] = valid[r] /\ seq[r] = 2 * calls[r]
          BY <5>1, <1>c, FreshTyped DEF Sound, Documented
        <5>3. mem[r].attempted = calls[r] BY <5>1, FreshTyped
        <5>4. ~mem[r].flight /\ mem[r].reason = "" BY <5>1, FreshOpen
        <5> QED BY <2>a, <3>1, <3>4, <4>1, <4>2, <5>2, <5>3, <5>4
             DEF Documented, Publishes, Unmade, Counted, Open
      <4>3. CASE publishing[r].stage # "first"
        BY <1>c, <2>a, <3>1, <3>4, <4>1, <4>3 DEF Sound, Documented, Publishes, Unmade, Counted, Open
      <4> QED BY <4>2, <4>3
    <3>6. Truthful(r)'
      <4>1. \A k \in DOMAIN snaps[r] : /\ Claims(r, snaps[r][k])
                                       /\ Terminal(snaps[r][k]) => publishing[r].stage = "finish"
        BY <1>c, <2>a DEF Sound, Truthful, Closing, Publishes
      <4> QED BY <2>a, <3>4, <4>1 DEF Truthful, Claims
    <3>7. Marked(r)' BY <1>c, <2>a, <3>4 DEF Sound, Marked
    <3>8. Onward(r) BY <1>a, <2>a, <3>4 DEF Onward, Unmade
    <3> QED BY <3>2, <3>5, <3>6, <3>7, <3>8 DEF Sound
  <2> QED BY <2>1, <2>2
<1>8. CASE BeforeCapture(r)
  <2> DEFINE d == [mem[r] EXCEPT !.attempted = @ + 1, !.flight = TRUE]
  <2>a. at[r] = "frame" /\ UNCHANGED <<dir, marker, snaps, durable, calls, valid>>
    BY <1>8 DEF BeforeCapture, disk
  <2>b. /\ mem[r].attempted = calls[r] /\ calls[r] = valid[r] /\ seq[r] = 2 * calls[r]
        /\ mem[r].completed = valid[r]
    BY <1>c, <2>a DEF Sound, Documented, Counted
  <2>c. ~mem[r].flight /\ mem[r].reason = ""
    BY <1>c, <2>a DEF Sound, Documented, Counted, Open
  <2>1. CASE Persist(r, "before", d)
    <3>1. d.attempted = valid[r] + 1 /\ d.completed = valid[r] BY <1>a, <2>b DEF Status
    <3>2. d.flight /\ d.reason = "" BY <1>a, <2>c DEF Status
    <3> HIDE DEF d
    <3>3. /\ at'[r] = "publish" /\ mem'[r] = d /\ publishing'[r].stage = "before"
          /\ publishing'[r].step = "mark" /\ seq'[r] = seq[r] + 1
      BY <2>1, PersistEffect
    <3>4. \A x \in Recording \ {r} : Same(x) BY <2>a, <2>1, PersistEffect DEF Same
    <3>5. seq'[r] = 2 * valid[r] + 1 BY <2>b, <3>3
    <3>6. Documented(r)'
      BY <2>a, <2>b, <3>1, <3>2, <3>3, <3>5 DEF Documented, Publishes, Unmade, Open
    <3>7. Truthful(r)' /\ Marked(r)' BY <1>a, <2>a, <2>1, PersistSound
    <3>8. Onward(r) BY <1>a, <2>a, <3>3 DEF Onward, Unmade
    <3> QED BY <3>4, <3>6, <3>7, <3>8 DEF Sound
  <2>2. CASE Go(r, "end") /\ UNCHANGED <<mem, seq, publishing>>
    <3>1. at'[r] = "end" /\ \A x \in Recording \ {r} : at'[x] = at[x]
      BY <2>2 DEF Go, ProducerTyped
    <3>2. \A x \in Recording \ {r} : Same(x) BY <2>2, <2>a, <3>1 DEF Same
    <3>3. seq[r] < Limit BY <1>a, <1>b, <2>b
    <3>4. Documented(r)'
      BY <2>2, <2>a, <2>b, <2>c, <3>1, <3>3 DEF Documented, Publishes, Unmade, Open, Counted
    <3>5. Truthful(r)' BY <1>c, <2>a, <2>2, <3>1 DEF Sound, Truthful, Claims, Closing, Publishes
    <3>6. Marked(r)' BY <1>c, <2>a, <2>2, <3>1 DEF Sound, Marked
    <3>7. Onward(r) BY <1>a, <2>a, <3>1 DEF Onward, Unmade
    <3> QED BY <3>2, <3>4, <3>5, <3>6, <3>7 DEF Sound
  <2> QED BY <1>8, <2>1, <2>2 DEF BeforeCapture
<1>9. CASE CaptureStarts(r)
  <2>a. /\ at[r] = "capture" /\ calls' = [calls EXCEPT ![r] = @ + 1]
        /\ UNCHANGED <<at, publishing, dir, marker, snaps, durable, mem, seq, valid>>
    BY <1>9 DEF CaptureStarts, disk
  <2>1. /\ calls'[r] = calls[r] + 1 /\ \A x \in Recording \ {r} : calls'[x] = calls[x]
    BY <2>a DEF ProducerTyped
  <2>2. \A x \in Recording \ {r} : Same(x) BY <2>a, <2>1 DEF Same
  <2>3. Documented(r)'
    <3>1. /\ mem[r].attempted = valid[r] + 1 /\ seq[r] = 2 * valid[r] + 1
          /\ mem[r].completed = valid[r]
          /\ calls[r] = valid[r] \/ calls[r] = valid[r] + 1
      BY <1>c, <2>a DEF Sound, Documented
    <3>2. mem[r].flight /\ mem[r].reason = "" BY <1>c, <2>a DEF Sound, Documented, Open
    <3>3. calls[r] < mem[r].attempted BY <1>9 DEF CaptureStarts
    <3>4. calls'[r] = valid[r] + 1 BY <1>a, <1>b, <2>1, <3>1, <3>3
    <3> QED BY <2>a, <3>1, <3>2, <3>4 DEF Documented, Publishes, Unmade, Open
  <2>4. Truthful(r)'
    <3>1. \A k \in DOMAIN snaps[r] : Claims(r, snaps[r][k]) /\ ~Terminal(snaps[r][k])
      BY <1>c, <2>a DEF Sound, Truthful, Closing, Publishes
    <3>2. \A k \in DOMAIN snaps[r] : snaps[r][k].attempted \in Nat
      <4>1. ASSUME NEW k \in DOMAIN snaps[r] PROVE snaps[r][k].attempted \in Nat
        <5>1. snaps[r][k] \in Status BY DEF DiskTyped
        <5>2. snaps[r][k].attempted \in 0..MaxFrames BY <5>1 DEF Status
        <5> QED BY <5>2
      <4> QED BY <4>1
    <3>3. \A k \in DOMAIN snaps[r] : Claims(r, snaps[r][k])'
      BY <1>a, <2>a, <2>1, <3>1, <3>2 DEF Claims
    <3> QED BY <2>a, <3>1, <3>3 DEF Truthful
  <2>5. Marked(r)' BY <1>c, <2>a DEF Sound, Marked
  <2>6. Onward(r) BY <1>a, <2>a, <2>1 DEF Onward
  <2> QED BY <2>2, <2>3, <2>4, <2>5, <2>6 DEF Sound
<1>10. CASE AfterCapture(r)
  <2> DEFINE d == [mem[r] EXCEPT !.completed = @ + 1, !.flight = FALSE]
             e == [mem[r] EXCEPT !.flight = FALSE]
  <2>a. /\ at[r] = "capture" /\ calls[r] = mem[r].attempted
        /\ UNCHANGED <<dir, marker, snaps, durable, calls>>
    BY <1>10 DEF AfterCapture, disk
  <2>b. /\ mem[r].attempted = valid[r] + 1 /\ seq[r] = 2 * valid[r] + 1
        /\ mem[r].completed = valid[r]
    BY <1>c, <2>a DEF Sound, Documented
  <2>c. mem[r].reason = "" BY <1>c, <2>a DEF Sound, Documented, Open
  <2>1. PICK f : /\ Persist(r, "after", f)
                 /\ \/ f = d /\ valid' = [valid EXCEPT ![r] = @ + 1]
                    \/ f = e /\ UNCHANGED valid
    BY <1>10 DEF AfterCapture
  <2>2. /\ d.attempted = mem[r].attempted /\ d.completed = valid[r] + 1 /\ ~d.flight
        /\ e.attempted = mem[r].attempted /\ e.completed = valid[r] /\ ~e.flight
    BY <1>a, <2>b DEF Status
  <2>d. d.reason = "" /\ e.reason = "" BY <1>a, <2>c DEF Status
  <2> HIDE DEF d, e
  <2>3. /\ at'[r] = "publish" /\ mem'[r] = f /\ publishing'[r].stage = "after"
        /\ publishing'[r].step = "mark" /\ seq'[r] = seq[r] + 1
    BY <2>1, PersistEffect
  <2>4. \A x \in Recording \ {r} : Same(x)
    BY <2>a, <2>1, PersistEffect DEF Same, ProducerTyped
  <2>5. valid'[r] = f.completed /\ valid'[r] \in {valid[r], valid[r] + 1}
    BY <2>1, <2>2 DEF ProducerTyped
  <2>6. f.attempted = mem[r].attempted /\ ~f.flight BY <2>1, <2>2
  <2>7. f.reason = "" BY <2>1, <2>d
  <2>8. Documented(r)'
    <3>1. seq'[r] = 2 * calls[r] /\ valid'[r] <= calls[r]
      BY <1>a, <2>a, <2>b, <2>3, <2>5
    <3> QED BY <2>a, <2>3, <2>5, <2>6, <2>7, <3>1
         DEF Documented, Publishes, Unmade, Open, Counted
  <2>9. Truthful(r)' /\ Marked(r)' BY <1>a, <2>a, <2>1, <2>5, PersistSound
  <2>10. Onward(r) BY <1>a, <2>a, <2>3, <2>5 DEF Onward, Unmade
  <2> QED BY <2>4, <2>8, <2>9, <2>10 DEF Sound
<1>11. CASE SaveFrame(r)
  <2>a. /\ at[r] = "save"
        /\ UNCHANGED <<publishing, dir, marker, snaps, durable, mem, seq, calls, valid>>
    BY <1>11 DEF SaveFrame, disk
  <2>1. /\ at'[r] \in {"end", "frame", "encode"}
        /\ at'[r] # "end" => ~(mem[r].completed < mem[r].attempted)
        /\ \A x \in Recording \ {r} : at'[x] = at[x]
    BY <1>11 DEF SaveFrame, Go, ProducerTyped
  <2>2. \A x \in Recording \ {r} : Same(x) BY <2>a, <2>1 DEF Same
  <2>3. Documented(r)'
    <3>1. /\ mem[r].attempted = calls[r] /\ valid[r] <= calls[r] /\ seq[r] = 2 * calls[r]
          /\ mem[r].completed = valid[r]
      BY <1>c, <2>a DEF Sound, Documented, Counted
    <3>2. ~mem[r].flight /\ mem[r].reason = "" BY <1>c, <2>a DEF Sound, Documented, Counted, Open
    <3>3. at'[r] # "end" => calls[r] = valid[r] BY <1>a, <2>1, <3>1
    <3>4. seq[r] < Limit BY <1>a, <1>b, <3>1
    <3> QED BY <2>a, <2>1, <3>1, <3>2, <3>3, <3>4 DEF Documented, Publishes, Unmade, Open, Counted
  <2>4. Truthful(r)' BY <1>c, <2>a, <2>1 DEF Sound, Truthful, Claims, Closing, Publishes
  <2>5. Marked(r)' BY <1>c, <2>a, <2>1 DEF Sound, Marked
  <2>6. Onward(r) BY <1>a, <2>a, <2>1 DEF Onward, Unmade
  <2> QED BY <2>2, <2>3, <2>4, <2>5, <2>6 DEF Sound
<1>12. ASSUME NEW reason \in {"completed", "failed"}, at[r] \in {"encode", "end"},
              Persist(r, "finish", [mem[r] EXCEPT !.reason = reason]),
              UNCHANGED <<dir, marker, snaps, durable, calls, valid>>
       PROVE  Goal
  <2> DEFINE d == [mem[r] EXCEPT !.reason = reason]
  <2>1. d.attempted = mem[r].attempted /\ d.completed = mem[r].completed BY <1>a DEF Status
  <2>2. d.flight = mem[r].flight /\ d.reason # "" BY <1>a, <1>12 DEF Status
  <2> HIDE DEF d
  <2>3. /\ at'[r] = "publish" /\ mem'[r] = d /\ publishing'[r].stage = "finish"
        /\ publishing'[r].step = "mark" /\ seq'[r] = seq[r] + 1
    BY <1>12, PersistEffect DEF d
  <2>4. \A x \in Recording \ {r} : Same(x) BY <1>12, PersistEffect DEF Same
  <2>5. mem[r].attempted = calls[r] /\ mem[r].completed = valid[r]
    BY <1>c, <1>12 DEF Sound, Documented, Counted
  <2>6. ~mem[r].flight BY <1>c, <1>12 DEF Sound, Documented, Counted
  <2>7. seq'[r] <= Limit
    <3>1. at[r] = "encode" => seq[r] = 2 * calls[r] BY <1>c DEF Sound, Documented
    <3>2. at[r] = "end" => seq[r] < Limit BY <1>c DEF Sound, Documented
    <3>3. 2 * calls[r] < Limit BY <1>a, <1>b, <2>5
    <3> QED BY <1>a, <1>12, <2>3, <3>1, <3>2, <3>3
  <2>8. Documented(r)'
    BY <1>12, <2>1, <2>2, <2>3, <2>5, <2>6, <2>7 DEF Documented, Publishes, Unmade, Open, Counted
  <2>9. Truthful(r)' /\ Marked(r)' BY <1>a, <1>12, PersistSound
  <2>10. Onward(r) BY <1>a, <1>12, <2>3 DEF Onward, Unmade
  <2> QED BY <2>4, <2>8, <2>9, <2>10 DEF Sound
<1>13. CASE Encode(r)
  <2>a. at[r] = "encode" /\ UNCHANGED <<dir, marker, snaps, durable, calls, valid>>
    BY <1>13 DEF Encode, disk
  <2>1. CASE Persist(r, "finish", [mem[r] EXCEPT !.reason = "completed"])
    BY <1>12, <2>1, <2>a
  <2>2. CASE Go(r, "end") /\ UNCHANGED <<mem, seq, publishing>>
    <3>1. at'[r] = "end" /\ \A x \in Recording \ {r} : at'[x] = at[x]
      BY <2>2 DEF Go, ProducerTyped
    <3>2. \A x \in Recording \ {r} : Same(x) BY <2>2, <2>a, <3>1 DEF Same
    <3>a. /\ mem[r].attempted = calls[r] /\ seq[r] = 2 * calls[r] /\ mem[r].completed = valid[r]
      BY <1>c, <2>a DEF Sound, Documented, Counted
    <3>b. ~mem[r].flight /\ mem[r].reason = "" BY <1>c, <2>a DEF Sound, Documented, Counted, Open
    <3>3. seq[r] < Limit BY <1>a, <1>b, <3>a
    <3>4. Documented(r)'
      BY <2>2, <2>a, <3>a, <3>b, <3>1, <3>3 DEF Documented, Publishes, Unmade, Open, Counted
    <3>5. Truthful(r)' BY <1>c, <2>a, <2>2, <3>1 DEF Sound, Truthful, Claims, Closing, Publishes
    <3>6. Marked(r)' BY <1>c, <2>a, <2>2, <3>1 DEF Sound, Marked
    <3>7. Onward(r) BY <1>a, <2>a, <3>1 DEF Onward, Unmade
    <3> QED BY <3>2, <3>4, <3>5, <3>6, <3>7 DEF Sound
  <2> QED BY <1>13, <2>1, <2>2 DEF Encode
<1>14. CASE Finish(r) BY <1>14, <1>12 DEF Finish, disk
<1>15. CASE Expire(r)
  <2>1. UNCHANGED <<at, publishing, dir, marker, snaps, durable, mem, seq, calls, valid>>
    BY <1>15 DEF Expire, disk
  <2>2. \A x \in Recording : Same(x) BY <2>1 DEF Same
  <2>3. Onward(r) BY <1>a, <2>1 DEF Onward
  <2> QED BY <1>c, <2>2, <2>3, SameSound
<1> QED BY <1>1, <1>2, <1>3, <1>4, <1>5, <1>6, <1>7, <1>8, <1>9, <1>10, <1>11, <1>13, <1>14,
           <1>15 DEF RecStep

(* What is pruned is terminal and outside the marker: its producer is done.*)
LEMMA PrunableIsDone ==
    ASSUME RecorderInv, NEW x \in Recording, NEW r \in Recording, Prunable(x, r)
    PROVE  at[x] = "done" /\ x \in expired
<1> USE DEF RecorderInv, RecorderTyped
<1>1. /\ DOMAIN snaps[x] # {} /\ ~marker[x] /\ Terminal(snaps[x][Latest(x)]) /\ x \in expired
  BY DEF Prunable, Conclusive
<1>2. DOMAIN snaps[x] \in SUBSET (0..Limit) /\ Limit \in Nat
  BY RecorderConstants DEF DiskTyped
<1>3. Latest(x) \in DOMAIN snaps[x] BY <1>1, <1>2, MaxOf DEF Latest
<1> QED BY <1>1, <1>3 DEF Sound, Truthful

(* An admission moves its own producer on, and prunes what is done.        *)
LEMMA AdmitEffect ==
    ASSUME RecorderInv, NEW r \in Recording, Admit(r)
    PROVE  /\ at[r] = "admit" /\ at'[r] \in {"mkdir", "refused"}
           /\ \A x \in Recording \ {r} : at'[x] = at[x]
           /\ UNCHANGED <<publishing, marker, mem, seq, calls, valid>>
           /\ \A x \in Recording : \/ /\ dir'[x] = dir[x] /\ durable'[x] = durable[x]
                                      /\ snaps'[x] = snaps[x]
                                   \/ /\ at[x] = "done" /\ x \in expired /\ ~dir'[x]
                                      /\ DOMAIN snaps'[x] = {}
                                   \/ /\ at[x] = "done" /\ x \in expired
                                      /\ dir'[x] = dir[x] /\ durable'[x] = durable[x]
                                      /\ DOMAIN snaps'[x] \subseteq DOMAIN snaps[x]
                                      /\ \A k \in DOMAIN snaps'[x] : snaps'[x][k] = snaps[x][k]
<1> USE DEF RecorderInv, RecorderTyped
<1>1. /\ at[r] = "admit" /\ UNCHANGED <<publishing, marker, mem, seq, calls, valid>>
  BY DEF Admit, Refuse, disk
<1>2. at'[r] \in {"mkdir", "refused"} /\ \A x \in Recording \ {r} : at'[x] = at[x]
  BY DEF Admit, Refuse, Go, ProducerTyped
<1> DEFINE Moved(x) == \/ /\ dir'[x] = dir[x] /\ durable'[x] = durable[x]
                          /\ snaps'[x] = snaps[x]
                       \/ /\ at[x] = "done" /\ x \in expired /\ ~dir'[x]
                          /\ DOMAIN snaps'[x] = {}
                       \/ /\ at[x] = "done" /\ x \in expired
                          /\ dir'[x] = dir[x] /\ durable'[x] = durable[x]
                          /\ DOMAIN snaps'[x] \subseteq DOMAIN snaps[x]
                          /\ \A k \in DOMAIN snaps'[x] : snaps'[x][k] = snaps[x][k]
           gone == {x \in Recording : Prunable(x, r)}
<1>3. \A x \in gone : at[x] = "done" /\ x \in expired BY PrunableIsDone
<1>4. ASSUME UNCHANGED disk PROVE \A x \in Recording : Moved(x) BY <1>4 DEF disk
<1>5. ASSUME dir' = [x \in Recording |-> dir[x] /\ x \notin gone],
             snaps' = [x \in Recording |-> IF x \in gone THEN << >> ELSE snaps[x]],
             durable' = [x \in Recording |-> IF x \in gone THEN {} ELSE durable[x]]
      PROVE  \A x \in Recording : Moved(x)
  <2> HIDE DEF gone
  <2> SUFFICES ASSUME NEW x \in Recording PROVE Moved(x)
    OBVIOUS
  <2>1. CASE x \in gone
    <3>1. ~dir'[x] BY <1>5, <2>1
    <3>2. snaps'[x] = << >> BY <1>5, <2>1
    <3>3. DOMAIN snaps'[x] = {} BY <3>2
    <3> QED BY <1>3, <2>1, <3>1, <3>3
  <2>2. CASE x \notin gone
    <3>1. dir'[x] = dir[x] BY <1>5, <2>2 DEF DiskTyped
    <3>2. snaps'[x] = snaps[x] /\ durable'[x] = durable[x] BY <1>5, <2>2
    <3> QED BY <3>1, <3>2
  <2> QED BY <2>1, <2>2
<1>6. ASSUME NEW y \in gone, NEW kept \in SUBSET DOMAIN snaps[y],
             snaps' = [snaps EXCEPT ![y] = [k \in kept |-> @[k]]],
             UNCHANGED <<dir, durable>>
      PROVE  \A x \in Recording : Moved(x)
  <2>0. y \in Recording /\ at[y] = "done" /\ y \in expired BY <1>3
  <2> HIDE DEF gone
  <2>1. \A x \in Recording : x # y => snaps'[x] = snaps[x] BY <1>6 DEF DiskTyped
  <2>2. snaps'[y] = [k \in kept |-> snaps[y][k]] BY <1>6, <2>0 DEF DiskTyped
  <2>3. /\ DOMAIN snaps'[y] \subseteq DOMAIN snaps[y]
        /\ \A k \in DOMAIN snaps'[y] : snaps'[y][k] = snaps[y][k]
    BY <2>2
  <2> QED BY <1>6, <2>0, <2>1, <2>3
<1>7. \A x \in Recording : Moved(x)
  <2> HIDE DEF Moved
  <2> QED BY <1>4, <1>5, <1>6 DEF Admit, Refuse, Moved, disk
<1> QED BY <1>1, <1>2, <1>7

(* An admission leaves every recording sound.                              *)
LEMMA AdmitSound ==
    ASSUME RecorderInv, NEW r \in Recording, Admit(r), NEW x \in Recording
    PROVE  Sound(x)' /\ Onward(x)
<1> USE DEF RecorderInv, RecorderTyped
<1>1. Sound(x) /\ Sound(r) OBVIOUS
<1>2. calls[x] \in Nat /\ valid[x] \in Nat BY DEF ProducerTyped
<1>3. CASE x # r /\ dir'[x] = dir[x] /\ durable'[x] = durable[x] /\ snaps'[x] = snaps[x]
  <2>1. Same(x) BY <1>3, AdmitEffect DEF Same
  <2> QED BY <1>1, <1>2, <2>1, SameSound DEF Same, Onward
<1>4. CASE x = r
  <2>1. /\ at[r] = "admit" /\ at'[r] \in {"mkdir", "refused"}
        /\ UNCHANGED <<publishing, marker, mem, seq, calls, valid>>
        /\ dir'[r] = dir[r] /\ durable'[r] = durable[r] /\ snaps'[r] = snaps[r]
    BY AdmitEffect
  <2>2. Documented(r)' BY <1>1, <2>1 DEF Sound, Documented, Publishes, Unmade, Counted, Open
  <2>3. DOMAIN snaps[r] = {} BY <1>1, <2>1 DEF Sound, Documented, Unmade
  <2>4. Truthful(r)' /\ Marked(r)' BY <2>1, <2>3 DEF Truthful, Marked
  <2>5. Onward(r) BY <1>2, <1>4, <2>1 DEF Onward, Unmade
  <2> QED BY <1>4, <2>2, <2>4, <2>5 DEF Sound
<1>5. CASE /\ x # r /\ at[x] = "done" /\ DOMAIN snaps'[x] \subseteq DOMAIN snaps[x]
           /\ \A k \in DOMAIN snaps'[x] : snaps'[x][k] = snaps[x][k]
           /\ dir'[x] => dir'[x] = dir[x] /\ durable'[x] = durable[x]
           /\ durable'[x] = durable[x] \/ DOMAIN snaps'[x] = {}
  <2>1. at'[x] = "done" /\ UNCHANGED <<publishing, marker, mem, seq, calls, valid>>
    BY <1>5, AdmitEffect
  <2>2. Documented(x)' BY <1>1, <1>5, <2>1 DEF Sound, Documented, Publishes, Unmade
  <2>3. Truthful(x)' BY <1>1, <1>5, <2>1 DEF Sound, Truthful, Claims
  <2>4. Marked(x)' BY <1>1, <1>5, <2>1 DEF Sound, Marked
  <2>5. Onward(x) BY <1>2, <1>5, <2>1 DEF Onward, Unmade
  <2> QED BY <2>2, <2>3, <2>4, <2>5 DEF Sound
<1> QED
  <2>1. \/ /\ dir'[x] = dir[x] /\ durable'[x] = durable[x] /\ snaps'[x] = snaps[x]
        \/ /\ at[x] = "done" /\ ~dir'[x] /\ DOMAIN snaps'[x] = {}
        \/ /\ at[x] = "done" /\ dir'[x] = dir[x] /\ durable'[x] = durable[x]
           /\ DOMAIN snaps'[x] \subseteq DOMAIN snaps[x]
           /\ \A k \in DOMAIN snaps'[x] : snaps'[x][k] = snaps[x][k]
    BY AdmitEffect
  <2> QED BY <1>3, <1>4, <1>5, <2>1

(* One producer reserves at a time, and the reservations are counted.      *)
LEMMA ReservationStep ==
    ASSUME RecorderInv, RecorderTyped', NEW r \in Recording, RecStep(r)
    PROVE  Reservations'
<1> USE RecorderConstants DEF RecorderInv, Works, Fault
<1>a. /\ IsFiniteSet(Reserved) /\ Cardinality(Reserved) \in Nat /\ Cardinality(Reserved) <= Capacity
      /\ \A x \in Recording : at[x] = "mkdir" => Cardinality(Reserved) < Capacity
  BY FS_CardinalityType DEF Reservations, CapacityHolds
<1>b. ASSUME UNCHANGED dir, \A x \in Recording : at'[x] = "mkdir" => at[x] = "mkdir"
      PROVE  /\ \A x \in Recording : at'[x] = "mkdir" => Cardinality(Reserved') < Capacity
             /\ IsFiniteSet(Reserved') /\ CapacityHolds'
  <2>1. Reserved' = Reserved BY <1>b DEF Reserved
  <2> QED BY <1>a, <1>b, <2>1 DEF CapacityHolds
<1>1. \A x \in Recording : Reserving(x)' => lease' = x
  <2>a. \A x \in Recording : Reserving(x) => lease = x BY DEF Reservations
  <2> USE DEF RecorderTyped, Reserving
  <2>1. CASE AcquireLease(r)
    BY <2>a, <2>1 DEF AcquireLease, Go, ProducerTyped, Publishes
  <2>2. CASE Admit(r)
    <3>1. UNCHANGED lease BY <2>2 DEF Admit
    <3> QED BY <2>a, <2>2, <3>1, AdmitEffect DEF Publishes
  <2>3. CASE Mkdir(r)
    <3>1. UNCHANGED lease /\ Persist(r, "first", Fresh) /\ at[r] = "mkdir" BY <2>3 DEF Mkdir
    <3> QED BY <2>a, <3>1, PersistEffect DEF Publishes
  <2>4. CASE Release(r)
    BY <2>a, <2>4 DEF Release, Go, ProducerTyped, Publishes
  <2>5. CASE Mark(r) \/ Rename(r) \/ SyncRoot(r) \/ Unmark(r)
    <3>1. /\ UNCHANGED lease /\ at[r] = "publish"
          /\ \/ at' = at
             \/ publishing' = publishing /\ at' = [at EXCEPT ![r] = Published(r)]
             \/ Unpublished(r)
          /\ publishing' = publishing \/ \E s : publishing' = [publishing EXCEPT ![r].step = s]
      BY <2>5 DEF Mark, Rename, SyncRoot, Unmark, Step, Go, Unpublished
    <3>2. /\ \A x \in Recording \ {r} : at'[x] = at[x]
          /\ at'[r] \in {"release", "refused"} => publishing[r].stage = "first"
          /\ at'[r] \notin {"admit", "mkdir"}
      BY <3>1 DEF Unpublished, Go, Published, Stage, ProducerTyped
    <3>3. \A x \in Recording : publishing'[x].stage = publishing[x].stage
      BY <3>1 DEF ProducerTyped
    <3> QED BY <2>a, <3>1, <3>2, <3>3 DEF Publishes
  <2>6. CASE BeforeCapture(r) \/ AfterCapture(r) \/ Encode(r) \/ Finish(r)
    <3>1. /\ UNCHANGED lease
          /\ \/ \E stage \in {"before", "after", "finish"} : \E d : Persist(r, stage, d)
             \/ at' = [at EXCEPT ![r] = "end"] /\ UNCHANGED publishing
      BY <2>6 DEF BeforeCapture, AfterCapture, Encode, Finish, Go
    <3>2. CASE at' = [at EXCEPT ![r] = "end"] /\ UNCHANGED publishing
      BY <2>a, <3>1, <3>2 DEF ProducerTyped, Publishes
    <3>3. ASSUME NEW stage \in {"before", "after", "finish"}, NEW d, Persist(r, stage, d)
          PROVE \A x \in Recording : Reserving(x)' => lease' = x
      BY <2>a, <3>1, <3>3, PersistEffect DEF Publishes
    <3> QED BY <3>1, <3>2, <3>3
  <2>7. CASE CaptureStarts(r) \/ Expire(r)
    BY <2>a, <2>7 DEF CaptureStarts, Expire, Publishes
  <2>8. CASE SaveFrame(r) BY <2>a, <2>8 DEF SaveFrame, Go, ProducerTyped, Publishes
  <2> QED BY <2>1, <2>2, <2>3, <2>4, <2>5, <2>6, <2>7, <2>8 DEF RecStep
<1>2. CASE Admit(r)
  <2> DEFINE gone == {x \in Recording : Prunable(x, r)}
  <2>0. at[r] = "admit" /\ lease = r BY <1>2 DEF Admit, Reservations, Reserving
  <2>a. \A x \in Recording : at'[x] = "mkdir" => x = r
    BY <1>1, <2>0, <1>2 DEF Admit, Reserving
  <2>1. CASE UNCHANGED dir
    <3>1. Reserved' = Reserved BY <2>1 DEF Reserved
    <3>2. at'[r] = "mkdir" => Room(Reserved)
      <4>1. CASE dir[r] \/ Cardinality(Reserved) > Capacity
        BY <1>2, <4>1 DEF Admit, Refuse, Go, RecorderTyped, ProducerTyped
      <4>2. CASE ~(dir[r] \/ Cardinality(Reserved) > Capacity)
        <5>1. at' = [at EXCEPT ![r] = IF Room(Reserved) THEN "mkdir" ELSE "refused"]
              \/ (/\ dir' = [x \in Recording |-> dir[x] /\ x \notin gone]
                  /\ at' = [at EXCEPT ![r] = IF Room(Reserved \ gone) THEN "mkdir" ELSE "refused"])
          BY <1>2, <4>2 DEF Admit, Go
        <5>2. dir' = [x \in Recording |-> dir[x] /\ x \notin gone] => Reserved \ gone = Reserved
          BY <2>1 DEF Reserved, RecorderTyped, DiskTyped
        <5> QED BY <5>1, <5>2 DEF RecorderTyped, ProducerTyped
      <4> QED BY <4>1, <4>2
    <3> QED BY <1>1, <1>a, <2>a, <3>1, <3>2 DEF Reservations, CapacityHolds, Room
  <2>2. CASE dir' # dir
    <3>1. /\ dir' = [x \in Recording |-> dir[x] /\ x \notin gone]
          /\ at' = [at EXCEPT ![r] = IF Room(Reserved \ gone) THEN "mkdir" ELSE "refused"]
      BY <1>2, <2>2 DEF Admit, Refuse, Go, disk
    <3>2. Reserved' = Reserved \ gone BY <3>1 DEF Reserved
    <3>3. Reserved' \in SUBSET Reserved BY <3>2
    <3> HIDE DEF gone
    <3>4. IsFiniteSet(Reserved') /\ Cardinality(Reserved') <= Cardinality(Reserved)
      BY <1>a, <3>3, FS_Subset
    <3>5. at'[r] = "mkdir" => Cardinality(Reserved') < Capacity
      BY <3>1, <3>2 DEF Room, RecorderTyped, ProducerTyped
    <3>6. Cardinality(Reserved') \in Nat BY <3>4, FS_CardinalityType
    <3> QED BY <1>1, <1>a, <2>a, <3>4, <3>5, <3>6 DEF Reservations, CapacityHolds
  <2> QED BY <1>1, <2>1, <2>2 DEF Reservations
<1>3. CASE Mkdir(r)
  <2>1. /\ at[r] = "mkdir" /\ lease = r /\ dir' = [dir EXCEPT ![r] = TRUE]
    BY <1>3 DEF Mkdir, Reservations, Reserving
  <2>2. /\ Reserved' = Reserved \cup {r} /\ r \notin Reserved
    BY <2>1 DEF Reserved, RecorderTyped, DiskTyped, Sound, Documented, Unmade
  <2>3. IsFiniteSet(Reserved') /\ Cardinality(Reserved') = Cardinality(Reserved) + 1
    BY <1>a, <2>2, FS_AddElement
  <2>4. CapacityHolds' BY <1>a, <2>1, <2>3 DEF CapacityHolds
  <2>5. \A x \in Recording : at'[x] # "mkdir"
    <3>1. Persist(r, "first", Fresh) BY <1>3 DEF Mkdir
    <3>2. at'[r] = "publish" /\ \A x \in Recording \ {r} : at'[x] = at[x]
      BY <3>1, PersistEffect DEF RecorderTyped
    <3>3. \A x \in Recording \ {r} : at[x] # "mkdir" BY <2>1 DEF Reservations, Reserving
    <3> QED BY <3>2, <3>3
  <2> QED BY <1>1, <2>3, <2>4, <2>5 DEF Reservations
<1>4. CASE ~Admit(r) /\ ~Mkdir(r)
  <2>1. UNCHANGED dir
    BY <1>4 DEF RecStep, AcquireLease, Release, Mark, Rename, SyncRoot, Unmark, BeforeCapture,
                CaptureStarts, AfterCapture, SaveFrame, Encode, Finish, Expire, disk
  <2>2. \A x \in Recording : at'[x] = "mkdir" => at[x] = "mkdir"
    <3>1. \A x \in Recording \ {r} : at'[x] = at[x] BY <1>4, ProducerSteps DEF Same
    <3>2. at'[r] = "mkdir" => at[r] = "mkdir"
      <4> USE DEF Go, RecorderTyped, ProducerTyped
      <4>1. CASE AcquireLease(r) \/ Release(r) \/ SaveFrame(r) \/ CaptureStarts(r) \/ Expire(r)
        BY <4>1 DEF AcquireLease, Release, SaveFrame, CaptureStarts, Expire
      <4>2. CASE Mark(r) \/ Rename(r) \/ SyncRoot(r) \/ Unmark(r)
        BY <4>2 DEF Mark, Rename, SyncRoot, Unmark, Unpublished, Published, Stage
      <4>3. CASE BeforeCapture(r) \/ AfterCapture(r) \/ Encode(r) \/ Finish(r)
        BY <4>3 DEF BeforeCapture, AfterCapture, Encode, Finish, Persist
      <4> QED BY <1>4, <4>1, <4>2, <4>3 DEF RecStep
    <3> QED BY <3>1, <3>2
  <2> QED BY <1>1, <1>b, <2>1, <2>2 DEF Reservations
<1> QED BY <1>2, <1>3, <1>4

(* A status that was answered stays true while recordings move on.         *)
LEMMA AnswersStay ==
    ASSUME RecorderInv, NEW q \in Reader, answer'[q] = answer[q],
           calls' \in [Recording -> Nat], valid' \in [Recording -> Nat],
           \A x \in Recording : Onward(x)
    PROVE  Answers(q)'
<1> SUFFICES ASSUME answer[q].of # Nobody PROVE Answers(q)'
  BY DEF Answers
<1>0. PICK x \in Recording : x = answer[q].of
  BY DEF RecorderInv, RecorderTyped, ReadersTyped
<1>1. PICK d \in Status \cup {NoStatus} : d = answer[q].status
  BY DEF RecorderInv, RecorderTyped, ReadersTyped
<1>2. d.completed \in Int /\ d.attempted \in Int
  <2>1. CASE d \in Status
    <3>1. d.completed \in 0..MaxFrames /\ d.attempted \in 0..MaxFrames BY <2>1 DEF Status
    <3> QED BY <3>1, RecorderConstants
  <2>2. CASE d = NoStatus
    <3>1. NoStatus.completed = -1 /\ NoStatus.attempted = -1 BY DEF NoStatus
    <3> QED BY <2>2, <3>1
  <2> QED BY <2>1, <2>2
<1>3. /\ at[x] \notin Unmade /\ Claims(x, d) /\ (Terminal(d) => at[x] = "done")
      /\ dir[x] => answer[q].number \in durable[x]
  BY <1>0, <1>1 DEF RecorderInv, Answers
<1>4. Onward(x) /\ calls[x] \in Nat /\ valid[x] \in Nat /\ calls'[x] \in Nat /\ valid'[x] \in Nat
  BY DEF RecorderInv, RecorderTyped, ProducerTyped
<1>5. at'[x] \notin Unmade /\ (dir'[x] => answer[q].number \in durable'[x])
  BY <1>3, <1>4 DEF Onward
<1>6. Terminal(d) => at'[x] = "done" BY <1>3, <1>4 DEF Onward
<1>7. /\ d.completed <= valid'[x] /\ d.attempted <= calls'[x] + 1
  BY <1>2, <1>3, <1>4 DEF Onward, Claims
<1>8. Terminal(d) => ~d.flight /\ d.attempted = calls'[x] /\ d.completed = valid'[x]
  BY <1>3, <1>4 DEF Onward, Claims
<1> QED BY <1>0, <1>1, <1>5, <1>6, <1>7, <1>8 DEF Answers, Claims

(* Every step of a producer keeps the invariant.                           *)
LEMMA RecorderSafe ==
    ASSUME RecorderInv, NEW r \in Recording, RecStep(r)
    PROVE  RecorderInv'
<1>1. RecorderTyped' BY RecorderType
<1>2. Reservations' BY <1>1, ReservationStep
<1>3. \A x \in Recording : Sound(x)' /\ Onward(x)
  <2>1. CASE Admit(r) BY <2>1, AdmitSound
  <2>2. CASE ~Admit(r)
    <3>1. \A x \in Recording \ {r} : Same(x) BY <2>2, ProducerSteps
    <3>2. Sound(r)' /\ Onward(r) BY <2>2, ProducerSteps
    <3>3. \A x \in Recording \ {r} : Sound(x)' BY <3>1, SameSound DEF RecorderInv
    <3>4. \A x \in Recording \ {r} : Onward(x)
      BY <3>1 DEF Same, Onward, RecorderInv, RecorderTyped, ProducerTyped
    <3> QED BY <3>2, <3>3, <3>4
  <2> QED BY <2>1, <2>2
<1>4. UNCHANGED answer
  BY DEF RecStep, AcquireLease, Admit, Mkdir, Release, Mark, Rename, SyncRoot, Unmark,
         BeforeCapture, CaptureStarts, AfterCapture, SaveFrame, Encode, Finish, Expire
<1>5. \A q \in Reader : Answers(q)'
  BY <1>1, <1>3, <1>4, AnswersStay DEF RecorderTyped, ProducerTyped
<1> QED BY <1>1, <1>2, <1>3, <1>5 DEF RecorderInv

(* So does every step of a reader: what it answers is outside the marker,  *)
(* hence durable, and terminal only when the producer is done.             *)
LEMMA ReaderSafe ==
    ASSUME RecorderInv, NEW q \in Reader, List(q) \/ Answer(q) \/ \E r \in Recording : Look(q, r)
    PROVE  RecorderInv'
<1> USE RecorderConstants DEF RecorderInv, RecorderTyped
<1>1. UNCHANGED <<at, publishing, lease, disk, mem, seq, calls, valid, expired>>
  BY DEF List, Answer, Look
<1>2. ProducerTyped' /\ DiskTyped' BY <1>1 DEF ProducerTyped, DiskTyped, disk
<1>3. \A x \in Recording : Same(x) BY <1>1 DEF Same, disk
<1>4. \A x \in Recording : Sound(x)' BY <1>3, SameSound
<1>5. \A x \in Recording : Onward(x) BY <1>1 DEF Onward, ProducerTyped, disk
<1>6. Reservations'
  <2>1. Reserved' = Reserved BY <1>1 DEF Reserved, disk
  <2> QED BY <1>1, <2>1 DEF Reservations, CapacityHolds, Reserving, Publishes
<1>7. ASSUME List(q) \/ \E r \in Recording : Look(q, r)
      PROVE  ReadersTyped' /\ UNCHANGED answer
  <2>1. UNCHANGED answer BY <1>7 DEF List, Look
  <2>2. CASE \E r \in Recording : Look(q, r) BY <2>1, <2>2 DEF Look, ReadersTyped
  <2>3. CASE List(q)
    <3>0. look[q].at = "list" /\ look[q].of \in Recording BY <2>3 DEF List, ReadersTyped
    <3>1. DOMAIN snaps[look[q].of] \in SUBSET (0..Limit) /\ Limit \in Nat
      BY <3>0 DEF DiskTyped
    <3>2. DOMAIN snaps[look[q].of] # {} => Latest(look[q].of) \in 0..Limit
      BY <3>1, MaxOf DEF Latest
    <3> DEFINE Look3 == [at : {"idle", "list", "recheck"}, of : Recording \cup {Nobody},
                         number : 0..Limit]
    <3>3. look \in [Reader -> Look3] /\ look[q] \in Look3 BY DEF ReadersTyped
    <3>4. PICK l \in Look3 : look' = [look EXCEPT ![q] = l] /\ (l.at # "idle" => l.of \in Recording)
      <4>1. CASE DOMAIN snaps[look[q].of] = {}
        <5>1. 0 \in 0..Limit BY <3>1
        <5>2. NoLook \in Look3 /\ NoLook.at = "idle" BY <5>1 DEF NoLook
        <5> QED BY <2>3, <4>1, <5>2 DEF List
      <4>2. CASE DOMAIN snaps[look[q].of] # {}
        <5>1. [look[q] EXCEPT !.at = "recheck", !.number = Latest(look[q].of)] \in Look3
          BY <3>2, <3>3, <4>2
        <5>2. [look[q] EXCEPT !.at = "recheck", !.number = Latest(look[q].of)].of = look[q].of
          BY <3>3
        <5> QED BY <2>3, <3>0, <4>2, <5>1, <5>2 DEF List
      <4> QED BY <4>1, <4>2
    <3> QED BY <2>1, <3>3, <3>4 DEF ReadersTyped
  <2> QED BY <1>7, <2>1, <2>2, <2>3
<1>8. ASSUME Answer(q)
      PROVE  ReadersTyped' /\ \A p \in Reader : Answers(p)'
  <2> DEFINE r == look[q].of
             n == look[q].number
             a == [of |-> r, number |-> n, status |-> snaps[r][n]]
  <2>1. r \in Recording /\ n \in 0..Limit BY <1>8 DEF Answer, ReadersTyped
  <2>2. \/ answer' = answer
        \/ n \in DOMAIN snaps[r] /\ ~marker[r] /\ answer' = [answer EXCEPT ![q] = a]
    BY <1>8 DEF Answer, MarkerStillAbsent
  <2>3. look' = [look EXCEPT ![q] = NoLook] BY <1>8 DEF Answer
  <2>4. ReadersTyped'
    <3>1. /\ look' \in [Reader -> [at : {"idle", "list", "recheck"}, of : Recording \cup {Nobody},
                                   number : 0..Limit]]
          /\ \A p \in Reader : look'[p].at # "idle" => look'[p].of \in Recording
      BY <2>3 DEF ReadersTyped, NoLook
    <3>2. n \in DOMAIN snaps[r] => snaps[r][n] \in Status BY <2>1 DEF DiskTyped
    <3>3. answer' \in [Reader -> [of : Recording \cup {Nobody}, number : 0..Limit,
                                  status : Status \cup {NoStatus}]]
      BY <2>1, <2>2, <3>2 DEF ReadersTyped
    <3> QED BY <3>1, <3>3 DEF ReadersTyped
  <2>5. ASSUME NEW p \in Reader, answer'[p] = answer[p] PROVE Answers(p)'
    BY <1>2, <1>5, <2>5, AnswersStay DEF ProducerTyped
  <2>6. ASSUME answer'[q] # answer[q] PROVE Answers(q)'
    <3>1. n \in DOMAIN snaps[r] /\ ~marker[r] /\ answer'[q] = a BY <2>2, <2>6 DEF ReadersTyped
    <3>2. a.of = r /\ a.number = n /\ a.status = snaps[r][n] OBVIOUS
    <3>3. Sound(r) BY <2>1
    <3>4. at[r] \notin Unmade BY <3>1, <3>3 DEF Sound, Documented
    <3>5. Claims(r, snaps[r][n]) /\ (Terminal(snaps[r][n]) => at[r] = "done")
      BY <3>1, <3>3 DEF Sound, Truthful
    <3>6. n \in durable[r] BY <3>1, <3>3 DEF Sound, Marked
    <3> HIDE DEF r, n, a
    <3> QED BY <1>1, <3>1, <3>2, <3>4, <3>5, <3>6 DEF Answers, Claims, disk
  <2>7. \A p \in Reader \ {q} : answer'[p] = answer[p] BY <2>2 DEF ReadersTyped
  <2> QED BY <2>4, <2>5, <2>6, <2>7
<1>9. ReadersTyped' /\ \A p \in Reader : Answers(p)'
  <2>1. CASE Answer(q) BY <1>8, <2>1
  <2>2. CASE ~Answer(q)
    <3>1. ReadersTyped' /\ UNCHANGED answer BY <1>7, <2>2
    <3> QED BY <1>2, <1>5, <3>1, AnswersStay DEF ProducerTyped
  <2> QED BY <2>1, <2>2
<1> QED BY <1>1, <1>2, <1>4, <1>6, <1>9

(* A crash ends every producer and reader, and spares the disk.            *)
LEMMA CrashSafe == RecorderInv /\ Crash => RecorderInv'
<1> SUFFICES ASSUME RecorderInv, Crash PROVE RecorderInv'
  OBVIOUS
<1> USE RecorderConstants DEF RecorderInv, RecorderTyped
<1>1. /\ \A x \in Recording : at'[x] = IF at[x] \in {"idle", "done"} THEN at[x] ELSE "dead"
      /\ UNCHANGED <<publishing, dir, marker, snaps, durable, mem, seq, calls, valid, expired, answer>>
  BY DEF Crash, disk
<1>2. ProducerTyped' BY DEF Crash, ProducerTyped, At
<1>3. DiskTyped' BY <1>1 DEF DiskTyped
<1>4. ReadersTyped' BY DEF Crash, ReadersTyped, NoLook
<1>5. Reservations'
  <2>1. Reserved' = Reserved BY <1>1 DEF Reserved
  <2> QED BY <1>1, <2>1 DEF Reservations, CapacityHolds, Reserving, Publishes
<1>6. ASSUME NEW x \in Recording PROVE Sound(x)' /\ Onward(x)
  <2>0. Sound(x) /\ calls[x] \in Nat /\ valid[x] \in Nat BY DEF ProducerTyped
  <2>1. CASE at[x] \in {"idle", "done"}
    <3>1. Same(x) BY <1>1, <2>1 DEF Same
    <3> QED BY <2>0, <3>1, SameSound DEF Same, Onward
  <2>2. CASE at[x] \notin {"idle", "done"}
    <3>1. at'[x] = "dead" BY <1>1, <2>2
    <3>2. Documented(x)' BY <1>1, <2>0, <3>1 DEF Sound, Documented, Publishes, Unmade
    <3>3. Truthful(x)' BY <1>1, <2>0, <2>2, <3>1 DEF Sound, Truthful, Claims
    <3>4. Marked(x)' BY <1>1, <2>0, <3>1 DEF Sound, Marked
    <3>5. Onward(x) BY <1>1, <2>0, <2>2, <3>1 DEF Onward, Unmade
    <3> QED BY <3>2, <3>3, <3>4, <3>5 DEF Sound
  <2> QED BY <2>1, <2>2
<1>7. \A q \in Reader : Answers(q)' BY <1>1, <1>2, <1>6, AnswersStay DEF ProducerTyped
<1> QED BY <1>1, <1>2, <1>3, <1>4, <1>5, <1>6, <1>7 DEF Crash

(* The inductive invariant of the recordings.                              *)
LEMMA RecorderInvariant == RecorderSpec => []RecorderInv
<1>1. RecorderInv /\ [RecorderNext]_rvars => RecorderInv'
  <2>1. ASSUME RecorderInv, RecorderNext PROVE RecorderInv'
    <3>1. CASE \E r \in Recording : RecStep(r) BY <2>1, <3>1, RecorderSafe
    <3>2. CASE \E q \in Reader : List(q) \/ Answer(q) \/ \E r \in Recording : Look(q, r)
      BY <2>1, <3>2, ReaderSafe
    <3>3. CASE Crash BY <2>1, <3>3, CrashSafe
    <3> QED BY <2>1, <3>1, <3>2, <3>3 DEF RecorderNext, RecStep
  <2>2. ASSUME RecorderInv, UNCHANGED rvars PROVE RecorderInv'
    <3> USE <2>2 DEF RecorderInv, rvars, disk
    <3>1. RecorderTyped' BY DEF RecorderTyped, ProducerTyped, DiskTyped, ReadersTyped
    <3>2. \A x \in Recording : Same(x) BY DEF Same
    <3>3. \A x \in Recording : Onward(x) BY DEF Onward, RecorderTyped, ProducerTyped
    <3>4. Reserved' = Reserved BY DEF Reserved
    <3>5. Reservations' BY <3>4 DEF Reservations, CapacityHolds, Reserving, Publishes
    <3>6. \A x \in Recording : Sound(x)' BY <3>2, SameSound
    <3>7. \A q \in Reader : Answers(q)'
      BY <3>1, <3>3, AnswersStay DEF RecorderTyped, ProducerTyped
    <3> QED BY <3>1, <3>5, <3>6, <3>7
  <2> QED BY <2>1, <2>2
<1> QED BY <1>1, InitRecorder, PTL DEF RecorderSpec

(* For any number of recordings and readers, any limits that keep the      *)
(* code's relation between frames and numbers, and any crashes and faults: *)
(* what a client concludes from a status it was answered is true and       *)
(* durable, and neither limit is met by surprise.                          *)
THEOREM RecordingsCorrect == RecorderSpec => []RecordingsHold
<1>1. RecorderInv => RecordingsHold
  <2> SUFFICES ASSUME RecorderInv PROVE RecordingsHold
    OBVIOUS
  <2>1. RecorderTypeOK
    BY DEF RecorderInv, RecorderTyped, ProducerTyped, DiskTyped, RecorderTypeOK
  <2>2. AnswerIsTruthful BY DEF RecorderInv, Answers, Claims, AnswerIsTruthful
  <2>3. AnswerIsDurable BY DEF RecorderInv, Answers, AnswerIsDurable
  <2>4. NumbersSuffice
    <3>1. ASSUME NEW r \in Recording, at[r] = "publish" PROVE ~BeyondLimit(seq[r])
      <4>1. seq[r] \in 0..Limit /\ Limit \in Nat BY <3>1, Numbers, RecorderConstants
      <4> QED BY <4>1 DEF BeyondLimit
    <3> QED BY <3>1 DEF NumbersSuffice
  <2>5. CapacityHolds BY DEF RecorderInv, Reservations
  <2> QED BY <2>1, <2>2, <2>3, <2>4, <2>5 DEF RecordingsHold
<1> QED BY <1>1, RecorderInvariant, PTL

(* Under the same generality: an admission prunes only what has expired    *)
(* and whose producer is done.                                             *)
THEOREM RecorderSparesActive == RecorderSpec => PruneSparesActive
<1> DEFINE Spares == \A x \in Recording : dir[x] /\ ~dir'[x] => at[x] = "done" /\ x \in expired
<1>1. RecorderInv /\ [RecorderNext]_rvars => [Spares]_rvars
  <2> SUFFICES ASSUME RecorderInv, RecorderNext PROVE Spares
    OBVIOUS
  <2>1. ASSUME NEW r \in Recording, RecStep(r) PROVE Spares
    <3>1. CASE Admit(r)
      <4>1. \A x \in Recording : dir'[x] = dir[x] \/ (at[x] = "done" /\ x \in expired)
        BY <3>1, AdmitEffect
      <4> QED BY <4>1
    <3>2. CASE Mkdir(r)
      BY <3>2 DEF Mkdir, RecorderInv, RecorderTyped, DiskTyped
    <3>3. CASE ~Admit(r) /\ ~Mkdir(r)
      <4>1. UNCHANGED dir
        BY <2>1, <3>3 DEF RecStep, AcquireLease, Release, Mark, Rename, SyncRoot, Unmark,
             BeforeCapture, CaptureStarts, AfterCapture, SaveFrame, Encode, Finish, Expire, disk
      <4> QED BY <4>1
    <3> QED BY <3>1, <3>2, <3>3
  <2>2. ASSUME NEW q \in Reader, List(q) \/ Answer(q) \/ \E r \in Recording : Look(q, r)
        PROVE  Spares
    BY <2>2 DEF List, Answer, Look, disk
  <2>3. CASE Crash BY <2>3 DEF Crash, disk
  <2> HIDE DEF Spares
  <2> QED BY <2>1, <2>2, <2>3 DEF RecorderNext, RecStep
<1> QED BY <1>1, RecorderInvariant, PTL DEF RecorderSpec, PruneSparesActive

-----------------------------------------------------------------------------
(* The trusted inventory.                                                  *)

(* Types, with those that InventoryTypeOK leaves open.                     *)
InventoryTyped ==
    /\ InventoryTypeOK
    /\ last \in [Host -> Snapshot \cup {Stale}] /\ call \in [Caller -> SUBSET Snapshot]
    /\ Len(targets) \in 0..Len(HostOrder) /\ DOMAIN targets = 1..Len(targets)
    /\ results \subseteq [index : 1..Len(targets), snap : Snapshot]
    /\ next \in 1..(Len(targets) + 1)
    /\ \A w \in Worker : worker[w] \in {Idle, Exited} \cup 1..Len(targets)

(* The index and the listings applied last agree.                          *)
IndexAgrees == \A e \in Entry : LET listed == last[e[1]].list[e[2]] IN
    /\ index[e].status = "observed" => last[e[1]].health = "observed" /\ listed # Unlisted
    /\ listed # Unlisted => index[e].name = listed /\ index[e].status # "absent"

(* An index that was handed out is with one worker or has one result.      *)
Answered(i) == \E x \in results : x.index = i
Accounted ==
    /\ \A x, y \in results : x.index = y.index => x = y
    /\ \A w \in Worker, i \in 1..Len(targets) : worker[w] = i => i < next /\ ~Answered(i)
    /\ \A v, w \in Worker : worker[w] \in 1..Len(targets) /\ worker[v] = worker[w] => v = w
    /\ phase = "query" => \A i \in 1..Len(targets) :
         /\ i < next => Answered(i) \/ \E w \in Worker : worker[w] = i
         /\ Answered(i) => i < next
    /\ phase = "apply" => \A i \in 1..Len(targets) : Answered(i)

(* The channel is open while anyone may send; the feeder leaves when all   *)
(* is handed out, and until then it has a worker to hand it to.            *)
Attended ==
    /\ ~lost
    /\ phase = "query" => ~shut
    /\ phase # "query" => \A w \in Worker : worker[w] = Exited
    /\ feeder = "off" /\ phase = "query" => next > Len(targets)
    /\ feeder = "select" => next <= Len(targets)
    /\ feeder = "fill" => Len(targets) > 0
    /\ feeder # "off" => phase = "query" /\ \E w \in Worker : worker[w] # Exited
    /\ phase \in {"idle", "stale"} => results = {} /\ next = 1

InventoryInv == InventoryTyped /\ IndexAgrees /\ Accounted /\ Attended

(* A goroutine of the refresh whose next step nothing holds up: the guards *)
(* of the actions of FleetStep.                                            *)
Runnable ==
    \/ feeder = "check" \/ phase \in {"stale", "apply"}
    \/ feeder = "select" /\ (ctx = "ended" \/ \E w \in Worker : worker[w] = Idle)
    \/ feeder = "fill" /\ (next > Len(targets) \/ Cardinality(results) < Len(targets))
    \/ \E w \in Worker : worker[w] \in DOMAIN targets /\ Cardinality(results) < Len(targets)
    \/ \E w \in Worker : worker[w] = Idle /\ feeder = "off"
    \/ phase = "query" /\ \A w \in Worker : worker[w] = Exited
NeverHeldUp == phase # "idle" => Runnable

(* The hosts of a refresh are a sequence, no longer than the registry.     *)
LEMMA EnabledTyped ==
    /\ Len(HostOrder) \in Nat \ {0} /\ DOMAIN HostOrder = 1..Len(HostOrder)
    /\ Len(EnabledHosts) \in 0..Len(HostOrder) /\ DOMAIN EnabledHosts = 1..Len(EnabledHosts)
<1>1. Len(HostOrder) \in Nat \ {0} /\ DOMAIN HostOrder = 1..Len(HostOrder)
  BY InventoryConstants
<1> DEFINE n == Len(HostOrder)
           E == {j \in 1..n : hosts[HostOrder[j]] = "enabled"}
           m == EnabledUpTo(n)
<1>2. IsFiniteSet(1..n) /\ Cardinality(1..n) = n
  <2>1. n \in Nat /\ 1 \in Int BY <1>1
  <2> HIDE DEF n
  <2> QED BY <2>1, FS_Interval
<1>3. Cardinality(E) \in Nat /\ Cardinality(E) <= n
  <2>1. E \in SUBSET (1..n) OBVIOUS
  <2> HIDE DEF n, E
  <2> QED BY <1>2, <2>1, FS_Subset, FS_CardinalityType
<1>4. m \in 0..n BY <1>1, <1>3 DEF EnabledUpTo
<1>5. Len(EnabledHosts) = m /\ DOMAIN EnabledHosts = 1..m
  <2> HIDE DEF m
  <2>1. EnabledHosts = [k \in 1..m |-> EnabledHosts[k]] /\ DOMAIN EnabledHosts = 1..m
    BY DEF EnabledHosts, m, n
  <2> QED BY <1>4, <2>1
<1> QED BY <1>1, <1>4, <1>5

(* There are as many results as hosts that have one, and no more than      *)
(* there are hosts.                                                        *)
LEMMA ResultsCount ==
    ASSUME InventoryTyped, Accounted
    PROVE  /\ Cardinality(results) \in Nat /\ Cardinality(results) <= Len(targets)
           /\ Cardinality(results) = Len(targets) <=> \A i \in 1..Len(targets) : Answered(i)
<1> DEFINE n == Len(targets)
           f == [x \in results |-> x.index]
<1>1. n \in Nat BY InventoryConstants DEF InventoryTyped
<1>2. IsFiniteSet(1..n) /\ Cardinality(1..n) = n
  <2> HIDE DEF n
  <2> QED BY <1>1, FS_Interval
<1>3. f \in Injection(results, 1..n)
  BY DEF InventoryTyped, Accounted, Injection, IsInjective
<1>4. f \in Surjection(results, 1..n) <=> \A i \in 1..n : Answered(i)
  BY DEF InventoryTyped, Surjection, Answered
<1>5. /\ IsFiniteSet(results) /\ Cardinality(results) <= Cardinality(1..n)
      /\ Cardinality(results) = Cardinality(1..n) <=> f \in Surjection(results, 1..n)
  <2> HIDE DEF n, f
  <2> QED BY <1>2, <1>3, FS_Injection
<1> QED BY <1>2, <1>4, <1>5, FS_CardinalityType

(* What a query may return, and what a refresh records of a disabled host. *)
LEMMA SnapshotTyped ==
    ASSUME NEW snap \in Snapshot \cup {Stale}
    PROVE  /\ snap.list \in Listing
           /\ snap.health \in {"observed", "host_unavailable", "access_denied", "refused", "stale"}
           /\ snap.health # "observed" => \A v \in VM : snap.list[v] = Unlisted
<1>1. Nothing \in Listing /\ \A v \in VM : Nothing[v] = Unlisted BY DEF Nothing, Listing
<1>2. CASE snap \in [health : {"observed"}, list : Listing] BY <1>2
<1>3. CASE snap \in [health : {"host_unavailable", "access_denied", "refused"}, list : {Nothing}]
  BY <1>1, <1>3
<1>4. CASE snap = Stale
  <2>1. Stale.list = Nothing /\ Stale.health = "stale" BY DEF Stale
  <2> QED BY <1>1, <1>4, <2>1
<1> QED BY <1>2, <1>3, <1>4 DEF Snapshot

IndexEntry == [status : EntryStatus, name : Name \cup {Unlisted}]

(* What becomes of an entry agrees with the snapshot that was merged.      *)
LEMMA MergedAgrees ==
    ASSUME index \in [Entry -> IndexEntry], NEW e \in Entry, NEW snap \in Snapshot \cup {Stale},
           snap.health # "refused"
    PROVE  /\ Merged(e, snap) \in IndexEntry
           /\ Merged(e, snap).status = "observed" =>
                snap.health = "observed" /\ snap.list[e[2]] # Unlisted
           /\ snap.list[e[2]] # Unlisted => /\ Merged(e, snap).name = snap.list[e[2]]
                                            /\ Merged(e, snap).status # "absent"
<1>1. e[1] \in Host /\ e[2] \in VM BY DEF Entry
<1>2. /\ snap.list[e[2]] \in Name \cup {Unlisted}
      /\ snap.health \in {"observed", "host_unavailable", "access_denied", "stale"}
      /\ snap.health # "observed" => snap.list[e[2]] = Unlisted
  BY <1>1, SnapshotTyped DEF Listing
<1>3. index[e] \in IndexEntry OBVIOUS
<1>4. CASE snap.health = "observed" /\ snap.list[e[2]] # Unlisted
  <2>1. Merged(e, snap) = [status |-> "observed", name |-> snap.list[e[2]]] BY <1>4 DEF Merged
  <2> QED BY <1>2, <1>4, <2>1 DEF IndexEntry, EntryStatus
<1>5. CASE snap.list[e[2]] = Unlisted /\ index[e].status # "absent"
  <2> DEFINE st == IF snap.health = "observed" THEN "stale" ELSE snap.health
  <2>1. Merged(e, snap) = [index[e] EXCEPT !.status = st] BY <1>2, <1>5 DEF Merged
  <2>2. st \in EntryStatus /\ st # "observed" BY <1>2 DEF EntryStatus
  <2> HIDE DEF st
  <2> QED BY <1>3, <1>5, <2>1, <2>2 DEF IndexEntry
<1>6. CASE snap.list[e[2]] = Unlisted /\ index[e].status = "absent"
  <2>1. Merged(e, snap) = index[e] BY <1>6 DEF Merged
  <2> QED BY <1>3, <1>6, <2>1
<1> QED BY <1>2, <1>4, <1>5, <1>6

(* The index agrees with what was applied last, whatever is applied.       *)
LEMMA ApplyAgrees ==
    ASSUME InventoryInv, NEW h, NEW snap \in Snapshot \cup {Stale}, snap.health # "refused",
           ApplySnapshot(h, snap)
    PROVE  /\ index' \in [Entry -> IndexEntry] /\ last' \in [Host -> Snapshot \cup {Stale}]
           /\ IndexAgrees'
<1>1. index \in [Entry -> IndexEntry] /\ last \in [Host -> Snapshot \cup {Stale}]
  BY DEF InventoryInv, InventoryTyped, InventoryTypeOK, IndexEntry
<1>2. index' = [e \in Entry |-> IF e[1] = h THEN Merged(e, snap) ELSE index[e]]
      /\ last' = [last EXCEPT ![h] = snap]
  BY DEF ApplySnapshot
<1>3. index' \in [Entry -> IndexEntry] BY <1>1, <1>2, MergedAgrees
<1>4. last' \in [Host -> Snapshot \cup {Stale}] BY <1>1, <1>2
<1>5. ASSUME NEW e \in Entry
      PROVE  LET listed == last'[e[1]].list[e[2]] IN
             /\ index'[e].status = "observed" => last'[e[1]].health = "observed" /\ listed # Unlisted
             /\ listed # Unlisted => index'[e].name = listed /\ index'[e].status # "absent"
  <2>1. e[1] \in Host BY DEF Entry
  <2>2. CASE e[1] = h
    <3>1. index'[e] = Merged(e, snap) /\ last'[e[1]] = snap BY <1>1, <1>2, <2>1, <2>2
    <3> QED BY <1>1, <3>1, MergedAgrees
  <2>3. CASE e[1] # h
    <3>1. index'[e] = index[e] /\ last'[e[1]] = last[e[1]] BY <1>1, <1>2, <2>1, <2>3
    <3> QED BY <3>1 DEF InventoryInv, IndexAgrees
  <2> QED BY <2>2, <2>3
<1>6. IndexAgrees' BY <1>5 DEF IndexAgrees
<1> QED BY <1>3, <1>4, <1>6

(* Nothing is listed and no refresh is under way: the invariant holds.     *)
LEMMA InitInventory == InventoryInit => InventoryInv
<1> SUFFICES ASSUME InventoryInit PROVE InventoryInv
  OBVIOUS
<1> USE DEF InventoryInit
<1>1. Unavailable \in Snapshot /\ Unavailable \in Snapshot \cup {Stale}
  BY DEF Unavailable, Snapshot
<1>2. Len(targets) = 0 /\ Len(HostOrder) \in Nat \ {0} /\ DOMAIN targets = 1..0 BY EnabledTyped
<1>3. InventoryTyped
  <2>1. InventoryTypeOK BY <1>2 DEF InventoryTypeOK, EntryStatus, Exited, Idle
  <2>2. last \in [Host -> Snapshot \cup {Stale}] /\ call \in [Caller -> SUBSET Snapshot]
    BY <1>1
  <2>3. /\ results \subseteq [index : 1..Len(targets), snap : Snapshot]
        /\ next \in 1..(Len(targets) + 1)
        /\ \A w \in Worker : worker[w] \in {Idle, Exited} \cup 1..Len(targets)
    BY <1>2
  <2> QED BY <1>2, <2>1, <2>2, <2>3 DEF InventoryTyped
<1>4. IndexAgrees
  <2>1. ASSUME NEW e \in Entry
        PROVE  index[e].status = "absent" /\ last[e[1]].list[e[2]] = Unlisted
    BY DEF Entry, Unavailable, Nothing
  <2> QED BY <2>1 DEF IndexAgrees
<1>5. Accounted BY <1>2 DEF Accounted, Answered
<1>6. Attended BY <1>2 DEF Attended
<1> QED BY <1>3, <1>4, <1>5, <1>6 DEF InventoryInv

(* What is said of a refresh stays true while nothing of it moves.         *)
LEMMA FleetUnmoved ==
    ASSUME InventoryInv, UNCHANGED <<phase, disabled, targets, feeder, next, worker, results, shut, lost>>
    PROVE  Accounted' /\ Attended'
<1>1. Accounted' BY DEF InventoryInv, Accounted, Answered
<1>2. Attended' BY DEF InventoryInv, Attended
<1> QED BY <1>1, <1>2

(* Steps outside the refresh: the registry, the aliases, the context, the  *)
(* requests that refresh the local host.                                   *)
LEMMA OutsideSafe ==
    ASSUME InventoryInv,
           \/ ContextEnds \/ ReplaceHosts \/ \E e \in Entry, n \in Name : SetMachineAliases(e, n)
           \/ \E c \in Caller : RefreshLocal(c) \/ ApplyLocal(c)
    PROVE  InventoryInv'
<1> USE DEF InventoryInv, refresh
<1>1. UNCHANGED <<phase, disabled, targets, feeder, next, worker, results, shut, lost>>
  BY DEF ContextEnds, ReplaceHosts, SetMachineAliases, RefreshLocal, ApplyLocal
<1>2. Accounted' /\ Attended' BY <1>1, FleetUnmoved
<1>3. ctx' \in {"live", "ended"}
  BY DEF ContextEnds, ReplaceHosts, SetMachineAliases, RefreshLocal, ApplyLocal,
         InventoryTyped, InventoryTypeOK
<1>4. CASE ContextEnds
  <2>1. InventoryTyped' BY <1>1, <1>3, <1>4 DEF ContextEnds, InventoryTyped, InventoryTypeOK
  <2>2. IndexAgrees' BY <1>4 DEF ContextEnds, IndexAgrees
  <2> QED BY <1>2, <2>1, <2>2
<1>5. CASE ReplaceHosts
  <2>1. InventoryTyped' BY <1>1, <1>3, <1>5 DEF ReplaceHosts, InventoryTyped, InventoryTypeOK
  <2>2. IndexAgrees' BY <1>5 DEF ReplaceHosts, IndexAgrees
  <2> QED BY <1>2, <2>1, <2>2
<1>6. CASE \E e \in Entry, n \in Name : SetMachineAliases(e, n)
  <2>1. InventoryTyped' BY <1>1, <1>3, <1>6 DEF SetMachineAliases, InventoryTyped, InventoryTypeOK
  <2>2. IndexAgrees' BY <1>6 DEF SetMachineAliases, IndexAgrees
  <2> QED BY <1>2, <2>1, <2>2
<1>7. CASE \E c \in Caller : RefreshLocal(c)
  <2>1. InventoryTyped' BY <1>1, <1>3, <1>7 DEF RefreshLocal, InventoryTyped, InventoryTypeOK
  <2>2. IndexAgrees' BY <1>7 DEF RefreshLocal, IndexAgrees
  <2> QED BY <1>2, <2>1, <2>2
<1>8. CASE \E c \in Caller : ApplyLocal(c)
  <2>1. PICK c \in Caller : ApplyLocal(c) BY <1>8
  <2>2. PICK snap \in call[c] :
           \/ Applicable(LocalHostID, snap) /\ ApplySnapshot(LocalHostID, snap)
           \/ UNCHANGED <<index, last>>
    BY <2>1 DEF ApplyLocal
  <2>3. snap \in Snapshot BY DEF InventoryTyped
  <2>4. /\ index' \in [Entry -> IndexEntry] /\ last' \in [Host -> Snapshot \cup {Stale}]
        /\ IndexAgrees'
    <3>1. CASE UNCHANGED <<index, last>>
      BY <3>1 DEF InventoryTyped, InventoryTypeOK, IndexEntry, IndexAgrees
    <3>2. CASE Applicable(LocalHostID, snap) /\ ApplySnapshot(LocalHostID, snap)
      <4>1. snap.health # "refused" BY <3>2 DEF Applicable
      <4> QED BY <2>3, <3>2, <4>1, ApplyAgrees
    <3> QED BY <2>2, <3>1, <3>2
  <2>5. call' \in [Caller -> SUBSET Snapshot] /\ UNCHANGED <<hosts, aliases>>
    BY <2>1 DEF ApplyLocal, InventoryTyped
  <2>6. InventoryTyped' BY <1>1, <1>3, <2>4, <2>5 DEF InventoryTyped, InventoryTypeOK, IndexEntry
  <2> QED BY <1>2, <2>4, <2>6
<1> QED BY <1>4, <1>5, <1>6, <1>7, <1>8

(* A refresh begins: it has looked at the registry and done nothing yet.   *)
LEMMA BeginSafe == InventoryInv /\ Begin => InventoryInv'
<1> SUFFICES ASSUME InventoryInv, Begin PROVE InventoryInv'
  OBVIOUS
<1> USE DEF InventoryInv
<1>1. /\ phase = "idle" /\ phase' = "stale" /\ targets' = EnabledHosts
      /\ disabled' \subseteq DOMAIN HostOrder
      /\ UNCHANGED <<hosts, index, aliases, last, ctx, feeder, next, worker, results, shut, lost, call>>
  BY DEF Begin
<1>2. results = {} /\ next = 1 /\ feeder = "off" /\ \A w \in Worker : worker[w] = Exited
  BY <1>1 DEF Attended, InventoryTyped, InventoryTypeOK
<1>3. /\ Len(targets') \in 0..Len(HostOrder) /\ DOMAIN targets' = 1..Len(targets')
      /\ Len(HostOrder) \in Nat \ {0}
  BY <1>1, EnabledTyped
<1>4. InventoryTypeOK' BY <1>1 DEF InventoryTyped, InventoryTypeOK
<1>5. last' \in [Host -> Snapshot \cup {Stale}] /\ call' \in [Caller -> SUBSET Snapshot]
  BY <1>1 DEF InventoryTyped
<1>6. InventoryTyped' BY <1>1, <1>2, <1>3, <1>4, <1>5 DEF InventoryTyped
<1>7. IndexAgrees' BY <1>1 DEF IndexAgrees
<1>8. Exited \notin 1..Len(targets') BY <1>3 DEF Exited
<1>9. Accounted' BY <1>1, <1>2, <1>8 DEF Accounted, Answered
<1>10. Attended' BY <1>1, <1>2 DEF Attended
<1> QED BY <1>6, <1>7, <1>9, <1>10

(* The machines of a disabled host become stale, or the refresh returns.   *)
LEMMA ApplyDisabledSafe == InventoryInv /\ ApplyDisabled => InventoryInv'
<1> SUFFICES ASSUME InventoryInv, ApplyDisabled PROVE InventoryInv'
  OBVIOUS
<1> USE DEF InventoryInv
<1>1. /\ phase = "stale"
      /\ UNCHANGED <<hosts, aliases, feeder, worker, shut, lost, call>>
  BY DEF ApplyDisabled
<1>2. results = {} /\ next = 1 /\ feeder = "off" /\ \A w \in Worker : worker[w] = Exited
  BY <1>1 DEF Attended, InventoryTyped, InventoryTypeOK
<1>3. PICK i \in disabled :
        \/ /\ Applicable(HostOrder[i], Stale) /\ ApplySnapshot(HostOrder[i], Stale)
           /\ disabled' = disabled \ {i} /\ UNCHANGED <<phase, ctx, targets, next, results>>
        \/ Return /\ disabled' = {} /\ UNCHANGED <<index, last>>
  BY DEF ApplyDisabled
<1>4. Stale \in Snapshot \cup {Stale} /\ Stale.health # "refused" BY DEF Stale
<1>5. /\ index' \in [Entry -> IndexEntry] /\ last' \in [Host -> Snapshot \cup {Stale}]
      /\ IndexAgrees'
  <2>1. CASE UNCHANGED <<index, last>>
    BY <2>1 DEF InventoryTyped, InventoryTypeOK, IndexEntry, IndexAgrees
  <2>2. CASE ApplySnapshot(HostOrder[i], Stale) BY <1>4, <2>2, ApplyAgrees
  <2> QED BY <1>3, <2>1, <2>2
<1>6. /\ hosts' \in [Host -> {"absent", "disabled", "enabled"}] /\ aliases' \in [Entry -> SUBSET Name]
      /\ feeder' \in {"off", "check", "select", "fill"} /\ worker' \in [Worker -> Idle .. Exited]
      /\ call' \in [Caller -> SUBSET Snapshot] /\ disabled' \subseteq DOMAIN HostOrder
  BY <1>1, <1>3 DEF InventoryTyped, InventoryTypeOK
<1>7. CASE Return
  <2>1. phase' = "idle" /\ next' = 1 /\ ctx' = "live" /\ results' = {} /\ Len(targets') = 0
        /\ DOMAIN targets' = 1..0
    BY <1>7 DEF Return
  <2>2. InventoryTyped'
    <3>1. InventoryTypeOK' BY <1>5, <1>6, <2>1 DEF InventoryTypeOK, IndexEntry
    <3>2. Len(targets') \in 0..Len(HostOrder) BY <2>1, EnabledTyped
    <3> QED BY <1>1, <1>2, <1>5, <1>6, <2>1, <3>1, <3>2 DEF InventoryTyped
  <2>3. Accounted' BY <2>1 DEF Accounted
  <2>4. Attended' BY <1>1, <1>2, <2>1 DEF Attended
  <2> QED BY <1>5, <2>2, <2>3, <2>4
<1>8. CASE UNCHANGED <<phase, ctx, targets, next, results>>
  <2>1. InventoryTypeOK' BY <1>5, <1>6, <1>8 DEF InventoryTyped, InventoryTypeOK, IndexEntry
  <2>2. InventoryTyped' BY <1>1, <1>5, <1>6, <1>8, <2>1 DEF InventoryTyped
  <2>3. Accounted' BY <1>1, <1>8 DEF Accounted, Answered
  <2>4. Attended' BY <1>1, <1>8 DEF Attended
  <2> QED BY <1>5, <2>2, <2>3, <2>4
<1> QED BY <1>3, <1>7, <1>8

(* The queries start: nothing is handed out, and there are workers and a   *)
(* feeder when there are hosts.                                            *)
LEMMA StartQueriesSafe == InventoryInv /\ StartQueries => InventoryInv'
<1> SUFFICES ASSUME InventoryInv, StartQueries PROVE InventoryInv'
  OBVIOUS
<1> USE DEF InventoryInv
<1>1. /\ phase = "stale" /\ phase' = "query" /\ shut' = FALSE
      /\ feeder' = IF targets = <<>> THEN "off" ELSE "check"
      /\ worker' \in [Worker -> {Idle, Exited}]
      /\ UNCHANGED <<hosts, index, aliases, last, ctx, disabled, targets, next, results, lost, call>>
  BY DEF StartQueries
<1>2. results = {} /\ next = 1 BY <1>1 DEF Attended
<1>3. /\ Len(targets) \in 0..Len(HostOrder) /\ DOMAIN targets = 1..Len(targets)
      /\ Len(HostOrder) \in Nat \ {0}
  BY EnabledTyped DEF InventoryTyped
<1>4. InventoryTyped'
  <2>1. worker' \in [Worker -> Idle .. Exited] BY <1>1, <1>3 DEF Idle, Exited
  <2>2. InventoryTypeOK' BY <1>1, <2>1 DEF InventoryTyped, InventoryTypeOK
  <2>3. \A w \in Worker : worker'[w] \in {Idle, Exited} \cup 1..Len(targets) BY <1>1
  <2> QED BY <1>1, <2>2, <2>3 DEF InventoryTyped
<1>5. \A i \in 1..Len(targets) : i \notin {Idle, Exited} BY <1>3 DEF Idle, Exited
<1>6. IndexAgrees' BY <1>1 DEF IndexAgrees
<1>7. Accounted' BY <1>1, <1>2, <1>3, <1>5 DEF Accounted, Answered
<1>8. Len(targets) > 0 => \E w \in Worker : worker'[w] # Exited
  <2> DEFINE I == {w \in Worker : worker'[w] = Idle}
  <2>1. Cardinality(I) = IF Cardinality(Worker) < Len(targets) THEN Cardinality(Worker)
                         ELSE Len(targets)
    BY DEF StartQueries
  <2>2. Cardinality(Worker) \in Nat /\ Cardinality(Worker) # 0
    BY InventoryConstants, FS_CardinalityType, FS_EmptySet
  <2>3. Len(targets) > 0 => I # {}
    <3> HIDE DEF I
    <3>1. ASSUME I = {} PROVE Cardinality(I) = 0 BY <3>1, FS_EmptySet
    <3>2. Len(targets) \in Nat BY <1>3
    <3> QED BY <2>1, <2>2, <3>1, <3>2
  <2>4. Idle # Exited BY <1>3 DEF Idle, Exited
  <2> QED BY <2>3, <2>4
<1>9. feeder' = "off" \/ (feeder' = "check" /\ Len(targets) > 0) BY <1>1, <1>3
<1>10. feeder' = "off" => Len(targets) = 0 BY <1>1
<1>11. Attended' BY <1>1, <1>2, <1>3, <1>8, <1>9, <1>10 DEF Attended
<1> QED BY <1>4, <1>6, <1>7, <1>11

(* The numbers a refresh counts with.                                      *)
LEMMA Sizes ==
    ASSUME InventoryTyped
    PROVE  /\ Len(targets) \in Nat /\ DOMAIN targets = 1..Len(targets)
           /\ next \in Nat /\ next >= 1 /\ next <= Len(targets) + 1
           /\ Idle \in Nat /\ Exited \in Nat /\ Idle # Exited
           /\ Idle \notin 1..Len(targets) /\ Exited \notin 1..Len(targets)
           /\ Len(targets) < Exited
<1>1. Len(HostOrder) \in Nat \ {0} /\ Len(targets) \in 0..Len(HostOrder) BY EnabledTyped DEF InventoryTyped
<1> QED BY <1>1 DEF InventoryTyped, Idle, Exited

(* The feeder looks at the context and at what is left.                    *)
LEMMA FeederCheckSafe == InventoryInv /\ FeederCheck => InventoryInv'
<1> SUFFICES ASSUME InventoryInv, FeederCheck PROVE InventoryInv'
  OBVIOUS
<1> USE DEF InventoryInv
<1>1. /\ Len(targets) \in Nat /\ next \in Nat /\ next >= 1 BY Sizes
<1>2. /\ UNCHANGED <<hosts, index, aliases, last, phase, ctx, disabled, targets, next, worker, results,
                     shut, lost, call>>
      /\ feeder' = IF next > Len(targets) THEN "off" ELSE IF ctx = "ended" THEN "fill" ELSE "select"
      /\ feeder = "check"
  BY DEF FeederCheck
<1>3. InventoryTyped' BY <1>2 DEF InventoryTyped, InventoryTypeOK
<1>4. IndexAgrees' BY <1>2 DEF IndexAgrees
<1>5. Accounted' BY <1>2 DEF Accounted, Answered
<1>6. Attended' BY <1>1, <1>2 DEF Attended
<1> QED BY <1>3, <1>4, <1>5, <1>6

(* The feeder hands the next index to an idle worker, or stops offering.   *)
LEMMA FeederSelectSafe == InventoryInv /\ FeederSelect => InventoryInv'
<1> SUFFICES ASSUME InventoryInv, FeederSelect PROVE InventoryInv'
  OBVIOUS
<1> USE DEF InventoryInv
<1>1. /\ Len(targets) \in Nat /\ next \in Nat /\ next >= 1 /\ next <= Len(targets)
      /\ Idle \in Nat /\ Exited \in Nat /\ Idle # Exited
      /\ Idle \notin 1..Len(targets) /\ Exited \notin 1..Len(targets) /\ Len(targets) < Exited
  BY Sizes DEF FeederSelect, Attended
<1>2. UNCHANGED <<hosts, index, aliases, last, phase, ctx, disabled, targets, results, shut, lost, call>>
  BY DEF FeederSelect
<1>3. IndexAgrees' BY <1>2 DEF IndexAgrees
<1>4. CASE ctx = "ended" /\ feeder' = "fill" /\ UNCHANGED <<next, worker>>
  <2>1. InventoryTyped' BY <1>2, <1>4 DEF InventoryTyped, InventoryTypeOK
  <2>2. Accounted' BY <1>2, <1>4 DEF Accounted, Answered
  <2>3. Attended' BY <1>1, <1>2, <1>4 DEF Attended, FeederSelect
  <2> QED BY <1>3, <2>1, <2>2, <2>3
<1>5. ASSUME NEW w \in Worker, worker[w] = Idle, worker' = [worker EXCEPT ![w] = next],
             next' = next + 1, feeder' = "check"
      PROVE  InventoryInv'
  <2>1. worker \in [Worker -> Idle .. Exited] BY DEF InventoryTyped, InventoryTypeOK
  <2>2. \A v \in Worker : worker'[v] = IF v = w THEN next ELSE worker[v] BY <1>5, <2>1
  <2>3. InventoryTyped'
    <3>1. worker' \in [Worker -> Idle .. Exited] BY <1>1, <1>5, <2>1 DEF Idle
    <3>2. InventoryTypeOK' BY <1>1, <1>2, <1>5, <3>1 DEF InventoryTyped, InventoryTypeOK
    <3>3. \A v \in Worker : worker'[v] \in {Idle, Exited} \cup 1..Len(targets)
      BY <1>1, <2>2 DEF InventoryTyped
    <3>4. next' \in 1..(Len(targets) + 1) BY <1>1, <1>5
    <3> QED BY <1>2, <3>2, <3>3, <3>4 DEF InventoryTyped
  <2>4. phase = "query" /\ feeder = "select" BY <1>1 DEF FeederSelect, Attended
  <2>5. ~Answered(next) BY <1>1, <2>4 DEF Accounted
  <2>6. Accounted'
    <3>1. \A i : Answered(i)' <=> Answered(i) BY <1>2 DEF Answered
    <3>2. \A v \in Worker, i \in 1..Len(targets) : worker'[v] = i => i < next' /\ ~Answered(i)'
      BY <1>1, <1>5, <2>2, <2>5, <3>1 DEF Accounted
    <3>3. \A u, v \in Worker : worker'[v] \in 1..Len(targets) /\ worker'[u] = worker'[v] => u = v
      BY <1>1, <2>2 DEF Accounted
    <3>4. ASSUME NEW i \in 1..Len(targets)
          PROVE  /\ i < next' => Answered(i)' \/ \E v \in Worker : worker'[v] = i
                 /\ Answered(i)' => i < next'
      <4>1. Answered(i) => i < next BY <2>4 DEF Accounted
      <4>2. ASSUME i < next PROVE Answered(i) \/ \E v \in Worker : worker'[v] = i
        <5>1. Answered(i) \/ \E v \in Worker : worker[v] = i BY <2>4, <4>2 DEF Accounted
        <5> QED BY <1>1, <1>5, <2>2, <5>1
      <4>3. i = next => \E v \in Worker : worker'[v] = i BY <2>2
      <4> QED BY <1>1, <1>5, <3>1, <4>1, <4>2, <4>3
    <3>5. \A x, y \in results' : x.index = y.index => x = y BY <1>2 DEF Accounted
    <3>6. phase' = "query" BY <1>2, <2>4
    <3> QED BY <1>2, <3>2, <3>3, <3>4, <3>5, <3>6 DEF Accounted
  <2>7. Attended'
    <3>1. \E v \in Worker : worker'[v] # Exited BY <1>1, <2>2
    <3> QED BY <1>2, <1>5, <2>4, <3>1 DEF Attended
  <2> QED BY <1>3, <2>3, <2>6, <2>7
<1> QED BY <1>4, <1>5 DEF FeederSelect

(* A result is sent for an index that was handed out, or about to be, and  *)
(* that no result is there for.                                            *)
LEMMA SendCounts ==
    ASSUME InventoryInv, NEW i \in 1..Len(targets), NEW snap \in Snapshot, Send(i, snap),
           ~Answered(i), UNCHANGED targets
    PROVE  /\ results' \subseteq [index : 1..Len(targets), snap : Snapshot]
           /\ \A x, y \in results' : x.index = y.index => x = y
           /\ \A j : Answered(j)' <=> Answered(j) \/ j = i
<1>1. PICK r : r = [index |-> i, snap |-> snap] OBVIOUS
<1>2. r \in [index : 1..Len(targets), snap : Snapshot] /\ r.index = i BY <1>1
<1>3. results' = results \cup {r} BY <1>1 DEF Send
<1>4. results \subseteq [index : 1..Len(targets), snap : Snapshot] BY DEF InventoryInv, InventoryTyped
<1>5. \A x \in results : x.index # i BY DEF Answered
<1>6. \A x, y \in results : x.index = y.index => x = y BY DEF InventoryInv, Accounted
<1>7. results' \subseteq [index : 1..Len(targets), snap : Snapshot] BY <1>2, <1>3, <1>4
<1>8. \A x, y \in results' : x.index = y.index => x = y BY <1>2, <1>3, <1>5, <1>6
<1>9. \A j : Answered(j)' <=> Answered(j) \/ j = i BY <1>2, <1>3 DEF Answered
<1> QED BY <1>7, <1>8, <1>9

(* Once the context has ended the feeder answers for the hosts left.       *)
LEMMA FeederFillSafe == InventoryInv /\ FeederFill => InventoryInv'
<1> SUFFICES ASSUME InventoryInv, FeederFill PROVE InventoryInv'
  OBVIOUS
<1> USE DEF InventoryInv
<1>1. /\ Len(targets) \in Nat /\ next \in Nat /\ next >= 1 /\ next <= Len(targets) + 1
      /\ Len(targets) > 0 /\ feeder = "fill"
  BY Sizes DEF FeederFill, Attended
<1>2. UNCHANGED <<hosts, index, aliases, last, phase, ctx, disabled, targets, worker, shut, call>>
  BY DEF FeederFill
<1>3. IndexAgrees' BY <1>2 DEF IndexAgrees
<1>4. phase = "query" /\ ~shut /\ ~lost /\ \E w \in Worker : worker[w] # Exited
  BY <1>1 DEF Attended
<1>5. CASE next > Len(targets) /\ feeder' = "off" /\ UNCHANGED <<next, results, lost>>
  <2>1. InventoryTyped' BY <1>2, <1>5 DEF InventoryTyped, InventoryTypeOK
  <2>2. Accounted' BY <1>2, <1>5 DEF Accounted, Answered
  <2>3. Attended' BY <1>2, <1>4, <1>5 DEF Attended
  <2> QED BY <1>3, <2>1, <2>2, <2>3
<1>6. CASE next <= Len(targets) /\ Send(next, Unavailable) /\ next' = next + 1 /\ UNCHANGED feeder
  <2>1. Unavailable \in Snapshot BY DEF Unavailable, Snapshot
  <2>2. next \in 1..Len(targets) BY <1>1, <1>6
  <2>3. ~Answered(next) BY <1>1, <1>4, <2>2 DEF Accounted
  <2>4. /\ results' \subseteq [index : 1..Len(targets), snap : Snapshot]
        /\ \A x, y \in results' : x.index = y.index => x = y
        /\ \A j : Answered(j)' <=> Answered(j) \/ j = next
    BY <1>2, <1>6, <2>1, <2>2, <2>3, SendCounts
  <2>5. InventoryTyped'
    <3>1. InventoryTypeOK' BY <1>1, <1>2, <1>6 DEF InventoryTyped, InventoryTypeOK
    <3>2. next' \in 1..(Len(targets) + 1) BY <1>1, <1>6
    <3> QED BY <1>2, <2>4, <3>1, <3>2 DEF InventoryTyped
  <2>6. Accounted'
    <3>1. \A v \in Worker, i \in 1..Len(targets) : worker[v] = i => i < next' /\ ~Answered(i)'
      BY <1>1, <1>6, <2>4 DEF Accounted
    <3>2. ASSUME NEW i \in 1..Len(targets)
          PROVE  /\ i < next' => Answered(i)' \/ \E v \in Worker : worker[v] = i
                 /\ Answered(i)' => i < next'
      <4>1. /\ i < next => Answered(i) \/ \E v \in Worker : worker[v] = i
            /\ Answered(i) => i < next
        BY <1>4 DEF Accounted
      <4> QED BY <1>1, <1>6, <2>4, <4>1
    <3>3. \A u, v \in Worker : worker[v] \in 1..Len(targets) /\ worker[u] = worker[v] => u = v
      BY DEF Accounted
    <3> QED BY <1>2, <1>4, <2>4, <3>1, <3>2, <3>3 DEF Accounted
  <2>7. Attended' BY <1>1, <1>2, <1>4, <1>6 DEF Attended, Send
  <2> QED BY <1>3, <2>5, <2>6, <2>7
<1> QED BY <1>5, <1>6 DEF FeederFill

(* A worker's query is answered: its result is sent, once.                 *)
LEMMA WorkerAnswersSafe ==
    ASSUME InventoryInv, NEW w \in Worker, WorkerAnswers(w)
    PROVE  InventoryInv'
<1> USE DEF InventoryInv
<1>1. /\ Len(targets) \in Nat /\ DOMAIN targets = 1..Len(targets) /\ next \in Nat
      /\ Idle # Exited /\ Idle \in Nat /\ Exited \in Nat
      /\ Idle \notin 1..Len(targets) /\ Exited \notin 1..Len(targets)
  BY Sizes
<1>2. /\ UNCHANGED <<hosts, index, aliases, last, phase, ctx, disabled, targets, feeder, next, shut, call>>
      /\ worker' = [worker EXCEPT ![w] = Idle]
  BY DEF WorkerAnswers
<1>3. PICK i \in 1..Len(targets) : i = worker[w] BY <1>1 DEF WorkerAnswers
<1>4. PICK snap \in Snapshot : Send(i, snap) BY <1>3 DEF WorkerAnswers
<1>5. ~Answered(i) /\ i < next BY <1>3 DEF Accounted
<1>6. /\ results' \subseteq [index : 1..Len(targets), snap : Snapshot]
      /\ \A x, y \in results' : x.index = y.index => x = y
      /\ \A j : Answered(j)' <=> Answered(j) \/ j = i
  BY <1>2, <1>4, <1>5, SendCounts
<1>7. worker \in [Worker -> Idle .. Exited] BY DEF InventoryTyped, InventoryTypeOK
<1>8. \A v \in Worker : worker'[v] = IF v = w THEN Idle ELSE worker[v] BY <1>2, <1>7
<1>9. phase = "query" /\ ~shut /\ ~lost BY <1>1, <1>3 DEF Attended, InventoryTyped, InventoryTypeOK
<1>10. InventoryTyped'
  <2>1. worker' \in [Worker -> Idle .. Exited] BY <1>1, <1>2, <1>7 DEF Idle
  <2>2. InventoryTypeOK' BY <1>2, <2>1 DEF InventoryTyped, InventoryTypeOK
  <2>3. \A v \in Worker : worker'[v] \in {Idle, Exited} \cup 1..Len(targets)
    BY <1>8 DEF InventoryTyped
  <2> QED BY <1>2, <1>6, <2>2, <2>3 DEF InventoryTyped
<1>11. IndexAgrees' BY <1>2 DEF IndexAgrees
<1>12. Accounted'
  <2>1. \A v \in Worker, j \in 1..Len(targets) : worker'[v] = j => j < next /\ ~Answered(j)'
    BY <1>1, <1>3, <1>6, <1>8 DEF Accounted
  <2>2. \A u, v \in Worker : worker'[v] \in 1..Len(targets) /\ worker'[u] = worker'[v] => u = v
    BY <1>1, <1>8 DEF Accounted
  <2>3. ASSUME NEW j \in 1..Len(targets)
        PROVE  /\ j < next => Answered(j)' \/ \E v \in Worker : worker'[v] = j
               /\ Answered(j)' => j < next
    <3>1. /\ j < next => Answered(j) \/ \E v \in Worker : worker[v] = j
          /\ Answered(j) => j < next
      BY <1>9 DEF Accounted
    <3> QED BY <1>3, <1>5, <1>6, <1>8, <3>1
  <2> QED BY <1>2, <1>6, <1>9, <2>1, <2>2, <2>3 DEF Accounted
<1>13. Attended'
  <2>1. lost' = FALSE BY <1>4, <1>9 DEF Send
  <2>2. \E v \in Worker : worker'[v] # Exited BY <1>1, <1>8
  <2> QED BY <1>2, <1>9, <2>1, <2>2 DEF Attended
<1> QED BY <1>10, <1>11, <1>12, <1>13

(* A worker leaves when the feeder has closed the jobs.                    *)
LEMMA WorkerExitsSafe ==
    ASSUME InventoryInv, NEW w \in Worker, WorkerExits(w)
    PROVE  InventoryInv'
<1> USE DEF InventoryInv
<1>1. /\ Len(targets) \in Nat /\ Idle # Exited /\ Idle \in Nat /\ Exited \in Nat
      /\ Idle \notin 1..Len(targets) /\ Exited \notin 1..Len(targets)
  BY Sizes
<1>2. /\ UNCHANGED <<hosts, index, aliases, last, phase, ctx, disabled, targets, feeder, next, results,
                     shut, lost, call>>
      /\ worker' = [worker EXCEPT ![w] = Exited] /\ worker[w] = Idle /\ feeder = "off"
  BY DEF WorkerExits
<1>3. worker \in [Worker -> Idle .. Exited] BY DEF InventoryTyped, InventoryTypeOK
<1>4. \A v \in Worker : worker'[v] = IF v = w THEN Exited ELSE worker[v] BY <1>2, <1>3
<1>5. InventoryTyped'
  <2>1. worker' \in [Worker -> Idle .. Exited] BY <1>1, <1>2, <1>3 DEF Idle
  <2>2. InventoryTypeOK' BY <1>2, <2>1 DEF InventoryTyped, InventoryTypeOK
  <2>3. \A v \in Worker : worker'[v] \in {Idle, Exited} \cup 1..Len(targets)
    BY <1>4 DEF InventoryTyped
  <2> QED BY <1>2, <2>2, <2>3 DEF InventoryTyped
<1>6. IndexAgrees' BY <1>2 DEF IndexAgrees
<1>7. Accounted'
  <2>1. \A i : Answered(i)' <=> Answered(i) BY <1>2 DEF Answered
  <2>2. \A v \in Worker, i \in 1..Len(targets) : worker'[v] = i <=> worker[v] = i
    BY <1>1, <1>2, <1>4
  <2>3. \A v \in Worker, i \in 1..Len(targets) : worker'[v] = i => i < next /\ ~Answered(i)'
    BY <2>1, <2>2 DEF Accounted
  <2>4. \A u, v \in Worker : worker'[v] \in 1..Len(targets) /\ worker'[u] = worker'[v] => u = v
    BY <1>1, <1>4 DEF Accounted
  <2>5. phase = "query" => \A i \in 1..Len(targets) :
           /\ i < next => Answered(i)' \/ \E v \in Worker : worker'[v] = i
           /\ Answered(i)' => i < next
    BY <2>1, <2>2 DEF Accounted
  <2>6. phase = "apply" => \A i \in 1..Len(targets) : Answered(i)' BY <2>1 DEF Accounted
  <2>7. \A x, y \in results' : x.index = y.index => x = y BY <1>2 DEF Accounted
  <2> QED BY <1>2, <2>3, <2>4, <2>5, <2>6, <2>7 DEF Accounted
<1>8. Attended'
  <2>1. phase # "query" => \A v \in Worker : worker'[v] = Exited BY <1>4 DEF Attended
  <2> QED BY <1>2, <2>1 DEF Attended
<1> QED BY <1>5, <1>6, <1>7, <1>8

(* All workers have left: every index was handed out, and so answered.     *)
LEMMA CollectSafe == InventoryInv /\ Collect => InventoryInv'
<1> SUFFICES ASSUME InventoryInv, Collect PROVE InventoryInv'
  OBVIOUS
<1> USE DEF InventoryInv
<1>1. /\ Len(targets) \in Nat /\ next \in Nat /\ Exited \notin 1..Len(targets)
  BY Sizes
<1>2. /\ UNCHANGED <<hosts, index, aliases, last, ctx, disabled, targets, feeder, worker, results, lost, call>>
      /\ phase = "query" /\ \A w \in Worker : worker[w] = Exited
      /\ phase' = "apply" /\ shut' = TRUE /\ next' = 1
  BY DEF Collect
<1>3. Len(targets) > 0 => feeder = "off" /\ next > Len(targets) BY <1>2 DEF Attended
<1>4. \A i \in 1..Len(targets) : Answered(i)
  <2>1. ASSUME NEW i \in 1..Len(targets) PROVE Answered(i)
    <3>1. i < next BY <1>1, <1>3
    <3>2. Answered(i) \/ \E w \in Worker : worker[w] = i BY <1>2, <3>1 DEF Accounted
    <3> QED BY <1>1, <1>2, <3>2
  <2> QED BY <2>1
<1>5. InventoryTyped' BY <1>1, <1>2 DEF InventoryTyped, InventoryTypeOK
<1>6. IndexAgrees' BY <1>2 DEF IndexAgrees
<1>7. Accounted'
  <2>1. \A i : Answered(i)' <=> Answered(i) BY <1>2 DEF Answered
  <2>2. \A v \in Worker, i \in 1..Len(targets) : worker'[v] # i BY <1>1, <1>2
  <2>3. \A x, y \in results' : x.index = y.index => x = y BY <1>2 DEF Accounted
  <2> QED BY <1>2, <1>4, <2>1, <2>2, <2>3 DEF Accounted
<1>8. Attended'
  <2>1. ~(feeder # "off" /\ Len(targets) > 0) BY <1>3
  <2>2. feeder = "fill" => Len(targets) > 0 BY DEF Attended
  <2>3. feeder # "select"
    <3>1. feeder = "select" => next <= Len(targets) BY DEF Attended
    <3> QED BY <1>1, <1>3, <3>1, Sizes
  <2> QED BY <1>1, <1>2, <2>1, <2>2, <2>3 DEF Attended
<1> QED BY <1>5, <1>6, <1>7, <1>8

(* The results are applied in order, or the refresh returns.               *)
LEMMA ApplyResultSafe == InventoryInv /\ ApplyResult => InventoryInv'
<1> SUFFICES ASSUME InventoryInv, ApplyResult PROVE InventoryInv'
  OBVIOUS
<1> USE DEF InventoryInv
<1>1. /\ Len(targets) \in Nat /\ next \in Nat /\ next >= 1 /\ DOMAIN targets = 1..Len(targets)
      /\ Exited \notin 1..Len(targets)
  BY Sizes
<1>2. phase = "apply" /\ UNCHANGED <<hosts, aliases, disabled, feeder, worker, shut, lost, call>>
  BY DEF ApplyResult
<1>3. \A w \in Worker : worker'[w] = Exited BY <1>2 DEF Attended
<1>4. feeder # "off" => Len(targets) = 0 BY <1>1, <1>2 DEF Attended
<1>5. feeder \notin {"select", "fill"}
  <2>1. feeder = "select" => next <= Len(targets) BY DEF Attended
  <2>2. feeder = "fill" => Len(targets) > 0 BY DEF Attended
  <2> QED BY <1>1, <1>4, <2>1, <2>2
<1>6. /\ index' \in [Entry -> IndexEntry] /\ last' \in [Host -> Snapshot \cup {Stale}]
      /\ IndexAgrees'
  <2>1. CASE UNCHANGED <<index, last>>
    BY <2>1 DEF InventoryTyped, InventoryTypeOK, IndexEntry, IndexAgrees
  <2>2. ASSUME NEW snap \in ResultsFor(next), Applicable(targets[next], snap),
               ApplySnapshot(targets[next], snap)
        PROVE  /\ index' \in [Entry -> IndexEntry] /\ last' \in [Host -> Snapshot \cup {Stale}]
               /\ IndexAgrees'
    <3>1. snap \in Snapshot BY DEF ResultsFor, InventoryTyped
    <3>2. snap.health # "refused" BY <2>2 DEF Applicable
    <3> QED BY <2>2, <3>1, <3>2, ApplyAgrees
  <2> QED BY <2>1, <2>2 DEF ApplyResult
<1>7. hosts' \in [Host -> {"absent", "disabled", "enabled"}] /\ aliases' \in [Entry -> SUBSET Name]
      /\ feeder' \in {"off", "check", "select", "fill"} /\ worker' \in [Worker -> Idle .. Exited]
      /\ call' \in [Caller -> SUBSET Snapshot] /\ disabled' \subseteq DOMAIN HostOrder
  BY <1>2 DEF InventoryTyped, InventoryTypeOK
<1>8. CASE Return
  <2>1. phase' = "idle" /\ next' = 1 /\ ctx' = "live" /\ results' = {} /\ Len(targets') = 0
        /\ DOMAIN targets' = 1..0
    BY <1>8 DEF Return
  <2>2. InventoryTyped'
    <3>1. InventoryTypeOK' BY <1>6, <1>7, <2>1 DEF InventoryTypeOK, IndexEntry
    <3>2. Len(targets') \in 0..Len(HostOrder) BY <2>1, EnabledTyped
    <3> QED BY <1>3, <1>6, <1>7, <2>1, <3>1, <3>2 DEF InventoryTyped
  <2>3. Accounted' BY <2>1 DEF Accounted
  <2>4. Attended' BY <1>2, <1>3, <1>5, <2>1 DEF Attended
  <2> QED BY <1>6, <2>2, <2>3, <2>4
<1>9. CASE next <= Len(targets) /\ GoOn
  <2>1. next' = next + 1 /\ UNCHANGED <<phase, ctx, targets, results>> BY <1>9 DEF GoOn
  <2>2. InventoryTyped'
    <3>1. InventoryTypeOK' BY <1>1, <1>6, <1>7, <2>1 DEF InventoryTyped, InventoryTypeOK, IndexEntry
    <3>2. next' \in 1..(Len(targets') + 1) BY <1>1, <1>9, <2>1
    <3> QED BY <1>3, <1>6, <1>7, <2>1, <3>1, <3>2 DEF InventoryTyped
  <2>3. Accounted'
    <3>1. \A i : Answered(i)' <=> Answered(i) BY <2>1 DEF Answered
    <3>2. \A v \in Worker, i \in 1..Len(targets) : worker'[v] # i BY <1>1, <1>3
    <3>3. \A x, y \in results' : x.index = y.index => x = y BY <2>1 DEF Accounted
    <3>4. \A i \in 1..Len(targets) : Answered(i) BY <1>2 DEF Accounted
    <3> QED BY <1>2, <2>1, <3>1, <3>2, <3>3, <3>4 DEF Accounted
  <2>4. Attended' BY <1>1, <1>2, <1>3, <1>4, <1>5, <2>1 DEF Attended
  <2> QED BY <1>6, <2>2, <2>3, <2>4
<1> QED BY <1>8, <1>9 DEF ApplyResult

(* The invariant holds in every state of the inventory.                    *)
LEMMA InventoryInvariant == InventorySpec => []InventoryInv
<1>1. ASSUME InventoryInv, [InventoryNext]_ivars PROVE InventoryInv'
  <2>1. CASE Begin BY <1>1, <2>1, BeginSafe
  <2>2. CASE \/ ContextEnds \/ ReplaceHosts \/ \E e \in Entry, n \in Name : SetMachineAliases(e, n)
             \/ \E c \in Caller : RefreshLocal(c) \/ ApplyLocal(c)
    BY <1>1, <2>2, OutsideSafe
  <2>3. CASE FleetStep
    <3>1. ASSUME NEW w \in Worker, WorkerAnswers(w) \/ WorkerExits(w) PROVE InventoryInv'
      BY <1>1, <3>1, WorkerAnswersSafe, WorkerExitsSafe
    <3> QED BY <1>1, <2>3, <3>1, ApplyDisabledSafe, StartQueriesSafe, FeederCheckSafe, FeederSelectSafe, FeederFillSafe, CollectSafe,
               ApplyResultSafe DEF FleetStep
  <2>4. CASE UNCHANGED ivars
    <3>1. UNCHANGED <<hosts, index, aliases, last, phase, ctx, disabled, targets, feeder, next, worker,
                      results, shut, lost, call>>
      BY <2>4 DEF ivars, refresh
    <3>2. InventoryTyped' BY <1>1, <3>1 DEF InventoryInv, InventoryTyped, InventoryTypeOK
    <3>3. IndexAgrees' BY <1>1, <3>1 DEF InventoryInv, IndexAgrees
    <3>4. Accounted' /\ Attended' BY <1>1, <3>1, FleetUnmoved
    <3> QED BY <3>2, <3>3, <3>4 DEF InventoryInv
  <2> QED BY <1>1, <2>1, <2>2, <2>3, <2>4 DEF InventoryNext
<1> QED BY <1>1, InitInventory, PTL DEF InventorySpec

(* When the queries are over every host has one result: by then every      *)
(* index has been answered, and none twice.                                *)
LEMMA HostsAnswer == InventoryInv => EveryHostAnswers
<1>1. ASSUME InventoryInv PROVE EveryHostAnswers
  <2> USE <1>1 DEF InventoryInv
  <2>1. ~lost BY DEF Attended
  <2>2. ASSUME phase = "apply"
        PROVE  /\ Cardinality(results) = Len(targets)
               /\ \A i \in DOMAIN targets : Cardinality(ResultsFor(i)) = 1
    <3>1. \A i \in 1..Len(targets) : Answered(i) BY <2>2 DEF Accounted
    <3>2. Cardinality(results) = Len(targets) BY <3>1, ResultsCount
    <3>3. ASSUME NEW i \in DOMAIN targets PROVE Cardinality(ResultsFor(i)) = 1
      <4>1. i \in 1..Len(targets) BY DEF InventoryTyped
      <4>2. PICK x \in results : x.index = i BY <3>1, <4>1 DEF Answered
      <4>3. ResultsFor(i) = {x.snap} BY <4>2 DEF ResultsFor, Accounted
      <4> QED BY <4>3, FS_Singleton
    <3> QED BY <3>2, <3>3
  <2> QED BY <2>1, <2>2 DEF EveryHostAnswers
<1> QED BY <1>1

(* A reference that resolves has one match, and the index agrees with what *)
(* was applied last: the match is listed and no other machine is.          *)
LEMMA ResolvesToListed == InventoryInv => ResolvedIsListed
<1>1. ASSUME InventoryInv PROVE ResolvedIsListed
  <2> USE <1>1 DEF InventoryInv
  <2>1. ASSUME NEW ref \in Reference, NEW e \in Resolved(ref)
        PROVE  /\ hosts[e[1]] = "enabled"
               /\ last[e[1]].health = "observed" /\ last[e[1]].list[e[2]] # Unlisted
               /\ ListedAs(ref, e) \/ (ref.kind = "name" /\ ref.of \in aliases[e])
               /\ \A o \in Entry \ {e} : ~ListedAs(ref, o)
    <3>1. /\ e \in Matching(ref) /\ Cardinality(Matching(ref)) = 1
          /\ hosts[e[1]] = "enabled" /\ index[e].status = "observed" /\ e \in Entry
          /\ Names(ref, e, {index[e].name} \cup aliases[e])
      BY DEF Resolved, Matching
    <3>2. IsFiniteSet(Matching(ref))
      <4>1. IsFiniteSet(Host)
        <5>1. IsFiniteSet(DOMAIN HostOrder) BY EnabledTyped, FS_Interval
        <5>2. [i \in DOMAIN HostOrder |-> HostOrder[i]] \in Surjection(DOMAIN HostOrder, Host)
          BY DEF Host, Surjection
        <5> QED BY <5>1, <5>2, FS_Surjection
      <4>2. IsFiniteSet(Entry) BY <4>1, InventoryConstants, FS_Product DEF Entry
      <4>3. Matching(ref) \in SUBSET Entry BY DEF Matching
      <4> QED BY <4>2, <4>3, FS_Subset
    <3>3. Matching(ref) = {e} BY <3>1, <3>2, FS_Singleton
    <3>4. ASSUME NEW o \in Entry \ {e}, ListedAs(ref, o) PROVE FALSE
      <4>1. index[o].name = last[o[1]].list[o[2]] /\ index[o].status # "absent"
            /\ Names(ref, o, {last[o[1]].list[o[2]]})
        BY <3>4 DEF IndexAgrees, ListedAs
      <4>2. Names(ref, o, {index[o].name} \cup aliases[o]) BY <4>1 DEF Names
      <4>3. o \in Matching(ref) BY <4>1, <4>2 DEF Matching
      <4> QED BY <3>3, <4>3
    <3>5. /\ last[e[1]].health = "observed" /\ last[e[1]].list[e[2]] # Unlisted
          /\ index[e].name = last[e[1]].list[e[2]]
      BY <3>1 DEF IndexAgrees
    <3>6. ListedAs(ref, e) \/ (ref.kind = "name" /\ ref.of \in aliases[e])
      BY <3>1, <3>5 DEF ListedAs, Names
    <3> QED BY <3>1, <3>4, <3>5, <3>6
  <2> QED BY <2>1 DEF ResolvedIsListed
<1> QED BY <1>1

(* For any registry of hosts, number of workers and callers, and any order *)
(* of answers, edits and cancellation: a fleet refresh has one result for  *)
(* every enabled host and sends nothing on the closed channel, and a       *)
(* reference resolves only to the one machine that its host, enabled,      *)
(* listed last as that, or has it as an alias.                             *)
THEOREM InventoryCorrect == InventorySpec => []InventoryHolds
<1>1. InventoryInv => InventoryHolds
  BY HostsAnswer, ResolvesToListed DEF InventoryInv, InventoryTyped, InventoryHolds
<1> QED BY <1>1, InventoryInvariant, PTL

(* Under the same generality: while a fleet refresh has not returned, the  *)
(* next step of one of its goroutines waits for nothing; the buffer of the *)
(* results channel is never full for one that must send.                   *)
THEOREM InventoryNeverHeldUp == InventorySpec => []NeverHeldUp
<1>1. ASSUME InventoryInv PROVE NeverHeldUp
  <2> USE <1>1 DEF InventoryInv
  <2>1. /\ Len(targets) \in Nat /\ next \in Nat /\ next >= 1 /\ DOMAIN targets = 1..Len(targets)
        /\ Exited \notin 1..Len(targets)
    BY Sizes
  <2>2. ASSUME NEW i \in 1..Len(targets), ~Answered(i) PROVE Cardinality(results) < Len(targets)
    BY <2>1, <2>2, ResultsCount
  <2>3. ASSUME phase = "query" PROVE Runnable
    <3>1. CASE feeder = "check" BY <3>1 DEF Runnable
    <3>2. CASE \E w \in Worker : worker[w] \in 1..Len(targets)
      <4>1. PICK w \in Worker, i \in 1..Len(targets) : worker[w] = i BY <3>2
      <4>2. ~Answered(i) BY <4>1 DEF Accounted
      <4> QED BY <2>1, <2>2, <4>1, <4>2 DEF Runnable
    <3>3. CASE \A w \in Worker : worker[w] = Exited BY <2>3, <3>3 DEF Runnable
    <3>4. CASE feeder = "fill"
      <4>1. CASE next > Len(targets) BY <3>4, <4>1 DEF Runnable
      <4>2. CASE next <= Len(targets)
        <5>1. next \in 1..Len(targets) BY <2>1, <4>2
        <5>2. ~Answered(next) BY <2>1, <2>3, <5>1 DEF Accounted
        <5> QED BY <2>2, <3>4, <5>1, <5>2 DEF Runnable
      <4> QED BY <2>1, <4>1, <4>2
    <3>5. CASE \E w \in Worker : worker[w] = Idle
      BY <3>1, <3>4, <3>5 DEF Runnable, InventoryTyped, InventoryTypeOK
    <3> QED BY <3>2, <3>3, <3>5 DEF InventoryTyped
  <2>4. phase \in {"stale", "apply"} => Runnable BY DEF Runnable
  <2> QED BY <2>3, <2>4 DEF NeverHeldUp, InventoryTyped, InventoryTypeOK
<1> QED BY <1>1, InventoryInvariant, PTL

=============================================================================
