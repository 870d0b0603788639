------------------------------ MODULE LabGrants ------------------------------
(***************************************************************************)
(* Lab grants: standing authority for console input and desktop actions on *)
(* one enrolled VM, internal/app (console_lab*.go, console.go, desktop.go) *)
(* behind daemon/handlers_desktop.go.                                      *)
(*                                                                         *)
(* One grant id: issuers share issuer and idempotency key and may differ   *)
(* in their terms.  A grant is three documents, each created exclusively   *)
(* under the lease console-lab-<id>: "json" (the grant), "active" and      *)
(* "revoked".  An action of an executor derives an approval of its own     *)
(* from the grant and is admitted like any mutation (module Mutation); a   *)
(* plain caller presents an approval id instead of a grant.                *)
(* The lease is never taken from a living holder (module Lease); a crash   *)
(* stops every caller, and the lease is then reclaimed.                    *)
(***************************************************************************)
EXTENDS Naturals, FiniteSets

CONSTANTS Issuer, Executor, Revoker, Plain, \* the requests
          NoOne, Own,            \* no holder, no grant; an approval issued to a plain caller
          MaxEpoch, MaxLabCrashes, MaxLabFaults  \* bounds: enrollment changes, crashes, faults

Request == Issuer \cup Executor \cup Revoker \cup Plain

ASSUME LabConstants ==
    /\ Issuer \cap (Executor \cup Revoker \cup Plain) = {}
    /\ Executor \cap (Revoker \cup Plain) = {} /\ Revoker \cap Plain = {}
    /\ NoOne \notin Request /\ Own \notin Executor /\ MaxEpoch \in Nat

VARIABLES pc,         \* per request: its next step
          holder,     \* the request holding the grant's lease
          fence,      \* the executor inside the enrollment fence
          doc,        \* per document: "absent", "torn" or "whole"
          grant,      \* what the grant document says: its request and the epoch
          seen,       \* per issuer: the enrollment epoch it read
          revocation, \* the revoker the revocation document names
          receipts, lines, \* authority changes with a receipt, with a terminal line
          approval,   \* per executor: "none", "issued" or "consumed"
          dispatched, \* executors whose approval reached the guest
          epoch, safe, over,    \* the enrollment, its rollback point, the grant's time
          labCrashes, labFaults

docs == <<doc, grant, revocation>>
world == <<epoch, safe, over>>
lvars == <<pc, holder, fence, docs, seen, receipts, lines, approval, dispatched,
           world, labCrashes, labFaults>>

Steps == {"idle", "load", "intent", "document", "receipt", "line", "activate", "derive",
          "admit", "fence", "recheck", "dispatch", "settle", "undo", "fail", "answer",
          "done", "failed"}

LabTypeOK ==
    /\ pc \in [Request -> Steps]
    /\ holder \in Request \cup {NoOne} /\ fence \in Executor \cup {NoOne}
    /\ doc \in [{"json", "active", "revoked"} -> {"absent", "torn", "whole"}]
    /\ grant \in [by : Issuer \cup {NoOne}, epoch : 0..MaxEpoch]
    /\ seen \in [Issuer -> 0..MaxEpoch] /\ revocation \in Revoker \cup {NoOne}
    /\ receipts \subseteq {"issue", "revoke"} /\ lines \subseteq {"issue", "revoke"}
    /\ approval \in [Executor -> {"none", "issued", "consumed"}]
    /\ dispatched \subseteq Executor
    /\ epoch \in 0..MaxEpoch /\ safe \in BOOLEAN /\ over \in BOOLEAN

LabInit ==
    /\ pc = [r \in Request |-> "idle"] /\ holder = NoOne /\ fence = NoOne
    /\ doc = [d \in {"json", "active", "revoked"} |-> "absent"]
    /\ grant = [by |-> NoOne, epoch |-> 0] /\ seen = [i \in Issuer |-> 0]
    /\ revocation = NoOne /\ receipts = {} /\ lines = {}
    /\ approval = [e \in Executor |-> "none"] /\ dispatched = {}
    /\ epoch = 0 /\ safe = TRUE /\ over = FALSE /\ labCrashes = 0 /\ labFaults = 0

Goto(r, s) == pc' = [pc EXCEPT ![r] = s]
LabFault == labFaults < MaxLabFaults /\ labFaults' = labFaults + 1
LabWorks == UNCHANGED labFaults
Kind(r) == IF r \in Issuer THEN "issue" ELSE "revoke"

-----------------------------------------------------------------------------
(* The documents.                                                          *)

\* readLabDocument and decodeLabDocument: a document counts when it is whole.
LabActivationAny == doc["json"] = "whole"
LabActivation == doc["active"] = "whole"
\* labRevoked: an unreadable revocation is an error, which refuses as well.
NotRevoked == doc["revoked"] = "absent"

\* resolveLabBinding: time, revocation, enrollment epoch, rollback point.
Binding == ~over /\ NotRevoked /\ epoch = grant.epoch /\ safe

\* writeLabDocument: an exclusive create, written and synced; what fails before
\* the commit is removed, a failed directory sync leaves the document.
Write(d) == doc[d] = "absent" /\ doc' = [doc EXCEPT ![d] = "whole"]

\* LabGrantStatus
LabGrantStatus ==
    IF doc["json"] # "whole" \/ doc["revoked"] = "torn" THEN "invalid"
    ELSE IF doc["revoked"] = "whole" THEN "revoked"
    ELSE IF over THEN "expired"
    ELSE IF Binding /\ LabActivation THEN "active" ELSE "stale"

\* A grant that is loaded, bound and activated: what an executor needs, and
\* what ActiveLabGrant looks for among the beneficiary's grants.
Usable == doc["json"] = "whole" /\ Binding /\ LabActivation
ActiveLabGrant == IF Usable THEN "active" ELSE "disabled"

-----------------------------------------------------------------------------
(* Every request on a grant takes its lease first and gives it back last.  *)

LabLock(r) ==
    /\ holder = NoOne /\ holder' = r /\ Goto(r, "load")
    /\ UNCHANGED <<fence, docs, seen, receipts, lines, approval, dispatched, world,
                   labCrashes, labFaults>>
BeginIssue(i) == pc[i] = "idle" /\ LabLock(i)
BeginExecute(e) == pc[e] = "idle" /\ LabLock(e)
BeginRevoke(v) == pc[v] = "idle" /\ LabLock(v)

LeaveLease(r) ==
    /\ pc[r] \in {"answer", "fail"} /\ holder' = NoOne
    /\ Goto(r, IF pc[r] = "answer" THEN "done" ELSE "failed")
    /\ UNCHANGED <<fence, docs, seen, receipts, lines, approval, dispatched, world,
                   labCrashes, labFaults>>

\* A caller may send the same request again after an error.
Retry(r) ==
    /\ pc[r] = "failed" /\ Goto(r, "idle")
    /\ UNCHANGED <<holder, fence, docs, seen, receipts, lines, approval, dispatched,
                   world, labCrashes, labFaults>>

-----------------------------------------------------------------------------
(* IssueLabGrant                                                           *)

SameGrant(i) == grant = [by |-> i, epoch |-> epoch]
LoadGrant(i) ==
    /\ i \in Issuer /\ pc[i] = "load"
    /\ \/ /\ safe
          /\ doc["json"] = "absent" \/ (doc["json"] = "whole" /\ SameGrant(i) /\ Binding)
          /\ seen' = [seen EXCEPT ![i] = epoch] /\ Goto(i, "intent")
       \/ /\ \/ ~safe \/ doc["json"] = "torn"
             \/ doc["json"] = "whole" /\ ~(SameGrant(i) /\ Binding)
          /\ Goto(i, "fail") /\ UNCHANGED seen
    /\ UNCHANGED <<holder, fence, docs, receipts, lines, approval, dispatched, world,
                   labCrashes, labFaults>>

(* persistLabAuthority, for issuers and revokers: the admission intent,    *)
(* the document, the receipt, the terminal line.                           *)
Intent(r) ==
    /\ pc[r] = "intent"
    /\ \/ LabWorks /\ Goto(r, "document")
       \/ LabFault /\ Goto(r, "fail")
    /\ UNCHANGED <<holder, fence, docs, seen, receipts, lines, approval, dispatched,
                   world, labCrashes>>

WriteGrant(i) ==
    /\ i \in Issuer /\ pc[i] = "document"
    /\ \/ doc["json"] = "whole" /\ LabWorks /\ Goto(i, "receipt") /\ UNCHANGED docs
       \/ /\ Write("json") /\ grant' = [by |-> i, epoch |-> seen[i]]
          /\ \/ LabWorks /\ Goto(i, "receipt")
             \/ LabFault /\ Goto(i, "fail")
          /\ UNCHANGED revocation
       \/ LabFault /\ Goto(i, "fail") /\ UNCHANGED docs
    /\ UNCHANGED <<holder, fence, seen, receipts, lines, approval, dispatched, world,
                   labCrashes>>

WriteRevocation(v) ==
    /\ v \in Revoker /\ pc[v] = "document"
    /\ \/ doc["revoked"] = "whole" /\ LabWorks /\ Goto(v, "receipt") /\ UNCHANGED docs
       \/ /\ Write("revoked") /\ revocation' = v
          /\ \/ LabWorks /\ Goto(v, "receipt")
             \/ LabFault /\ Goto(v, "fail")
          /\ UNCHANGED grant
       \/ LabFault /\ Goto(v, "fail") /\ UNCHANGED docs
    /\ UNCHANGED <<holder, fence, seen, receipts, lines, approval, dispatched, world,
                   labCrashes>>

EnsureReceipt(r) ==
    /\ pc[r] = "receipt"
    /\ \/ LabWorks /\ receipts' = receipts \cup {Kind(r)} /\ Goto(r, "line")
       \/ LabFault /\ Goto(r, "fail") /\ UNCHANGED receipts
    /\ UNCHANGED <<holder, fence, docs, seen, lines, approval, dispatched, world, labCrashes>>

EnsureLine(r) ==
    /\ pc[r] = "line"
    /\ \/ /\ LabWorks /\ lines' = lines \cup {Kind(r)}
          /\ Goto(r, IF r \in Issuer THEN "activate" ELSE "answer")
       \/ LabFault /\ Goto(r, "fail") /\ UNCHANGED lines
    /\ UNCHANGED <<holder, fence, docs, seen, receipts, approval, dispatched, world,
                   labCrashes>>

\* activateLabGrant
Activate(i) ==
    /\ pc[i] = "activate"
    /\ \/ LabActivation /\ LabWorks /\ Goto(i, "answer") /\ UNCHANGED docs
       \/ /\ Write("active") /\ UNCHANGED <<grant, revocation>>
          /\ \/ LabWorks /\ Goto(i, "answer")
             \/ LabFault /\ Goto(i, "fail")
       \/ /\ \/ doc["active"] = "torn" /\ LabWorks
             \/ LabFault
          /\ Goto(i, "fail") /\ UNCHANGED docs
    /\ UNCHANGED <<holder, fence, seen, receipts, lines, approval, dispatched, world,
                   labCrashes>>

-----------------------------------------------------------------------------
(* RevokeLabGrant: the same revocation again, or the first one.            *)

LoadRevocation(v) ==
    /\ v \in Revoker /\ pc[v] = "load"
    /\ \/ /\ doc["json"] = "whole"
          /\ doc["revoked"] = "absent" \/ (doc["revoked"] = "whole" /\ revocation = v)
          /\ Goto(v, "intent")
       \/ /\ \/ doc["json"] # "whole" \/ doc["revoked"] = "torn"
             \/ doc["revoked"] = "whole" /\ revocation # v
          /\ Goto(v, "fail")
    /\ UNCHANGED <<holder, fence, docs, seen, receipts, lines, approval, dispatched,
                   world, labCrashes, labFaults>>

-----------------------------------------------------------------------------
(* ExecuteLabMutation, the console's and the desktop's.                    *)

CheckAuthority(e) ==
    /\ e \in Executor /\ pc[e] = "load"
    /\ Goto(e, IF Usable THEN "derive" ELSE "fail")
    /\ UNCHANGED <<holder, fence, docs, seen, receipts, lines, approval, dispatched,
                   world, labCrashes, labFaults>>

\* deriveLabApproval: the approval's id follows from grant, actor and key, so a
\* retry finds the one an earlier attempt issued.
Derive(e) ==
    /\ pc[e] = "derive"
    /\ \/ /\ LabWorks /\ Goto(e, "admit")
          /\ approval' = [approval EXCEPT ![e] = IF @ = "none" THEN "issued" ELSE @]
       \/ /\ LabFault /\ Goto(e, "fail")
          /\ approval' \in {approval, [approval EXCEPT ![e] = IF @ = "none" THEN "issued" ELSE @]}
    /\ UNCHANGED <<holder, fence, docs, seen, receipts, lines, dispatched, world, labCrashes>>

\* executeMutation admits it and consumes the approval, or answers with what an
\* earlier attempt left.
AdmitInput(e) ==
    /\ pc[e] = "admit"
    /\ \/ /\ approval[e] = "issued" /\ LabWorks
          /\ approval' = [approval EXCEPT ![e] = "consumed"] /\ Goto(e, "fence")
       \/ /\ \/ approval[e] = "consumed" /\ LabWorks
             \/ approval[e] = "issued" /\ LabFault
          /\ Goto(e, "fail") /\ UNCHANGED approval
    /\ UNCHANGED <<holder, fence, docs, seen, receipts, lines, dispatched, world, labCrashes>>

\* WithEnrollmentFence excludes every publication of a target.
EnterFenceOpen(e) ==
    /\ pc[e] = "fence" /\ Goto(e, "recheck")
    /\ UNCHANGED <<holder, fence, docs, seen, receipts, lines, approval, dispatched,
                   world, labCrashes, labFaults>>
EnterFence(e) ==
    /\ pc[e] = "fence" /\ fence = NoOne /\ fence' = e /\ Goto(e, "recheck")
    /\ UNCHANGED <<holder, docs, seen, receipts, lines, approval, dispatched, world,
                   labCrashes, labFaults>>

\* The final authority check, inside the fence.
Recheck(e) ==
    /\ pc[e] = "recheck" /\ Goto(e, IF Usable THEN "dispatch" ELSE "undo")
    /\ UNCHANGED <<holder, fence, docs, seen, receipts, lines, approval, dispatched,
                   world, labCrashes, labFaults>>

\* dispatchConsoleInput and DesktopService.dispatch: input whose frame is stale,
\* or whose context has ended, never reaches the provider.
Dispatch(e) ==
    /\ pc[e] = "dispatch"
    /\ \/ dispatched' = dispatched \cup {e} /\ LabWorks /\ Goto(e, "settle")
       \/ LabFault /\ Goto(e, "undo") /\ UNCHANGED dispatched
    /\ UNCHANGED <<holder, fence, docs, seen, receipts, lines, approval, world, labCrashes>>

\* The end of the fence: after a dispatch the approval stays consumed, otherwise
\* the compensation gives it back.
Leave(e) ==
    /\ pc[e] \in {"settle", "undo"} /\ fence' = NoOne
    /\ \/ pc[e] = "settle" /\ Goto(e, "answer") /\ UNCHANGED approval
       \/ /\ pc[e] = "undo" /\ Goto(e, "fail")
          /\ approval' = [approval EXCEPT ![e] = "issued"]
    /\ UNCHANGED <<holder, docs, seen, receipts, lines, dispatched, world, labCrashes, labFaults>>

-----------------------------------------------------------------------------
(* InputResult and Action without a grant: an approval is presented, and   *)
(* one derived from a grant is refused by the prefix of its id.            *)

LabPrefixedNever(a) == FALSE
LabPrefixed(a) == a \in Executor
PlainInput(p) ==
    /\ pc[p] = "idle"
    /\ \E a \in Executor \cup {Own} :
         IF LabPrefixed(a) \/ (a \in Executor /\ approval[a] # "issued")
         THEN Goto(p, "failed") /\ UNCHANGED <<approval, dispatched>>
         ELSE /\ Goto(p, "done") /\ dispatched' = dispatched \cup ({a} \cap Executor)
              /\ approval' = [e \in Executor |-> IF e = a THEN "consumed" ELSE approval[e]]
    /\ UNCHANGED <<holder, fence, docs, seen, receipts, lines, world, labCrashes, labFaults>>

-----------------------------------------------------------------------------
(* The world: the enrollment is replaced outside the fence, the rollback   *)
(* point comes and goes, time passes, the daemon dies.                     *)

ReplaceEnrollment ==
    /\ fence = NoOne /\ epoch < MaxEpoch /\ epoch' = epoch + 1
    /\ UNCHANGED <<pc, holder, fence, docs, seen, receipts, lines, approval, dispatched,
                   safe, over, labCrashes, labFaults>>
SafetyChanges ==
    /\ safe' = ~safe
    /\ UNCHANGED <<pc, holder, fence, docs, seen, receipts, lines, approval, dispatched,
                   epoch, over, labCrashes, labFaults>>
GrantExpires ==
    /\ ~over /\ doc["json"] = "whole" /\ over' = TRUE
    /\ UNCHANGED <<pc, holder, fence, docs, seen, receipts, lines, approval, dispatched,
                   epoch, safe, labCrashes, labFaults>>

\* The document being written, if any.
Writing(r) == CASE pc[r] = "document" /\ r \in Issuer -> {"json"}
                [] pc[r] = "document" /\ r \in Revoker -> {"revoked"}
                [] pc[r] = "activate" -> {"active"}
                [] OTHER -> {}
LabCrash ==
    /\ labCrashes < MaxLabCrashes /\ labCrashes' = labCrashes + 1
    /\ pc' = [r \in Request |-> IF pc[r] = "done" THEN "done" ELSE "idle"]
    /\ holder' = NoOne /\ fence' = NoOne
    /\ \/ UNCHANGED doc
       \/ \E r \in Request : \E d \in Writing(r) :
             doc[d] = "absent" /\ doc' = [doc EXCEPT ![d] = "torn"]
    /\ UNCHANGED <<grant, revocation, seen, receipts, lines, approval, dispatched, world,
                   labFaults>>

LabNext ==
    \/ \E i \in Issuer : BeginIssue(i) \/ LoadGrant(i) \/ WriteGrant(i) \/ Activate(i)
    \/ \E v \in Revoker : BeginRevoke(v) \/ LoadRevocation(v) \/ WriteRevocation(v)
    \/ \E r \in Issuer \cup Revoker : Intent(r) \/ EnsureReceipt(r) \/ EnsureLine(r)
    \/ \E e \in Executor : \/ BeginExecute(e) \/ CheckAuthority(e) \/ Derive(e) \/ AdmitInput(e)
                           \/ EnterFence(e) \/ Recheck(e) \/ Dispatch(e) \/ Leave(e)
    \/ \E r \in Request : LeaveLease(r) \/ Retry(r)
    \/ \E p \in Plain : PlainInput(p)
    \/ ReplaceEnrollment \/ SafetyChanges \/ GrantExpires \/ LabCrash

LabSpec == LabInit /\ [][LabNext]_lvars

-----------------------------------------------------------------------------

(* "Once it succeeds no new action can dispatch": after a revocation was   *)
(* answered, no approval derived from the grant reaches the guest, neither *)
(* through the grant nor presented by its id.                              *)
RevokeIsFinal == [][(\E v \in Revoker : pc[v] = "done") => dispatched' = dispatched]_lvars

(* Authority becomes usable only after the issuance receipt and its        *)
(* terminal audit line are durable, whatever crash or fault separated the  *)
(* grant document from its evidence.                                       *)
AuthorityIsEvidenced ==
    (dispatched # {} \/ "active" \in {LabGrantStatus, ActiveLabGrant}) => "issue" \in receipts \cap lines

(* What reaches the guest under a grant does so on the enrollment the      *)
(* grant was issued for, though the enrollment may be replaced between the *)
(* admission and the dispatch.                                             *)
DispatchOnGrantedEpoch == [][dispatched' # dispatched => epoch = grant.epoch]_lvars

(* An issuer that is answered holds the grant that is on disk: of two      *)
(* requests with one key and different terms at most one succeeds.         *)
AnsweredIsTheGrant == \A i \in Issuer : pc[i] = "done" => grant.by = i

(* What a grant in force may be taken to mean by whoever is answered.      *)
GrantsHold == LabTypeOK /\ AuthorityIsEvidenced /\ AnsweredIsTheGrant
=============================================================================
